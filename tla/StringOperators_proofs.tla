------------------------ MODULE StringOperators_proofs ------------------------
(***************************************************************************)
(* What the operators on numbers and texts do to the world, for every      *)
(* memory, every content and every number of operators one after another:  *)
(* contents are texts of links; the answer is a new element, which becomes *)
(* the value of the first operand and of nothing else; each end has its    *)
(* reason; and the answer is the number or the text that it should be.     *)
(***************************************************************************)
EXTENDS StringOperators, ElementSteps_proofs, SequenceTheorems, FunctionTheorems,
        WellFoundedInduction

LinkFields == Fields \cup {"content", "steps"}

\* A world with contents, before, during or after an execution.
LinkSound(x) ==
  /\ LinkFields \subseteq DOMAIN x
  /\ Typed(x)
  /\ x.steps \in Nat
  /\ Exists(x) = 1 .. x.fresh - 1
  /\ HasContents(x)
  /\ \E w \in Worlds : Exists(w) \subseteq Exists(x)

LEMMA WorldsSound ==
  ASSUME NEW w \in Worlds
  PROVE  LinkSound(w)
<1>1. DOMAIN w.operand = {} /\ DOMAIN w.set = {}
  BY WorldsAssumption
<1>2. Typed(w)
  BY <1>1, WorldsAssumption DEF Typed, Fields
<1> QED
  BY <1>2, WorldsAssumption, LinksAssumption DEF LinkSound, LinkFields, Fields

LEMMA SoundParsable ==
  ASSUME NEW x, LinkSound(x)
  PROVE  Parsable(x)
BY DEF LinkSound, Typed, Parsable

LEMMA SoundContent ==
  ASSUME NEW x, LinkSound(x), NEW e
  PROVE  Content(x, e) \in Seq(STRING)
<1>1. <<>> \in Seq(STRING)
  OBVIOUS
<1> QED
  BY <1>1 DEF LinkSound, HasContents, Content

\* What most steps leave alone.
Carries(x, y) == DOMAIN y = DOMAIN x /\ y.content = x.content /\ y.steps = x.steps

LEMMA CarryReset ==
  ASSUME NEW x, LinkFields \subseteq DOMAIN x
  PROVE  Carries(x, ResetValues(x))
BY DEF ResetValues, LinkFields, Fields, Carries

LEMMA CarryFinish ==
  ASSUME NEW x, NEW o, LinkFields \subseteq DOMAIN x
  PROVE  Carries(x, Finish(x, o))
BY DEF Finish, LinkFields, Fields, Carries

LEMMA CarryNode ==
  ASSUME NEW x, NEW t, LinkFields \subseteq DOMAIN x
  PROVE  Carries(x, GenerateNode(x, t))
BY DEF GenerateNode, LinkFields, Fields, Carries

LEMMA CarryConnector ==
  ASSUME NEW x, NEW t, NEW s, NEW u, LinkFields \subseteq DOMAIN x
  PROVE  Carries(x, GenerateConnector(x, t, s, u))
BY DEF GenerateConnector, LinkFields, Fields, Carries

LEMMA CarryValue ==
  ASSUME NEW x, NEW i, NEW e, LinkFields \subseteq DOMAIN x
  PROVE  Carries(x, AddValue(x, i, e))
BY DEF AddValue, LinkFields, Fields, Carries

LEMMA CarryOn ==
  ASSUME NEW x, NEW y, NEW z, Carries(x, y), Carries(y, z)
  PROVE  Carries(x, z)
BY DEF Carries

\* A world that has grown by elements without gaps is as sound as before.
LEMMA SoundGrown ==
  ASSUME NEW x, NEW y, LinkSound(x), Typed(y), Kept(x, y), Carries(x, y), Exists(y) = 1 .. y.fresh - 1
  PROVE  LinkSound(y)
<1>1. Exists(x) \subseteq Exists(y) /\ \A e \in Exists(x) : y.type[e] = x.type[e]
  <2>1. \A e \in Exists(x) : Restrict(y.type, Exists(x))[e] = y.type[e]
    BY DEF Restrict
  <2> QED
    BY <2>1 DEF Kept
<1> QED
  BY <1>1 DEF LinkSound, HasContents, Carries

LEMMA SameKept ==
  ASSUME NEW x, NEW y, Typed(x), SameMemory(x, y)
  PROVE  Kept(x, y)
BY DEF Kept, SameMemory, Restrict, Typed, IsMemory, Exists, Connectors

LEMMA KeptOn ==
  ASSUME NEW x, NEW y, NEW z, Typed(x), Kept(x, y), Kept(y, z)
  PROVE  Kept(x, z)
<1>1. Exists(x) \subseteq Exists(y) /\ Connectors(x) \subseteq Connectors(y)
  BY DEF Kept
<1>2. Restrict(z.type, Exists(x)) = x.type
  <2>1. \A e \in Exists(x) : y.type[e] = z.type[e]
    BY <1>1 DEF Kept, Restrict
  <2> QED
    BY <2>1 DEF Kept, Restrict
<1>3. Restrict(z.ends, Connectors(x)) = x.ends
  <2>1. \A e \in Connectors(x) : y.ends[e] = z.ends[e]
    BY <1>1 DEF Kept, Restrict
  <2> QED
    BY <2>1 DEF Kept, Restrict
<1> QED
  BY <1>1, <1>2, <1>3 DEF Kept

LEMMA FinishSound ==
  ASSUME NEW x, NEW o, LinkSound(x)
  PROVE  /\ LinkSound(Finish(x, o))
         /\ Finish(x, o).out = o
         /\ SameMemory(x, Finish(x, o)) /\ Kept(x, Finish(x, o))
         /\ Carries(x, Finish(x, o))
         /\ Finish(x, o).value = x.value /\ Finish(x, o).operand = x.operand
<1> DEFINE y == Finish(x, o)
<1>1. /\ Typed(y) /\ SameElements(x, y) /\ y.out = o
      /\ y.value = x.value /\ y.operand = x.operand
  BY Finishing, FinishTyped DEF LinkSound, Typed
<1>2. Carries(x, y)
  BY CarryFinish DEF LinkSound
<1> HIDE DEF y
<1>3. SameMemory(x, y) /\ Kept(x, y) /\ Exists(y) = 1 .. y.fresh - 1
  BY <1>1, SameKept DEF SameElements, SameMemory, LinkSound, Exists
<1> QED
  BY <1>1, <1>2, <1>3, SoundGrown DEF y

LEMMA ResetSound ==
  ASSUME NEW x, LinkSound(x)
  PROVE  LET r == ResetValues(x)
         IN  LinkSound(r) /\ SameMemory(x, r) /\ Kept(x, r) /\ Carries(x, r)
<1> DEFINE r == ResetValues(x)
<1>1. ResetStep(x, r) /\ Typed(r)
  BY Resetting, ResetTyped DEF LinkSound, Typed
<1>2. Carries(x, r)
  BY CarryReset DEF LinkSound
<1> HIDE DEF r
<1>3. SameMemory(x, r) /\ Exists(r) = 1 .. r.fresh - 1
  BY <1>1 DEF ResetStep, SameElements, SameMemory, LinkSound, Exists
<1>4. Kept(x, r)
  BY <1>3, SameKept DEF LinkSound
<1> QED
  BY <1>1, <1>2, <1>3, <1>4, SoundGrown DEF r

\* An answer for an operator that has been rejected: none.
LEMMA RejectedSound ==
  ASSUME NEW x, NEW y, LinkSound(x), x.out = "run", Rejected(x, y)
  PROVE  LinkSound(y) /\ y.out = "error" /\ SameMemory(x, y) /\ Kept(x, y) /\ y.content = x.content
<1> DEFINE r == ResetValues(x)
<1>1. LinkSound(r) /\ SameMemory(x, r) /\ Kept(x, r) /\ Carries(x, r)
  BY ResetSound
<1> HIDE DEF r
<1>2. CASE y = r /\ r.out = "error"
  BY <1>1, <1>2 DEF Carries
<1>3. CASE y = Finish(r, "error")
  <2>1. LinkSound(y) /\ y.out = "error" /\ SameMemory(r, y) /\ Carries(r, y)
    BY <1>1, <1>3, FinishSound
  <2>2. SameMemory(x, y) /\ y.content = x.content
    BY <1>1, <2>1 DEF SameMemory, Carries
  <2> QED
    BY <2>1, <2>2, SameKept DEF LinkSound
<1> QED
  BY <1>2, <1>3 DEF Rejected, r

-----------------------------------------------------------------------------
\* A new link.
LinkStep(x, c, y) ==
  /\ NodeStep(x, ConstLink, y)
  /\ y.content = [e \in DOMAIN x.content \cup {x.fresh} |-> IF e = x.fresh THEN c ELSE x.content[e]]
  /\ y.steps = x.steps

LEMMA LinkGenerated ==
  ASSUME NEW x, NEW c, LinkFields \subseteq DOMAIN x
  PROVE  LinkStep(x, c, GenerateLink(x, c))
<1> DEFINE n == GenerateNode(x, ConstLink)
<1>1. NodeStep(x, ConstLink, n) /\ Carries(x, n)
  BY NodeGenerated, CarryNode DEF LinkFields
<1> DEFINE C == [e \in DOMAIN x.content \cup {x.fresh} |-> IF e = x.fresh THEN c ELSE x.content[e]]
           y == GenerateLink(x, c)
<1>2. y = [n EXCEPT !.content = C]
  BY <1>1 DEF GenerateLink, With, Carries
<1> HIDE DEF n, C, y
<1>3. /\ DOMAIN y = DOMAIN n /\ y.type = n.type /\ y.ends = n.ends /\ y.fresh = n.fresh
      /\ y.value = n.value /\ y.operand = n.operand /\ y.set = n.set /\ y.out = n.out
      /\ y.steps = n.steps /\ y.content = C
  BY <1>1, <1>2 DEF Carries, LinkFields, Fields
<1> QED
  BY <1>1, <1>3 DEF NodeStep, LinkStep, Carries, C, y

\* There are all the contents there were.
MoreContents(x, y) == Restrict(y.content, DOMAIN x.content) = x.content

LEMMA ContentKept ==
  ASSUME NEW x, NEW y, HasContents(x), y.content = x.content
  PROVE  MoreContents(x, y)
BY DEF HasContents, MoreContents, Restrict

LEMMA ContentsOn ==
  ASSUME NEW x, NEW y, NEW z, DOMAIN x.content \subseteq DOMAIN y.content,
         MoreContents(x, y), MoreContents(y, z)
  PROVE  MoreContents(x, z)
<1>1. \A e \in DOMAIN x.content : z.content[e] = Restrict(z.content, DOMAIN y.content)[e]
  BY DEF Restrict
<1>2. Restrict(z.content, DOMAIN x.content) = Restrict(y.content, DOMAIN x.content)
  BY <1>1 DEF MoreContents, Restrict
<1> QED
  BY <1>2 DEF MoreContents

LEMMA NodeSound ==
  ASSUME NEW x, NEW t \in SUBSET Flag, "arc" \notin t, LinkSound(x), x.out = "run"
  PROVE  LET y == GenerateNode(x, t)
         IN  LinkSound(y) /\ Kept(x, y) /\ Carries(x, y) /\ NodeStep(x, t, y)
<1> DEFINE y == GenerateNode(x, t)
<1>1. NodeStep(x, t, y) /\ Adds(x, y)
  BY NodeGenerated, NodeAdds DEF LinkSound, Typed
<1>2. Carries(x, y)
  BY CarryNode DEF LinkSound
<1> HIDE DEF y
<1>3. Exists(y) = 1 .. y.fresh - 1
  BY <1>1 DEF NodeStep, LinkSound, Typed, IsMemory, Exists, Nothing
<1> QED
  BY <1>1, <1>2, <1>3, SoundGrown DEF Adds, y

LEMMA ConnectorSound ==
  ASSUME NEW x, NEW t \in SUBSET Flag, "arc" \in t, NEW s \in Exists(x), NEW u \in Exists(x),
         LinkSound(x), x.out = "run"
  PROVE  LET y == GenerateConnector(x, t, s, u)
         IN  LinkSound(y) /\ Kept(x, y) /\ Carries(x, y) /\ ConnectorStep(x, t, s, u, y)
<1> DEFINE y == GenerateConnector(x, t, s, u)
<1>1. ConnectorStep(x, t, s, u, y) /\ Adds(x, y)
  BY ConnectorGenerated, ConnectorAdds DEF LinkSound, Typed
<1>2. Carries(x, y)
  BY CarryConnector DEF LinkSound
<1> HIDE DEF y
<1>3. Exists(y) = 1 .. y.fresh - 1
  BY <1>1 DEF ConnectorStep, LinkSound, Typed, IsMemory, Exists, Nothing
<1> QED
  BY <1>1, <1>2, <1>3, SoundGrown DEF Adds, y

LEMMA ValueSound ==
  ASSUME NEW x, NEW i \in DOMAIN x.operand, NEW e \in Exists(x), LinkSound(x), x.out = "run"
  PROVE  LET y == SetValue(x, i, e)
         IN  LinkSound(y) /\ Kept(x, y) /\ Carries(x, y) /\ ValueStep(x, i, e, y)
<1> DEFINE y == SetValue(x, i, e)
<1>1. ValueStep(x, i, e, y) /\ Adds(x, y)
  BY ValueAdds DEF LinkSound
<1>2. Carries(x, y)
  <2>1. e # Nothing
    BY DEF LinkSound, Typed, IsMemory, Nothing
  <2> QED
    BY <2>1, CarryValue DEF LinkSound, SetValue
<1> HIDE DEF y
<1>3. Exists(y) = 1 .. y.fresh - 1
  BY <1>1 DEF ValueStep, SameElements, LinkSound, Exists
<1> QED
  BY <1>1, <1>2, <1>3, SoundGrown DEF Adds, y

\* A link with a text is as good as any other.
LEMMA LinkMade ==
  ASSUME NEW x, NEW c \in Seq(STRING), LinkSound(x), x.out = "run"
  PROVE  LET y == GenerateLink(x, c)
         IN  LinkSound(y) /\ Kept(x, y) /\ MoreContents(x, y) /\ LinkStep(x, c, y)
<1> DEFINE n == GenerateNode(x, ConstLink)
           y == GenerateLink(x, c)
<1>1. ConstLink \in SUBSET Flag /\ "arc" \notin ConstLink /\ IsLink(ConstLink)
  BY DEF ConstLink, Flag, IsLink
<1>2. LinkSound(n) /\ Kept(x, n) /\ Carries(x, n) /\ NodeStep(x, ConstLink, n)
  BY <1>1, NodeSound
<1>3. LinkStep(x, c, y)
  BY LinkGenerated DEF LinkSound
<1>4. DOMAIN y = DOMAIN n /\ y.steps = n.steps /\ y.set = n.set
  BY <1>2, <1>3 DEF LinkStep, NodeStep, Carries
<1> HIDE DEF n, y
<1>5. y.type = n.type /\ y.ends = n.ends /\ y.fresh = n.fresh /\ y.value = n.value /\ y.operand = n.operand
  BY <1>2, <1>3 DEF LinkStep, NodeStep
<1>6. Typed(y)
  BY <1>2, <1>4, <1>5 DEF LinkSound, Typed, IsMemory, Exists, Connectors, OfType, IsOperand
<1>7. HasContents(y)
  <2>1. y.content = [e \in DOMAIN x.content \cup {x.fresh} |-> IF e = x.fresh THEN c ELSE x.content[e]]
    BY <1>3 DEF LinkStep
  <2>2. y.content \in [DOMAIN y.content -> Seq(STRING)]
    BY <2>1 DEF LinkSound, HasContents
  <2>3. \A e \in DOMAIN y.content : e \in Exists(y) /\ IsLink(y.type[e])
    BY <1>1, <1>3, <2>1 DEF LinkStep, NodeStep, LinkSound, HasContents, Exists
  <2> QED
    BY <2>2, <2>3 DEF HasContents
<1>8. Kept(x, y)
  BY <1>2, <1>5 DEF Kept, Exists, Connectors
<1>9. LinkSound(y)
  BY <1>2, <1>4, <1>5, <1>6, <1>7 DEF LinkSound, Exists
<1>10. MoreContents(x, y)
  <2>1. x.fresh \notin DOMAIN x.content
    BY FreshIsNew DEF LinkSound, HasContents
  <2>2. x.content = [e \in DOMAIN x.content |-> x.content[e]]
    BY DEF LinkSound, HasContents
  <2> QED
    BY <1>3, <2>1, <2>2 DEF LinkStep, MoreContents, Restrict
<1> QED
  BY <1>3, <1>8, <1>9, <1>10 DEF y

\* Links for the parts of a text, and arcs to them.
LinksStep(x, set, parts, y) ==
  LET n     == Len(parts)
      links == x.fresh .. x.fresh + n - 1
      arcs  == x.fresh + n .. x.fresh + 2 * n - 1
  IN  /\ DOMAIN y = DOMAIN x
      /\ y.type = [e \in Exists(x) \cup links \cup arcs |->
                     IF e \in arcs THEN ConstPermPosArc ELSE IF e \in links THEN ConstLink ELSE x.type[e]]
      /\ y.ends = [a \in Connectors(x) \cup arcs |-> IF a \in arcs THEN <<set, a - n>> ELSE x.ends[a]]
      /\ y.content = [e \in DOMAIN x.content \cup links |->
                        IF e \in links THEN parts[e - x.fresh + 1] ELSE x.content[e]]
      /\ y.fresh = x.fresh + 2 * n
      /\ y.value = x.value /\ y.operand = x.operand /\ y.set = x.set /\ y.out = x.out /\ y.steps = x.steps

LEMMA LinksAdded ==
  ASSUME NEW x, NEW set, NEW parts, LinkFields \subseteq DOMAIN x
  PROVE  LinksStep(x, set, parts, AddLinks(x, set, parts))
<1> DEFINE y == AddLinks(x, set, parts)
           n     == Len(parts)
           links == x.fresh .. x.fresh + n - 1
           arcs  == x.fresh + n .. x.fresh + 2 * n - 1
           T == With(With(x.type, links, LAMBDA e : ConstLink), arcs, LAMBDA a : ConstPermPosArc)
           E == With(x.ends, arcs, LAMBDA a : <<set, a - n>>)
           C == With(x.content, links, LAMBDA e : parts[e - x.fresh + 1])
           F == x.fresh + 2 * n
<1>1. y = [x EXCEPT !.type = T, !.ends = E, !.content = C, !.fresh = F]
  BY DEF AddLinks
<1>2. T = [e \in Exists(x) \cup links \cup arcs |->
             IF e \in arcs THEN ConstPermPosArc ELSE IF e \in links THEN ConstLink ELSE x.type[e]]
  <2> HIDE DEF links, arcs
  <2>1. DOMAIN With(x.type, links, LAMBDA e : ConstLink) = Exists(x) \cup links
    BY DEF With, Exists
  <2>2. \A e \in Exists(x) \cup links : With(x.type, links, LAMBDA d : ConstLink)[e] = IF e \in links THEN ConstLink ELSE x.type[e]
    BY DEF With, Exists
  <2> QED
    BY <2>1, <2>2 DEF With
<1>3. E = [a \in Connectors(x) \cup arcs |-> IF a \in arcs THEN <<set, a - n>> ELSE x.ends[a]]
  BY DEF With, Connectors
<1>4. C = [e \in DOMAIN x.content \cup links |->
             IF e \in links THEN parts[e - x.fresh + 1] ELSE x.content[e]]
  BY DEF With
<1> HIDE DEF y, T, E, C, F
<1>5. /\ DOMAIN y = DOMAIN x /\ y.type = T /\ y.ends = E /\ y.content = C /\ y.fresh = F
      /\ y.value = x.value /\ y.operand = x.operand /\ y.set = x.set /\ y.out = x.out /\ y.steps = x.steps
  BY <1>1 DEF LinkFields, Fields
<1> QED
  BY <1>2, <1>3, <1>4, <1>5 DEF LinksStep, y, F

\* What an answer is printed in: the world with the answer in it.
Grown(r, g, answer) ==
  /\ LinkSound(g) /\ g.out = "run"
  /\ Kept(r, g) /\ MoreContents(r, g) /\ DOMAIN r.content \subseteq DOMAIN g.content
  /\ g.value = r.value /\ g.operand = r.operand
  /\ answer \in Exists(g) \ Exists(r)

LEMMA LinksSound ==
  ASSUME NEW x, NEW set \in Exists(x), NEW parts \in Seq(Seq(STRING)), LinkSound(x), x.out = "run"
  PROVE  LET y == AddLinks(x, set, parts)
         IN  /\ LinkSound(y) /\ y.out = "run"
             /\ Kept(x, y) /\ MoreContents(x, y) /\ DOMAIN x.content \subseteq DOMAIN y.content
             /\ y.value = x.value /\ y.operand = x.operand
<1> DEFINE y == AddLinks(x, set, parts)
           n     == Len(parts)
           links == x.fresh .. x.fresh + n - 1
           arcs  == x.fresh + n .. x.fresh + 2 * n - 1
<1>1. LinksStep(x, set, parts, y)
  BY LinksAdded DEF LinkSound
<1> HIDE DEF y
<1>2. n \in Nat /\ \A i \in 1 .. n : parts[i] \in Seq(STRING)
  BY LenProperties, ElementOfSeq
<1>3. x.fresh \in Nat \ {0} /\ Exists(x) = 1 .. x.fresh - 1 /\ Connectors(x) \subseteq Exists(x)
  BY DEF LinkSound, Typed, IsMemory, OfType, Nothing
<1> HIDE DEF n
<1>4. /\ links \cap arcs = {} /\ links \cap Exists(x) = {} /\ arcs \cap Exists(x) = {}
      /\ Exists(x) \cup links \cup arcs = 1 .. x.fresh + 2 * n - 1
      /\ \A a \in arcs : a - n \in links
      /\ \A e \in links : e - x.fresh + 1 \in 1 .. n
  <2>1. links \cap arcs = {} /\ links \cap Exists(x) = {} /\ arcs \cap Exists(x) = {}
    BY <1>2, <1>3
  <2>2. Exists(x) \cup links \cup arcs = 1 .. x.fresh + 2 * n - 1
    <3>1. \A e : e \in Exists(x) \cup links \cup arcs <=> e \in 1 .. x.fresh + 2 * n - 1
      BY <1>2, <1>3
    <3> QED
      BY <3>1
  <2>3. \A a \in arcs : a - n \in links
    BY <1>2, <1>3
  <2>4. \A e \in links : e - x.fresh + 1 \in 1 .. n
    BY <1>2, <1>3
  <2> QED
    BY <2>1, <2>2, <2>3, <2>4
<1>5. /\ DOMAIN y = DOMAIN x
      /\ y.type = [e \in Exists(x) \cup links \cup arcs |->
                     IF e \in arcs THEN ConstPermPosArc ELSE IF e \in links THEN ConstLink ELSE x.type[e]]
      /\ y.ends = [a \in Connectors(x) \cup arcs |-> IF a \in arcs THEN <<set, a - n>> ELSE x.ends[a]]
      /\ y.content = [e \in DOMAIN x.content \cup links |->
                        IF e \in links THEN parts[e - x.fresh + 1] ELSE x.content[e]]
      /\ y.fresh = x.fresh + 2 * n
      /\ y.value = x.value /\ y.operand = x.operand /\ y.set = x.set /\ y.out = x.out /\ y.steps = x.steps
  BY <1>1 DEF LinksStep, n
<1>6. x.fresh + 2 * n \in Nat \ {0} /\ x.fresh <= x.fresh + 2 * n
  BY <1>2, <1>3
<1> HIDE DEF links, arcs
<1>7. Exists(y) = 1 .. y.fresh - 1 /\ Exists(y) = Exists(x) \cup links \cup arcs /\ Connectors(y) = Connectors(x) \cup arcs
  <2>1. Exists(y) = Exists(x) \cup links \cup arcs
    BY <1>5 DEF Exists
  <2>2. Connectors(y) = Connectors(x) \cup arcs
    BY <1>5 DEF Connectors
  <2>3. Exists(y) = 1 .. x.fresh + 2 * n - 1
    BY <1>4, <2>1
  <2>4. y.fresh = x.fresh + 2 * n
    BY <1>5
  <2>5. Exists(y) = 1 .. y.fresh - 1
    BY <1>2, <1>3, <2>3, <2>4
  <2> QED
    BY <2>1, <2>2, <2>5
<1>8. IsMemory(y)
  <2>1. y.type \in [Exists(y) -> SUBSET Flag]
    <3>1. ConstPermPosArc \in SUBSET Flag /\ ConstLink \in SUBSET Flag
      BY DEF ConstPermPosArc, ConstLink, Flag
    <3>2. x.type \in [Exists(x) -> SUBSET Flag]
      BY DEF LinkSound, Typed, IsMemory
    <3> QED
      BY <1>5, <1>7, <3>1, <3>2
  <2>2. y.ends \in [Connectors(y) -> Exists(y) \X Exists(y)]
    <3>1. x.ends \in [Connectors(x) -> Exists(x) \X Exists(x)]
      BY DEF LinkSound, Typed, IsMemory
    <3>2. \A a \in arcs : <<set, a - n>> \in Exists(y) \X Exists(y)
      BY <1>4, <1>7
    <3>3. \A a \in Connectors(x) : x.ends[a] \in Exists(y) \X Exists(y)
      BY <1>7, <3>1
    <3> QED
      BY <1>5, <1>7, <3>2, <3>3
  <2>3. Connectors(y) = OfType(y, {"arc"})
    <3>1. "arc" \in ConstPermPosArc /\ "arc" \notin ConstLink
      BY DEF ConstPermPosArc, ConstLink
    <3>2. \A e \in Exists(x) : e \in Connectors(x) <=> "arc" \in x.type[e]
      BY DEF LinkSound, Typed, IsMemory, OfType
    <3>3. \A e \in Exists(y) : e \in Connectors(y) <=> "arc" \in y.type[e]
      BY <1>3, <1>4, <1>5, <1>7, <3>1, <3>2
    <3>4. Connectors(y) \subseteq Exists(y)
      BY <1>3, <1>7
    <3> QED
      BY <3>3, <3>4 DEF OfType
  <2> QED
    BY <1>5, <1>6, <1>7, <2>1, <2>2, <2>3 DEF IsMemory, Nothing
<1>9. Typed(y)
  <2>1. Fields \subseteq DOMAIN y
    BY <1>5 DEF LinkSound, LinkFields
  <2>2. y.value \in [Variable -> SUBSET Exists(y)]
    BY <1>5, <1>7 DEF LinkSound, Typed
  <2>3. \A o : IsOperand(x, o) => IsOperand(y, o)
    BY <1>3, <1>5, <1>6, OperandKept
  <2> QED
    BY <1>5, <1>8, <2>1, <2>2, <2>3 DEF LinkSound, Typed
<1>10. \A e \in Exists(x) : y.type[e] = x.type[e]
  BY <1>4, <1>5
<1>11. HasContents(y)
  <2>1. y.content \in [DOMAIN y.content -> Seq(STRING)]
    BY <1>2, <1>4, <1>5 DEF LinkSound, HasContents
  <2>2. \A e \in links : IsLink(y.type[e])
    BY <1>4, <1>5 DEF IsLink, ConstLink
  <2>3. \A e \in DOMAIN x.content : e \in Exists(x) /\ IsLink(x.type[e])
    BY DEF LinkSound, HasContents
  <2> QED
    BY <1>5, <1>7, <1>10, <2>1, <2>2, <2>3 DEF HasContents
<1>12. LinkSound(y)
  BY <1>5, <1>7, <1>9, <1>11 DEF LinkSound
<1>13. Kept(x, y)
  <2>1. Restrict(y.type, Exists(x)) = x.type
    BY <1>10 DEF Restrict, LinkSound, Typed, IsMemory
  <2>2. Restrict(y.ends, Connectors(x)) = x.ends
    BY <1>3, <1>4, <1>5 DEF Restrict, LinkSound, Typed, IsMemory
  <2> QED
    BY <1>7, <2>1, <2>2 DEF Kept
<1>14. MoreContents(x, y) /\ DOMAIN x.content \subseteq DOMAIN y.content
  <2>1. DOMAIN x.content \cap links = {}
    BY <1>4 DEF LinkSound, HasContents
  <2>2. x.content = [e \in DOMAIN x.content |-> x.content[e]]
    BY DEF LinkSound, HasContents
  <2> QED
    BY <1>5, <2>1, <2>2 DEF MoreContents, Restrict
<1> QED
  BY <1>5, <1>12, <1>13, <1>14 DEF y

\* The relation is there whatever has been executed before.
LEMMA RelationExists ==
  ASSUME NEW x, LinkSound(x)
  PROVE  Relation \in Exists(x)
BY LinksAssumption DEF LinkSound

\* An answer is printed: a new element of the type asked for leads to it, and
\* to nothing else, as a computed value, or there is none and an exception.
Printed(g, answer, y) ==
  \/ y.out = "thrown" /\ ~IsNode(Want(g, 1)) /\ y.value = g.value
  \/ /\ y.out = "success"
     /\ Value(y, 1) = g.fresh /\ g.fresh \in Exists(y) /\ y.type[g.fresh] = Want(g, 1)
     /\ AnswersOf(y, g.fresh) = {answer}
     /\ \A b \in Connectors(y) \ Connectors(g) : Source(y, b) \in {Relation, g.fresh}
     /\ y.value = [g.value EXCEPT ![g.operand[1].addr] = @ \cup {g.fresh}]

LEMMA AnswerPrinted ==
  ASSUME NEW g, NEW answer \in Exists(g), NEW y \in PrintOperatorAnswer(g, answer),
         LinkSound(g), g.out = "run", 1 \in DOMAIN g.operand
  PROVE  LinkSound(y) /\ Kept(g, y) /\ y.content = g.content /\ Printed(g, answer, y)
<1> DEFINE e     == g.fresh
           given == CreateNodeOrLink(g, 1)
           arc   == GenerateConnector(given, ConstCommonArc, Value(given, 1), answer)
           named == GenerateConnector(arc, ConstPermPosArc, Relation, given.fresh)
           last  == SetValue(named, 1, Value(given, 1))
<1>1. CASE ~IsNode(Want(g, 1))
  <2>1. given = Finish(g, "thrown")
    BY <1>1 DEF CreateNodeOrLink
  <2>2. /\ LinkSound(given) /\ given.out = "thrown" /\ Kept(g, given) /\ Carries(g, given)
        /\ given.value = g.value
    BY <2>1, FinishSound
  <2>3. y = given
    BY <2>2 DEF PrintOperatorAnswer, Results
  <2> QED
    BY <1>1, <2>2, <2>3 DEF Carries, Printed
<1>2. CASE IsNode(Want(g, 1))
  <2> DEFINE n == GenerateNode(g, Want(g, 1))
  <2>1. given = SetValue(n, 1, e)
    BY <1>2 DEF CreateNodeOrLink
  <2>2. LinkSound(n) /\ Kept(g, n) /\ Carries(g, n) /\ NodeStep(g, Want(g, 1), n)
    BY <1>2, NodeSound, WantedFlags DEF LinkSound
  <2> HIDE DEF n
  <2>3. e \in Exists(n) /\ 1 \in DOMAIN n.operand /\ n.out = "run" /\ n.operand = g.operand
    BY <2>2 DEF NodeStep, Exists
  <2>4. LinkSound(given) /\ Kept(n, given) /\ Carries(n, given) /\ ValueStep(n, 1, e, given)
    BY <2>1, <2>2, <2>3, ValueSound
  <2>5. given.out = "run" /\ given.fresh = e + 1 /\ given.type = n.type /\ given.ends = g.ends
    BY <2>2, <2>4 DEF ValueStep, SameElements, NodeStep
  <2>6. /\ given.operand = [g.operand EXCEPT ![1].value = e]
        /\ given.value = [g.value EXCEPT ![g.operand[1].addr] = @ \cup {e}]
    BY <2>2, <2>3, <2>4 DEF ValueStep, NodeStep
  <2>7. Value(given, 1) = e
    <3>1. \E p : g.operand[1] = [p EXCEPT !.value = g.operand[1].value] /\ "value" \in DOMAIN p
      BY DEF LinkSound, Typed, IsOperand, Operands
    <3> QED
      BY <2>6, <3>1 DEF Value
  <2>8. Kept(g, given)
    BY <2>2, <2>4, KeptOn DEF LinkSound
  <2>9. e \in Exists(given) /\ answer \in Exists(given)
    BY <2>3, <2>5, <2>8 DEF Exists, Kept
  <2> HIDE DEF given
  <2>10. ConstCommonArc \in SUBSET Flag /\ "arc" \in ConstCommonArc /\ ConstPermPosArc \in SUBSET Flag /\ "arc" \in ConstPermPosArc
    BY DEF ConstCommonArc, ConstPermPosArc, Flag
  <2>11. LinkSound(arc) /\ Kept(given, arc) /\ Carries(given, arc) /\ ConnectorStep(given, ConstCommonArc, e, answer, arc)
    BY <2>4, <2>5, <2>7, <2>9, <2>10, ConnectorSound
  <2> HIDE DEF arc
  <2>12. arc.out = "run" /\ Relation \in Exists(arc) /\ given.fresh \in Exists(arc)
    BY <2>5, <2>11, RelationExists DEF ConnectorStep, Exists
  <2>13. LinkSound(named) /\ Kept(arc, named) /\ Carries(arc, named)
         /\ ConnectorStep(arc, ConstPermPosArc, Relation, given.fresh, named)
    BY <2>10, <2>11, <2>12, ConnectorSound
  <2> HIDE DEF named
  <2>14. Kept(given, named)
    BY <2>4, <2>11, <2>13, KeptOn DEF LinkSound
  <2>15. named.operand = given.operand /\ named.value = given.value /\ named.out = "run" /\ 1 \in DOMAIN named.operand /\ e \in Exists(named)
    BY <2>3, <2>6, <2>9, <2>11, <2>12, <2>13, <2>14 DEF ConnectorStep, Kept
  <2>16. LinkSound(last) /\ Kept(named, last) /\ Carries(named, last) /\ ValueStep(named, 1, e, last)
    BY <2>7, <2>13, <2>15, ValueSound
  <2> HIDE DEF last
  <2>17. y = Finish(last, "success")
    BY <2>5 DEF PrintOperatorAnswer, Results, Success, given, arc, named, last
  <2>18. /\ LinkSound(y) /\ y.out = "success" /\ SameMemory(last, y) /\ Kept(last, y) /\ Carries(last, y)
         /\ y.value = last.value /\ y.operand = last.operand
    BY <2>16, <2>17, FinishSound
  <2>19. Kept(g, y)
    <3>1. Kept(g, named)
      BY <2>8, <2>14, KeptOn DEF LinkSound
    <3>2. Kept(named, y)
      BY <2>13, <2>16, <2>18, KeptOn DEF LinkSound
    <3> QED
      BY <3>1, <3>2, KeptOn DEF LinkSound
  <2>20. y.content = g.content
    BY <2>2, <2>4, <2>11, <2>13, <2>16, <2>18 DEF Carries
  <2>21. y.type = named.type /\ y.ends = named.ends
    BY <2>16, <2>18 DEF ValueStep, SameElements, SameMemory
  <2>22. /\ y.value = [given.value EXCEPT ![given.operand[1].addr] = @ \cup {e}]
         /\ y.operand = [given.operand EXCEPT ![1].value = e]
    BY <2>15, <2>16, <2>18 DEF ValueStep
  <2>23. given.operand[1].addr = g.operand[1].addr
    BY <2>6
  <2>24. y.value = given.value
    <3> DEFINE v == g.operand[1].addr
    <3>1. g.value \in [Variable -> SUBSET Exists(g)]
      BY DEF LinkSound, Typed
    <3>2. given.value = [g.value EXCEPT ![v] = @ \cup {e}] /\ y.value = [given.value EXCEPT ![v] = @ \cup {e}]
      BY <2>6, <2>22, <2>23
    <3> HIDE DEF v
    <3>3. given.value = [u \in Variable |-> IF u = v THEN g.value[u] \cup {e} ELSE g.value[u]]
      BY <3>1, <3>2
    <3>4. y.value = [u \in Variable |-> IF u = v THEN given.value[u] \cup {e} ELSE given.value[u]]
      BY <3>2, <3>3
    <3>5. \A u \in Variable : y.value[u] = given.value[u]
      BY <3>3, <3>4
    <3> QED
      BY <3>3, <3>4, <3>5
  <2>25. Value(y, 1) = e
    BY <2>3, <2>6, <2>7, <2>22 DEF Value
  <2>26. y.type[e] = Want(g, 1) /\ e \in Exists(y)
    <3>1. given.type[e] = Want(g, 1)
      BY <2>2, <2>5 DEF NodeStep
    <3>2. named.type[e] = given.type[e]
      BY <2>9, <2>14 DEF Kept, Restrict
    <3> QED
      BY <2>15, <2>21, <3>1, <3>2 DEF Exists
  <2>27. /\ AnswersOf(y, e) = {answer}
         /\ \A b \in Connectors(y) \ Connectors(g) : Source(y, b) \in {Relation, e}
    <3>1. e \in Nat /\ Relation # e /\ Connectors(g) \subseteq 1 .. e - 1
          /\ \A a \in Connectors(g) : g.ends[a][1] # e
      BY RelationExists, FreshIsNew DEF LinkSound, Typed, IsMemory, OfType, Exists
    <3>2. /\ Connectors(y) = Connectors(g) \cup {e + 1, e + 2}
          /\ y.ends = [a \in Connectors(g) \cup {e + 1, e + 2} |->
                IF a = e + 2 THEN <<Relation, e + 1>> ELSE IF a = e + 1 THEN <<e, answer>> ELSE g.ends[a]]
      BY <2>5, <2>11, <2>13, <2>21, <3>1 DEF ConnectorStep, Connectors
    <3>3. Source(y, e + 1) = e /\ Target(y, e + 1) = answer /\ Source(y, e + 2) = Relation /\ y.ends[e + 2] = <<Relation, e + 1>>
      BY <3>1, <3>2 DEF Source, Target
    <3>4. \A a \in Connectors(g) : Source(y, a) # e
      BY <3>1, <3>2 DEF Source
    <3>5. {b \in Connectors(y) : Source(y, b) = e /\ \E m \in Connectors(y) : y.ends[m] = <<Relation, b>>} = {e + 1}
      BY <3>1, <3>2, <3>3, <3>4
    <3>6. AnswersOf(y, e) = {answer}
      BY <3>3, <3>5 DEF AnswersOf
    <3> QED
      BY <3>2, <3>3, <3>6
  <2> QED
    BY <2>6, <2>18, <2>19, <2>20, <2>24, <2>25, <2>26, <2>27 DEF Printed
<1> QED
  BY <1>1, <1>2

-----------------------------------------------------------------------------
\* What every operator comes to: a sound world, and the answer it promises
\* unless a constant was among the operands to be assigned.
Well(k, x, y) ==
  /\ LinkSound(y) /\ y.out \in LinkResult
  /\ (\A i \in Assigned(x) : ~x.operand[i].const) => Answering(k, x, y)

NumberKinds == Binary \cup Whole2 \cup Function1
Questions   == Asking \cup {"ifEq", "ifGr"}

LEMMA ClearedSound ==
  ASSUME NEW x, NEW r, LinkSound(x), r = ResetValues(x), Cleared(x, r)
  PROVE  /\ LinkSound(r) /\ r.out = "run"
         /\ SameMemory(x, r) /\ Kept(x, r) /\ r.content = x.content /\ Exists(r) = Exists(x)
         /\ DOMAIN r.operand = DOMAIN x.operand
         /\ \A i \in DOMAIN x.operand : r.operand[i].addr = x.operand[i].addr /\ r.operand[i].type = x.operand[i].type
         /\ \A u \in Variable : r.value[u] = IF AssignedTo(x, u) = {} THEN x.value[u] ELSE {}
<1>1. LinkSound(r) /\ SameMemory(x, r) /\ Kept(x, r) /\ Carries(x, r)
  BY ResetSound
<1> QED
  BY <1>1 DEF Cleared, SameOperands, SameMemory, Exists, Carries

LEMMA RejectedWell ==
  ASSUME NEW x, NEW y, NEW k, LinkSound(x), x.out = "run", Rejected(x, y)
  PROVE  Well(k, x, y)
<1>1. LinkSound(y) /\ y.out = "error" /\ SameMemory(x, y) /\ Kept(x, y) /\ y.content = x.content
  BY RejectedSound
<1>2. MoreContents(x, y)
  BY <1>1, ContentKept DEF LinkSound
<1>3. ASSUME \A i \in Assigned(x) : ~x.operand[i].const
      PROVE  \A u \in Variable : y.value[u] = IF AssignedTo(x, u) = {} THEN x.value[u] ELSE {}
  <2>1. RejectedOnly(x, y)
    BY ErrorRejects DEF LinkSound
  <2> QED
    BY <1>3, <2>1 DEF RejectedOnly, AssignedTo
<1> QED
  BY <1>1, <1>2, <1>3 DEF Well, Answering, MoreContents, LinkResult, Outcome

\* Operators that have not succeeded, or only ask, leave just that.
LEMMA EndWell ==
  ASSUME NEW x, NEW r, NEW k, NEW o \in LinkResult, LinkSound(x), r = ResetValues(x), Cleared(x, r),
         o # "success" \/ k \in Questions
  PROVE  Well(k, x, Finish(r, o))
<1> DEFINE y == Finish(r, o)
<1>1. /\ LinkSound(r) /\ SameMemory(x, r) /\ Kept(x, r) /\ r.content = x.content
      /\ \A u \in Variable : r.value[u] = IF AssignedTo(x, u) = {} THEN x.value[u] ELSE {}
  BY ClearedSound
<1>2. LinkSound(y) /\ y.out = o /\ SameMemory(r, y) /\ Carries(r, y) /\ y.value = r.value
  BY <1>1, FinishSound
<1> HIDE DEF y
<1>3. SameMemory(x, y) /\ y.content = x.content
  BY <1>1, <1>2 DEF SameMemory, Carries
<1>4. Kept(x, y) /\ MoreContents(x, y)
  BY <1>3, SameKept, ContentKept DEF LinkSound
<1>5. k \in Questions => k \notin Strings
  BY DEF Questions, Asking, Strings, OfText, OfTexts, OfFive
<1>6. Answering(k, x, y)
  BY <1>1, <1>2, <1>3, <1>4, <1>5 DEF Answering, MoreContents, Questions
<1> QED
  BY <1>2, <1>6 DEF Well, y

LEMMA PrintedWell ==
  ASSUME NEW x, NEW r, NEW k \in Strings, NEW g, NEW answer, NEW y \in PrintOperatorAnswer(g, answer),
         LinkSound(x), r = ResetValues(x), Cleared(x, r), 1 \in DOMAIN x.operand, Grown(r, g, answer)
  PROVE  Well(k, x, y)
<1>1. /\ LinkSound(r) /\ Kept(x, r) /\ r.content = x.content /\ Exists(r) = Exists(x)
      /\ DOMAIN r.operand = DOMAIN x.operand
      /\ \A i \in DOMAIN x.operand : r.operand[i].addr = x.operand[i].addr /\ r.operand[i].type = x.operand[i].type
      /\ \A u \in Variable : r.value[u] = IF AssignedTo(x, u) = {} THEN x.value[u] ELSE {}
  BY ClearedSound
<1>2. LinkSound(y) /\ Kept(g, y) /\ y.content = g.content /\ Printed(g, answer, y)
  BY <1>1, AnswerPrinted DEF Grown
<1>3. Kept(x, y)
  BY <1>1, <1>2, KeptOn DEF Grown, LinkSound
<1>4. Restrict(y.content, DOMAIN x.content) = x.content
  BY <1>1, <1>2 DEF Grown, MoreContents
<1>5. g.operand[1].addr = x.operand[1].addr /\ Want(g, 1) = Want(x, 1) /\ g.value = r.value
  BY <1>1 DEF Grown, Want
<1>6. k \notin Asking /\ k \notin {"ifEq", "ifGr"}
  BY DEF Asking, Strings, OfText, OfTexts, OfFive
<1>7. CASE y.out = "thrown" /\ y.value = g.value
  <2>1. Answering(k, x, y)
    BY <1>1, <1>3, <1>4, <1>5, <1>6, <1>7 DEF Answering
  <2> QED
    BY <1>2, <1>7, <2>1 DEF Well, LinkResult, Outcome
<1>8. CASE y.out = "success"
  <2> DEFINE new == g.fresh
  <2>1. /\ Value(y, 1) = new /\ y.type[new] = Want(x, 1) /\ AnswersOf(y, new) = {answer}
        /\ y.value = [r.value EXCEPT ![x.operand[1].addr] = @ \cup {new}]
    BY <1>2, <1>5, <1>8 DEF Printed
  <2>2. new \notin Exists(g) /\ Exists(x) \subseteq Exists(g)
    BY <1>1, FreshIsNew DEF Grown, LinkSound, Kept
  <2>3. new \notin DOMAIN y.content
    BY <1>2, <2>2 DEF Grown, LinkSound, HasContents
  <2>4. Cardinality(AnswersOf(y, new)) = 1 /\ AnswersOf(y, new) \cap Exists(x) = {}
    <3>1. Cardinality({answer}) = 1
      BY FS_Singleton
    <3>2. {answer} \cap Exists(x) = {}
      BY <1>1 DEF Grown
    <3>3. AnswersOf(y, new) = {answer}
      BY <2>1
    <3> QED
      BY <3>1, <3>2, <3>3
  <2> HIDE DEF new
  <2>5. /\ \A u \in Variable \ {x.operand[1].addr} : y.value[u] = r.value[u]
        /\ x.operand[1].addr \in Variable => y.value[x.operand[1].addr] = r.value[x.operand[1].addr] \cup {new}
    <3> DEFINE v == x.operand[1].addr
    <3>1. r.value \in [Variable -> SUBSET Exists(r)] /\ y.value = [r.value EXCEPT ![v] = @ \cup {new}]
      BY <1>1, <2>1 DEF LinkSound, Typed
    <3> HIDE DEF v
    <3>2. (\A u \in Variable \ {v} : y.value[u] = r.value[u]) /\ (v \in Variable => y.value[v] = r.value[v] \cup {new})
      BY <3>1
    <3> QED
      BY <3>2 DEF v
  <2>6. Answering(k, x, y)
    BY <1>1, <1>3, <1>4, <1>6, <1>8, <2>1, <2>2, <2>3, <2>4, <2>5 DEF Answering
  <2> QED
    BY <1>2, <1>8, <2>6 DEF Well, LinkResult, Outcome
<1> QED
  BY <1>2, <1>7, <1>8 DEF Printed

LEMMA AnswerWell ==
  ASSUME NEW x, NEW r, NEW k \in Strings, NEW c \in Seq(STRING), NEW y \in AnswerWith(r, c),
         LinkSound(x), r = ResetValues(x), Cleared(x, r), 1 \in DOMAIN x.operand
  PROVE  Well(k, x, y)
<1> DEFINE g == GenerateLink(r, c)
<1>1. LinkSound(r) /\ r.out = "run"
  BY ClearedSound
<1>2. LinkSound(g) /\ Kept(r, g) /\ MoreContents(r, g) /\ LinkStep(r, c, g)
  BY <1>1, LinkMade
<1>3. y \in PrintOperatorAnswer(g, r.fresh)
  BY DEF AnswerWith
<1> HIDE DEF g
<1>4. Grown(r, g, r.fresh)
  BY <1>1, <1>2, FreshIsNew DEF Grown, LinkStep, NodeStep, Exists, LinkSound
<1> QED
  BY <1>3, <1>4, PrintedWell

\* The parts of a text go into a new set.
LEMMA SplitWell ==
  ASSUME NEW x, NEW r, NEW k \in Strings, NEW parts \in Seq(Seq(STRING)),
         NEW y \in PrintOperatorAnswer(AddLinks(GenerateNode(r, ConstNode), r.fresh, parts), r.fresh),
         LinkSound(x), r = ResetValues(x), Cleared(x, r), 1 \in DOMAIN x.operand
  PROVE  Well(k, x, y)
<1> DEFINE n == GenerateNode(r, ConstNode)
           g == AddLinks(n, r.fresh, parts)
<1>1. LinkSound(r) /\ r.out = "run"
  BY ClearedSound
<1>2. LinkSound(n) /\ Kept(r, n) /\ Carries(r, n) /\ NodeStep(r, ConstNode, n)
  BY <1>1, NodeSound DEF ConstNode, Flag
<1> HIDE DEF n
<1>3. n.out = "run" /\ r.fresh \in Exists(n) /\ n.value = r.value /\ n.operand = r.operand /\ n.content = r.content
  BY <1>1, <1>2 DEF NodeStep, Exists, Carries
<1>4. /\ LinkSound(g) /\ g.out = "run"
      /\ Kept(n, g) /\ MoreContents(n, g) /\ DOMAIN n.content \subseteq DOMAIN g.content
      /\ g.value = n.value /\ g.operand = n.operand
  BY <1>2, <1>3, LinksSound
<1> HIDE DEF g
<1>5. Kept(r, g)
  BY <1>1, <1>2, <1>4, KeptOn DEF LinkSound
<1>6. r.fresh \in Exists(g) \ Exists(r)
  BY <1>1, <1>3, <1>4, FreshIsNew DEF LinkSound, Kept
<1>7. Grown(r, g, r.fresh)
  BY <1>3, <1>4, <1>5, <1>6 DEF Grown, MoreContents
<1> QED
  BY <1>7, PrintedWell DEF g, n

-----------------------------------------------------------------------------
\* Numbers: the answer itself becomes the only value.
EmptyStep(x, y) ==
  /\ DOMAIN y = DOMAIN x
  /\ SameElements(x, y)
  /\ y.set = x.set /\ y.out = x.out
  /\ y.operand = [x.operand EXCEPT ![1].value = Nothing]
  /\ y.value = [x.value EXCEPT ![x.operand[1].addr] = {}]

LEMMA Emptied ==
  ASSUME NEW x, LinkSound(x), x.out = "run", 1 \in DOMAIN x.operand
  PROVE  LET y == ResetValue(x, 1)
         IN  LinkSound(y) /\ Kept(x, y) /\ Carries(x, y) /\ EmptyStep(x, y)
<1> DEFINE y == ResetValue(x, 1)
           O == [x.operand EXCEPT ![1].value = Nothing]
           V == [x.value EXCEPT ![x.operand[1].addr] = {}]
<1>1. y = [x EXCEPT !.operand = O, !.value = V]
  BY DEF ResetValue
<1> HIDE DEF y, O, V
<1>2. /\ DOMAIN y = DOMAIN x /\ SameElements(x, y) /\ y.set = x.set /\ y.out = x.out
      /\ y.operand = O /\ y.value = V /\ Carries(x, y)
  BY <1>1 DEF LinkSound, LinkFields, Fields, SameElements, Carries
<1>3. EmptyStep(x, y)
  BY <1>2 DEF EmptyStep, O, V
<1>4. IsMemory(y) /\ Exists(y) = Exists(x)
  BY <1>2 DEF LinkSound, Typed, IsMemory, SameElements, Exists, Connectors, Source, Target, OfType
<1>5. y.value \in [Variable -> SUBSET Exists(y)]
  <2> DEFINE a == x.operand[1].addr
  <2>1. x.value \in [Variable -> SUBSET Exists(y)]
    BY <1>4 DEF LinkSound, Typed
  <2>2. V = [x.value EXCEPT ![a] = {}]
    BY DEF V
  <2> HIDE DEF a
  <2> QED
    BY <1>2, <2>1, <2>2
<1>6. IsOperand(x, [x.operand[1] EXCEPT !.value = Nothing])
  BY DEF LinkSound, Typed, IsOperand, Operands
<1>7. DOMAIN y.operand = DOMAIN x.operand /\ \A j \in DOMAIN y.operand : IsOperand(x, y.operand[j])
  BY <1>2, <1>6 DEF LinkSound, Typed, O
<1>8. Typed(y)
  BY <1>2, <1>4, <1>5, <1>7 DEF LinkSound, Typed, IsOperand, SameElements
<1>9. Kept(x, y)
  BY <1>2, SameKept DEF LinkSound, SameElements, SameMemory
<1>10. Exists(y) = 1 .. y.fresh - 1
  BY <1>2, <1>4 DEF LinkSound, SameElements
<1> QED
  BY <1>2, <1>3, <1>8, <1>9, <1>10, SoundGrown DEF y

LEMMA GivenNumber ==
  ASSUME NEW x, NEW r, NEW k \in NumberKinds, NEW c \in Seq(STRING),
         LinkSound(x), r = ResetValues(x), Cleared(x, r), 1 \in DOMAIN x.operand
  PROVE  Well(k, x, Finish(Give(r, c), "success"))
<1> DEFINE v == x.operand[1].addr
           e == r.fresh
           l == GenerateLink(r, c)
           m == ResetValue(l, 1)
           s == SetValue(m, 1, e)
           y == Finish(s, "success")
<1>1. /\ LinkSound(r) /\ r.out = "run" /\ Kept(x, r) /\ r.content = x.content /\ Exists(r) = Exists(x)
      /\ DOMAIN r.operand = DOMAIN x.operand
      /\ \A i \in DOMAIN x.operand : r.operand[i].addr = x.operand[i].addr
      /\ \A u \in Variable : r.value[u] = IF AssignedTo(x, u) = {} THEN x.value[u] ELSE {}
  BY ClearedSound
<1>2. LinkSound(l) /\ Kept(r, l) /\ MoreContents(r, l) /\ LinkStep(r, c, l)
  BY <1>1, LinkMade
<1> HIDE DEF l
<1>3. /\ l.out = "run" /\ l.operand = r.operand /\ l.value = r.value
      /\ e \in Exists(l) /\ l.type[e] = ConstLink /\ e \notin Exists(x)
  BY <1>1, <1>2, FreshIsNew DEF LinkStep, NodeStep, Exists, LinkSound
<1>4. LinkSound(m) /\ Kept(l, m) /\ Carries(l, m) /\ EmptyStep(l, m)
  BY <1>1, <1>2, <1>3, Emptied
<1> HIDE DEF m
<1>5. /\ m.out = "run" /\ e \in Exists(m) /\ 1 \in DOMAIN m.operand /\ m.operand[1].addr = v
      /\ m.type = l.type /\ m.operand = [r.operand EXCEPT ![1].value = Nothing]
      /\ m.value = [r.value EXCEPT ![v] = {}]
  <2>1. r.operand[1].addr = v
    BY <1>1
  <2>2. IsOperand(r, r.operand[1])
    BY <1>1 DEF LinkSound, Typed
  <2> QED
    BY <1>1, <1>3, <1>4, <2>1, <2>2 DEF EmptyStep, SameElements, Exists, IsOperand, Operands
<1>6. LinkSound(s) /\ Kept(m, s) /\ Carries(m, s) /\ ValueStep(m, 1, e, s)
  BY <1>4, <1>5, ValueSound
<1> HIDE DEF s
<1>7. /\ LinkSound(y) /\ y.out = "success" /\ SameMemory(s, y) /\ Kept(s, y) /\ Carries(s, y)
      /\ y.value = s.value /\ y.operand = s.operand
  BY <1>6, FinishSound
<1> HIDE DEF y
<1>8. Kept(x, y)
  <2>1. Kept(x, l)
    BY <1>1, <1>2, KeptOn DEF LinkSound
  <2>2. Kept(l, y)
    <3>1. Kept(m, y)
      BY <1>4, <1>6, <1>7, KeptOn DEF LinkSound
    <3> QED
      BY <1>2, <1>4, <3>1, KeptOn DEF LinkSound
  <2> QED
    BY <2>1, <2>2, KeptOn DEF LinkSound
<1>9. Restrict(y.content, DOMAIN x.content) = x.content
  BY <1>1, <1>2, <1>4, <1>6, <1>7 DEF MoreContents, Carries
<1>10. Value(y, 1) = e /\ y.type[e] = ConstLink
  <2>1. y.operand = [m.operand EXCEPT ![1].value = e]
    BY <1>6, <1>7 DEF ValueStep
  <2>2. IsOperand(m, m.operand[1])
    BY <1>4, <1>5 DEF LinkSound, Typed
  <2>3. Value(y, 1) = e
    BY <1>5, <2>1, <2>2 DEF Value, IsOperand, Operands
  <2>4. y.type = l.type
    BY <1>5, <1>6, <1>7 DEF ValueStep, SameElements, SameMemory
  <2> QED
    BY <1>3, <2>3, <2>4
<1>11. /\ \A u \in Variable \ {v} : y.value[u] = r.value[u]
       /\ v \in Variable => y.value[v] = {e}
  <2>1. r.value \in [Variable -> SUBSET Exists(r)]
    BY <1>1 DEF LinkSound, Typed
  <2>2. m.value = [r.value EXCEPT ![v] = {}] /\ y.value = [m.value EXCEPT ![v] = @ \cup {e}]
    BY <1>5, <1>6, <1>7 DEF ValueStep
  <2> HIDE DEF v, e
  <2> QED
    BY <2>1, <2>2
<1>12. k \notin Asking /\ k \notin {"ifEq", "ifGr"} /\ k \notin Strings
  BY DEF NumberKinds, Binary, Whole2, Function1, Asking, Strings, OfText, OfTexts, OfFive
<1>13. IsLink(ConstLink)
  BY DEF IsLink, ConstLink
<1>14. Answering(k, x, y)
  BY <1>1, <1>3, <1>7, <1>8, <1>9, <1>10, <1>11, <1>12, <1>13 DEF Answering
<1>15. Well(k, x, y)
  BY <1>7, <1>14 DEF Well, LinkResult, Outcome
<1> QED
  BY <1>15 DEF y, s, m, l, Give

-----------------------------------------------------------------------------
\* What computations come to: texts, or an end without an answer.
IsAnswer(a) == a.out \in {"run", "thrown", "killed"} /\ a.text \in Seq(STRING)
AreAnswers(answers) == \A a \in answers : IsAnswer(a)

LEMMA ConcludeWell ==
  ASSUME NEW x, NEW r, NEW k \in NumberKinds, NEW answers, AreAnswers(answers), NEW y \in Conclude(r, answers),
         LinkSound(x), r = ResetValues(x), Cleared(x, r), 1 \in DOMAIN x.operand
  PROVE  Well(k, x, y)
<1>1. PICK a \in answers : y = IF a.out = "run" THEN Finish(Give(r, a.text), "success") ELSE Finish(r, a.out)
  BY DEF Conclude
<1>2. IsAnswer(a)
  BY DEF AreAnswers
<1>3. CASE a.out = "run"
  BY <1>1, <1>2, <1>3, GivenNumber DEF IsAnswer
<1>4. CASE a.out # "run"
  <2>1. a.out \in LinkResult /\ a.out # "success"
    BY <1>2, <1>4 DEF IsAnswer, LinkResult, Outcome
  <2> QED
    BY <1>1, <1>4, <2>1, EndWell
<1> QED
  BY <1>3, <1>4

LEMMA NumbersConverted ==
  /\ \A n : Fit(n) \subseteq Number
  /\ \A c : StoI(c) \subseteq Number /\ AtoI(c) \subseteq Number
  /\ \A numbers : Convert(numbers) \subseteq Number
<1>1. \A n : Fit(n) \subseteq Number
  BY DEF Fit
<1> QED
  BY <1>1 DEF StoI, AtoI, Convert

LEMMA OnePiece ==
  ASSUME NEW S, NEW t \in S
  PROVE  <<t>> \in Seq(S)
OBVIOUS

LEMMA WholeAnswers ==
  ASSUME NEW numbers \in SUBSET Number
  PROVE  AreAnswers(Whole(numbers))
<1> SUFFICES ASSUME NEW n \in numbers
             PROVE  IsAnswer(Text(<<ToString(n)>>))
  BY DEF AreAnswers, Whole
<1>1. ToString(n) \in STRING
  BY NumberAssumption
<1>2. <<ToString(n)>> \in Seq(STRING)
  BY <1>1, OnePiece
<1> QED
  BY <1>2 DEF IsAnswer, Text

LEMMA OtherAnswers ==
  AreAnswers(RealTexts) /\ AreAnswers(NoAnswer) /\ AreAnswers({Thrown}) /\ AreAnswers({Killed}) /\ AreAnswers({})
<1>1. <<>> \in Seq(STRING)
  OBVIOUS
<1> QED
  BY <1>1, NumberAssumption DEF AreAnswers, IsAnswer, RealTexts, NoAnswer, Thrown, Killed, Text

LEMMA AnsweredAnswers ==
  ASSUME NEW int, NEW uint, NEW float, NEW double,
         AreAnswers(int), AreAnswers(uint), AreAnswers(float), AreAnswers(double)
  PROVE  AreAnswers(Answered(int, uint, float, double))
<1>1. \A a, b : AreAnswers(a) /\ AreAnswers(b) => AreAnswers(Override(a, b))
  BY DEF AreAnswers, Override
<1>2. AreAnswers(Override(NoAnswer, int))
  BY <1>1, OtherAnswers
<1>3. AreAnswers(Override(Override(NoAnswer, int), uint))
  BY <1>1, <1>2
<1>4. AreAnswers(Override(Override(Override(NoAnswer, int), uint), float))
  BY <1>1, <1>3
<1> QED
  BY <1>1, <1>4 DEF Answered

Operations == {"add", "sub", "mult", "pow", "div", "rem"}

LEMMA PowerFits ==
  ASSUME NEW a \in Number, NEW b \in Number
  PROVE  Power(a, b) \in SUBSET Number
<1>1. a \in Int /\ b \in Int /\ {-1, 0, 1} \subseteq Number
  BY NumberAssumption
<1>2. Fit(a ^ b) \subseteq Number
  BY NumbersConverted
<1>3. CASE b = 0
  BY <1>1, <1>3 DEF Power
<1>4. CASE b > 0
  <2>1. Power(a, b) = Fit(a ^ b)
    BY <1>1, <1>4 DEF Power
  <2> QED
    BY <1>2, <2>1
<1>5. CASE b < 0
  <2>1. Power(a, b) \in {Number, {1}, {0}, {IF b % 2 = 0 THEN 1 ELSE -1}}
    BY <1>1, <1>5 DEF Power
  <2> QED
    BY <1>1, <2>1
<1> QED
  BY <1>1, <1>3, <1>4, <1>5

LEMMA ComputeAnswers ==
  ASSUME NEW op \in Operations, NEW a \in Number, NEW b \in Number
  PROVE  AreAnswers(Compute(op, a, b))
<1>1. \A n : AreAnswers(Whole(Fit(n)))
  BY NumbersConverted, WholeAnswers
<1>2. AreAnswers(Whole(Power(a, b)))
  BY PowerFits, WholeAnswers
<1>3. AreAnswers({Killed})
  BY OtherAnswers
<1> QED
  BY <1>1, <1>2, <1>3 DEF Compute, Operations

LEMMA ComputedAnswers ==
  ASSUME NEW op \in Operations, NEW m \in SUBSET Number, NEW n \in SUBSET Number
  PROVE  AreAnswers(Computed(op, m, n))
<1>1. CASE m = {} \/ n = {}
  BY <1>1, OtherAnswers DEF Computed
<1>2. CASE ~(m = {} \/ n = {})
  <2>1. Computed(op, m, n) = UNION {Compute(op, a, b) : a \in m, b \in n}
    BY <1>2 DEF Computed
  <2>2. \A a \in m, b \in n : AreAnswers(Compute(op, a, b))
    BY ComputeAnswers
  <2> QED
    BY <2>1, <2>2 DEF AreAnswers
<1> QED
  BY <1>1, <1>2

LEMMA TaggedAnswers ==
  ASSUME NEW op \in Operations, NEW c, NEW d
  PROVE  AreAnswers(Tagged(op, c, d))
<1>1. (IF op = "pow" THEN "mult" ELSE op) \in Operations
  BY DEF Operations
<1>2. \A numbers1, numbers2 : AreAnswers(OnReals(numbers1, numbers2))
  BY OtherAnswers DEF OnReals
<1>3. AreAnswers(Computed(op, ScLinkGetContentInt(c), ScLinkGetContentInt(d)))
  BY NumbersConverted, ComputedAnswers DEF ScLinkGetContentInt
<1>4. AreAnswers(Computed(IF op = "pow" THEN "mult" ELSE op, ScLinkGetContentUint(c), ScLinkGetContentUint(d)))
  BY <1>1, NumbersConverted, ComputedAnswers DEF ScLinkGetContentUint
<1> QED
  BY <1>2, <1>3, <1>4, OtherAnswers, AnsweredAnswers DEF Tagged

LEMMA UntaggedAnswers ==
  ASSUME NEW op \in Operations, NEW c, NEW d
  PROVE  AreAnswers(Untagged(op, c, d))
<1>1. AreAnswers(Computed(op, AtoI(c), AtoI(d)))
  BY NumbersConverted, ComputedAnswers
<1> QED
  BY <1>1, OtherAnswers DEF Untagged

LEMMA FunctionAnswers ==
  ASSUME NEW f, NEW numbers
  PROVE  /\ AreAnswers(OfFunction(f, numbers)) /\ AreAnswers(UintAnswer(f, numbers)) /\ AreAnswers(OnReal(numbers))
<1>1. AreAnswers(Whole({-1, 0, 1})) /\ AreAnswers(Whole(Number))
  BY NumberAssumption, WholeAnswers
<1>2. AreAnswers(OfFunction(f, numbers))
  BY <1>1, OtherAnswers DEF OfFunction
<1> QED
  BY <1>2, OtherAnswers DEF UintAnswer, OnReal

\* What a number is read into holds an `int'.
LEMMA MaxOfFour ==
  ASSUME NEW S \in SUBSET (1 .. 4), S # {}
  PROVE  Max(S) \in S
<1>1. \E m \in S : \A n \in S : m >= n
  <2>1. CASE 4 \in S
    BY <2>1
  <2>2. CASE 4 \notin S /\ 3 \in S
    BY <2>2
  <2>3. CASE 4 \notin S /\ 3 \notin S /\ 2 \in S
    BY <2>3
  <2>4. CASE 4 \notin S /\ 3 \notin S /\ 2 \notin S
    <3>1. \A n \in S : n = 1
      BY <2>4
    <3>2. 1 \in S
      BY <3>1
    <3> QED
      BY <3>1, <3>2
  <2> QED
    BY <2>1, <2>2, <2>3, <2>4
<1> QED
  BY <1>1 DEF Max

LEMMA NumberIsRead ==
  ASSUME NEW c
  PROVE  NumberRead(c) \in SUBSET Number
<1> DEFINE holds   == <<ScLinkContentIsInt(c), ScLinkContentIsUint(c),
                        ScLinkContentIsFloat(c), ScLinkContentIsDouble(c)>>
           numbers == <<ScLinkGetContentInt(c), ScLinkGetContentUint(c),
                        Convert(ScLinkGetContentFloat(c)), Convert(ScLinkGetContentDouble(c))>>
           taken   == {i \in 1 .. 4 : holds[i]}
<1>1. \A i \in 1 .. 4 : numbers[i] \subseteq Number
  <2>1. ScLinkGetContentInt(c) \subseteq Number /\ ScLinkGetContentUint(c) \subseteq Number
    BY NumbersConverted DEF ScLinkGetContentInt, ScLinkGetContentUint
  <2>2. Convert(ScLinkGetContentFloat(c)) \subseteq Number /\ Convert(ScLinkGetContentDouble(c)) \subseteq Number
    BY NumbersConverted
  <2> QED
    BY <2>1, <2>2
<1>2. NumberRead(c) = IF \E i \in taken : numbers[i] = {} THEN {}
                      ELSE IF taken = {} THEN Number ELSE numbers[Max(taken)]
  BY DEF NumberRead
<1>3. taken \in SUBSET (1 .. 4)
  OBVIOUS
<1> HIDE DEF holds, numbers, taken
<1>4. taken # {} => Max(taken) \in 1 .. 4
  BY <1>3, MaxOfFour
<1> QED
  BY <1>1, <1>2, <1>4

-----------------------------------------------------------------------------
\* Every operator on links begins alike; what it does to operands that can be
\* read is the set `body'.
Reads(x, positions, body) ==
  LET r == ResetValues(x)
  IN  IF r.out # "run" THEN {r}
      ELSE IF RejectsReading(r, positions) THEN {Finish(r, "error")}
      ELSE IF Unreadable(r, positions) THEN {Finish(r, "thrown")} ELSE body

LEMMA ReadingWell ==
  ASSUME NEW x, NEW k, NEW positions, NEW body, NEW y \in Reads(x, positions, body),
         LinkSound(x), x.out = "run"
  PROVE  Well(k, x, y) \/ (Cleared(x, ResetValues(x)) /\ y \in body)
<1> DEFINE r == ResetValues(x)
<1>1. r.out = "error" \/ Cleared(x, r)
  BY ResetRuns DEF LinkSound
<1>2. CASE r.out = "error"
  <2>1. Rejected(x, y)
    BY <1>2 DEF Reads, Rejected
  <2> QED
    BY <2>1, RejectedWell
<1>3. CASE Cleared(x, r)
  <2>1. r.out = "run"
    BY <1>3 DEF Cleared
  <2>2. CASE RejectsReading(r, positions)
    <3>1. Rejected(x, y)
      BY <2>1, <2>2 DEF Reads, Rejected
    <3> QED
      BY <3>1, RejectedWell
  <2>3. CASE ~RejectsReading(r, positions) /\ Unreadable(r, positions)
    <3>1. y = Finish(r, "thrown")
      BY <2>1, <2>3 DEF Reads
    <3>2. "thrown" \in LinkResult
      BY DEF LinkResult, Outcome
    <3> QED
      BY <1>3, <3>1, <3>2, EndWell
  <2>4. CASE ~RejectsReading(r, positions) /\ ~Unreadable(r, positions)
    BY <1>3, <2>1, <2>4 DEF Reads
  <2> QED
    BY <2>2, <2>3, <2>4
<1> QED
  BY <1>1, <1>2, <1>3

\* What an operator can do without an answer.
LEMMA UnsuccessWell ==
  ASSUME NEW x, NEW r, NEW k, NEW y \in Unsuccess(r), LinkSound(x), r = ResetValues(x), Cleared(x, r)
  PROVE  Well(k, x, y)
<1>1. "unsuccess" \in LinkResult
  BY DEF LinkResult, Outcome
<1> QED
  BY <1>1, EndWell DEF Unsuccess

LEMMA AskedWell ==
  ASSUME NEW x, NEW r, NEW k \in Questions, NEW condition, NEW y \in Answer(r, condition),
         LinkSound(x), r = ResetValues(x), Cleared(x, r)
  PROVE  Well(k, x, y)
<1>1. "unsuccess" \in LinkResult /\ "success" \in LinkResult
  BY DEF LinkResult, Outcome
<1> QED
  BY <1>1, EndWell DEF Answer, Success, Unsuccess

LEMMA ArithmeticWell ==
  ASSUME NEW x, NEW k \in NumberKinds, NEW op \in Operations, NEW y \in Arithmetic(x, op),
         LinkSound(x), x.out = "run", 1 \in DOMAIN x.operand
  PROVE  Well(k, x, y)
<1> DEFINE r == ResetValues(x)
           c == Content(r, Value(r, 2))
           d == Content(r, Value(r, 3))
           tagged == Tagged(op, c, d)
           body == IF tagged # NoAnswer THEN Conclude(r, tagged)
                   ELSE IF Plain(c) /\ Plain(d) THEN Conclude(r, Untagged(op, c, d))
                   ELSE Unsuccess(r)
<1>1. y \in Reads(x, {2, 3}, body)
  BY DEF Arithmetic, Reading, Checked, Results, Reads, Error
<1>2. AreAnswers(tagged) /\ AreAnswers(Untagged(op, c, d))
  BY TaggedAnswers, UntaggedAnswers
<1>3. CASE Cleared(x, r) /\ y \in body
  BY <1>2, <1>3, ConcludeWell, UnsuccessWell
<1> HIDE DEF body
<1> QED
  BY <1>1, <1>3, ReadingWell

LEMMA WholeDivisionWell ==
  ASSUME NEW x, NEW k \in NumberKinds, NEW op \in Operations, NEW y \in WholeDivision(x, op),
         LinkSound(x), x.out = "run", 1 \in DOMAIN x.operand
  PROVE  Well(k, x, y)
<1> DEFINE r == ResetValues(x)
           answers == Computed(op, NumberRead(Content(r, Value(r, 2))), NumberRead(Content(r, Value(r, 3))))
           body == Conclude(r, answers)
<1>1. y \in Reads(x, {2, 3}, body)
  BY DEF WholeDivision, Reading, Checked, Results, Reads, Error
<1>2. AreAnswers(answers)
  BY NumberIsRead, ComputedAnswers
<1>3. CASE Cleared(x, r) /\ y \in body
  BY <1>2, <1>3, ConcludeWell
<1> HIDE DEF body
<1> QED
  BY <1>1, <1>3, ReadingWell

LEMMA FunctionWell ==
  ASSUME NEW x, NEW k \in NumberKinds, NEW f, NEW y \in Function(x, f),
         LinkSound(x), x.out = "run", 1 \in DOMAIN x.operand
  PROVE  Well(k, x, y)
<1> DEFINE r == ResetValues(x)
           c == Content(r, Value(r, 2))
           int    == IF ScLinkContentIsInt(c) THEN OfFunction(f, ScLinkGetContentInt(c)) ELSE {}
           uint   == IF ScLinkContentIsUint(c) THEN UintAnswer(f, ScLinkGetContentUint(c)) ELSE {}
           float  == IF ScLinkContentIsFloat(c) THEN OnReal(ScLinkGetContentFloat(c)) ELSE {}
           double == IF ScLinkContentIsDouble(c) THEN OnReal(ScLinkGetContentDouble(c)) ELSE {}
           tagged == Answered(int, uint, float, double)
           body == CASE tagged # NoAnswer -> Conclude(r, tagged)
                     [] tagged = NoAnswer /\ PlainInt(c)    -> Conclude(r, OfFunction(f, AtoI(c)))
                     [] tagged = NoAnswer /\ PlainDouble(c) -> Conclude(r, RealTexts)
                     [] OTHER -> Unsuccess(r)
<1>1. y \in Reads(x, {2}, body)
  BY DEF Function, Reading, Checked, Results, Reads, Error
<1>2. AreAnswers(int) /\ AreAnswers(uint) /\ AreAnswers(float) /\ AreAnswers(double)
  BY FunctionAnswers, OtherAnswers
<1>3. AreAnswers(tagged) /\ AreAnswers(OfFunction(f, AtoI(c))) /\ AreAnswers(RealTexts)
  BY <1>2, AnsweredAnswers, FunctionAnswers, OtherAnswers
<1>4. CASE Cleared(x, r) /\ y \in body
  <2> HIDE DEF tagged, c
  <2>1. \/ y \in Conclude(r, tagged) \/ y \in Conclude(r, OfFunction(f, AtoI(c)))
        \/ y \in Conclude(r, RealTexts) \/ y \in Unsuccess(r)
    BY <1>4
  <2> QED
    BY <1>3, <1>4, <2>1, ConcludeWell, UnsuccessWell
<1> HIDE DEF body
<1> QED
  BY <1>1, <1>4, ReadingWell

\* Comparisons of numbers may also throw, or be left.
Compared(r) == {Finish(r, o) : o \in {"success", "unsuccess", "thrown", "left"}}

LEMMA ComparedWell ==
  ASSUME NEW x, NEW r, NEW k \in Questions, NEW y \in Compared(r), LinkSound(x), r = ResetValues(x), Cleared(x, r)
  PROVE  Well(k, x, y)
<1>1. {"success", "unsuccess", "thrown", "left"} \subseteq LinkResult
  BY DEF LinkResult, Outcome
<1> QED
  BY <1>1, EndWell DEF Compared

LEMMA IfEqWell ==
  ASSUME NEW x, NEW k \in Questions, NEW y \in IfEq(x), LinkSound(x), x.out = "run"
  PROVE  Well(k, x, y)
<1> DEFINE r == ResetValues(x)
<1>1. y \in Reads(x, {1, 2}, Compared(r))
  BY DEF IfEq, Compare, Judge, Reading, Checked, Results, Reads, Error, Compared, Answer, Success, Unsuccess
<1> QED
  BY <1>1, ReadingWell, ComparedWell

LEMMA IfGrWell ==
  ASSUME NEW x, NEW k \in Questions, NEW y \in IfGr(x), LinkSound(x), x.out = "run"
  PROVE  Well(k, x, y)
<1> DEFINE r == ResetValues(x)
<1>1. y \in Reads(x, {1, 2}, Compared(r))
  BY DEF IfGr, Compare, Judge, Reading, Checked, Results, Reads, Error, Compared, Answer, Success, Unsuccess
<1> QED
  BY <1>1, ReadingWell, ComparedWell

LEMMA StringIfEqWell ==
  ASSUME NEW x, NEW k \in Questions, NEW y \in StringIfEq(x), LinkSound(x), x.out = "run"
  PROVE  Well(k, x, y)
<1> DEFINE r == ResetValues(x)
<1>1. y \in Reads(x, {1, 2}, Compared(r))
  BY DEF StringIfEq, OnTexts, Reading, Checked, Results, Reads, Error, Compared, Answer, Success, Unsuccess
<1> QED
  BY <1>1, ReadingWell, ComparedWell

LEMMA StringIfGrWell ==
  ASSUME NEW x, NEW k \in Questions, NEW y \in StringIfGr(x), LinkSound(x), x.out = "run"
  PROVE  Well(k, x, y)
<1> DEFINE r == ResetValues(x)
<1>1. y \in Reads(x, {1, 2}, Compared(r))
  BY DEF StringIfGr, OnTexts, Reading, Checked, Results, Reads, Error, Compared, Answer, Success, Unsuccess
<1> QED
  BY <1>1, ReadingWell, ComparedWell

LEMMA StringStartsWithWell ==
  ASSUME NEW x, NEW k \in Questions, NEW y \in StringStartsWith(x), LinkSound(x), x.out = "run"
  PROVE  Well(k, x, y)
<1> DEFINE r == ResetValues(x)
<1>1. y \in Reads(x, {1, 2}, Compared(r))
  BY DEF StringStartsWith, OnTexts, Reading, Checked, Results, Reads, Error, Compared, Answer, Success, Unsuccess
<1> QED
  BY <1>1, ReadingWell, ComparedWell

LEMMA StringEndsWithWell ==
  ASSUME NEW x, NEW k \in Questions, NEW y \in StringEndsWith(x), LinkSound(x), x.out = "run"
  PROVE  Well(k, x, y)
<1> DEFINE r == ResetValues(x)
<1>1. y \in Reads(x, {1, 2}, Compared(r))
  BY DEF StringEndsWith, OnTexts, Reading, Checked, Results, Reads, Error, Compared, Answer, Success, Unsuccess
<1> QED
  BY <1>1, ReadingWell, ComparedWell

-----------------------------------------------------------------------------
\* Answers are texts.
LEMMA MinExists ==
  ASSUME NEW S \in SUBSET Nat, S # {}
  PROVE  Min(S) \in S /\ \A n \in S : Min(S) <= n
<1>1. \E m \in S : \A n \in S : ~(<<n, m>> \in OpToRel(<, Nat))
  BY NatLessThanWellFounded, WFMin
<1>2. PICK m \in S : \A n \in S : ~(<<n, m>> \in OpToRel(<, Nat))
  BY <1>1
<1>3. \A n \in S : ~(n < m)
  BY <1>2 DEF OpToRel
<1>4. \A n \in S : m <= n
  BY <1>3
<1> QED
  BY <1>4 DEF Min

LEMMA DecimalText ==
  ASSUME NEW n \in Nat
  PROVE  Decimal(n) \in Seq(STRING)
<1>1. n % Size \in 0 .. Size - 1
  BY TextsAssumption
<1>2. ToString(n % Size) \in STRING
  BY <1>1, TextsAssumption
<1> QED
  BY <1>2, OnePiece DEF Decimal

LEMMA FirstOccurrence ==
  ASSUME NEW c \in Seq(STRING), NEW d, Occurrences(c, d) # {}
  PROVE  Min(Occurrences(c, d)) \in 0 .. Len(c)
<1>1. Occurrences(c, d) \subseteq 0 .. Len(c) /\ Len(c) \in Nat
  BY LenProperties DEF Occurrences
<1>2. Occurrences(c, d) \in SUBSET Nat
  BY <1>1
<1> QED
  BY <1>1, <1>2, MinExists

LEMMA Piece ==
  ASSUME NEW c \in Seq(STRING), NEW i \in Nat \ {0}, NEW j \in Int, j <= Len(c)
  PROVE  SubSeq(c, i, j) \in Seq(STRING)
<1>1. \A n \in i .. j : c[n] \in STRING
  BY ElementOfSeq, LenProperties
<1> QED
  BY <1>1, SubSeqProperties

LEMMA ContStringConcatWell ==
  ASSUME NEW x, NEW k \in Strings, NEW y \in ContStringConcat(x), LinkSound(x), x.out = "run", 1 \in DOMAIN x.operand
  PROVE  Well(k, x, y)
<1> DEFINE r == ResetValues(x)
           c == Content(r, Value(r, 2))
           d == Content(r, Value(r, 3))
<1>1. y \in Reads(x, {2, 3}, AnswerWith(r, c \o d))
  BY DEF ContStringConcat, OnTexts, Reading, Checked, Results, Reads, Error
<1>2. ASSUME Cleared(x, r), y \in AnswerWith(r, c \o d)
      PROVE  Well(k, x, y)
  <2>1. c \in Seq(STRING) /\ d \in Seq(STRING)
    BY <1>2, ClearedSound, SoundContent
  <2>2. c \o d \in Seq(STRING)
    BY <2>1, ConcatProperties
  <2> QED
    BY <1>2, <2>2, AnswerWell
<1> QED
  BY <1>1, <1>2, ReadingWell

LEMMA StringLenWell ==
  ASSUME NEW x, NEW k \in Strings, NEW y \in StringLen(x), LinkSound(x), x.out = "run", 1 \in DOMAIN x.operand
  PROVE  Well(k, x, y)
<1> DEFINE r == ResetValues(x)
           c == Content(r, Value(r, 2))
<1>1. y \in Reads(x, {2}, AnswerWith(r, Decimal(Len(c))))
  BY DEF StringLen, OnText, Reading, Checked, Results, Reads, Error
<1>2. ASSUME Cleared(x, r), y \in AnswerWith(r, Decimal(Len(c)))
      PROVE  Well(k, x, y)
  <2>1. c \in Seq(STRING)
    BY <1>2, ClearedSound, SoundContent
  <2>2. Decimal(Len(c)) \in Seq(STRING)
    BY <2>1, LenProperties, DecimalText
  <2> QED
    BY <1>2, <2>2, AnswerWell
<1> QED
  BY <1>1, <1>2, ReadingWell

LEMMA StringSubWell ==
  ASSUME NEW x, NEW k \in Strings, NEW y \in StringSub(x), LinkSound(x), x.out = "run", 1 \in DOMAIN x.operand
  PROVE  Well(k, x, y)
<1> DEFINE r == ResetValues(x)
           c == Content(r, Value(r, 2))
           d == Content(r, Value(r, 3))
           answer == Decimal(Min(Occurrences(c, d)))
           body == IF Occurrences(c, d) = {} THEN Unsuccess(r) ELSE AnswerWith(r, answer)
<1>1. y \in Reads(x, {2, 3}, body)
  BY DEF StringSub, OnTexts, Reading, Checked, Results, Reads, Error
<1>2. ASSUME Cleared(x, r), y \in body
      PROVE  Well(k, x, y)
  <2>1. CASE Occurrences(c, d) = {}
    BY <1>2, <2>1, UnsuccessWell
  <2>2. CASE Occurrences(c, d) # {}
    <3>1. c \in Seq(STRING)
      BY <1>2, ClearedSound, SoundContent
    <3>2. Min(Occurrences(c, d)) \in Nat
      BY <2>2, <3>1, FirstOccurrence
    <3>3. answer \in Seq(STRING)
      BY <3>2, DecimalText
    <3> QED
      BY <1>2, <2>2, <3>3, AnswerWell
  <2> QED
    BY <2>1, <2>2
<1> HIDE DEF body
<1> QED
  BY <1>1, <1>2, ReadingWell

LEMMA StringReplaceWell ==
  ASSUME NEW x, NEW k \in Strings, NEW y \in StringReplace(x), LinkSound(x), x.out = "run", 1 \in DOMAIN x.operand
  PROVE  Well(k, x, y)
<1> DEFINE r == ResetValues(x)
           c == Content(r, Value(r, 2))
           d == Content(r, Value(r, 3))
           f == Content(r, Value(r, 4))
           n == Min(Occurrences(c, d))
           answer == SubSeq(c, 1, n) \o f \o SubSeq(c, n + Len(d) + 1, Len(c))
           body == IF Occurrences(c, d) = {} THEN {Finish(r, "again")} ELSE AnswerWith(r, answer)
<1>1. y \in Reads(x, {2, 3, 4}, body)
  BY DEF StringReplace, Reading, Checked, Results, Reads, Error
<1>2. ASSUME Cleared(x, r), y \in body
      PROVE  Well(k, x, y)
  <2>1. CASE Occurrences(c, d) = {}
    <3>1. "again" \in LinkResult
      BY DEF LinkResult
    <3> QED
      BY <1>2, <2>1, <3>1, EndWell
  <2>2. CASE Occurrences(c, d) # {}
    <3>1. c \in Seq(STRING) /\ d \in Seq(STRING) /\ f \in Seq(STRING)
      BY <1>2, ClearedSound, SoundContent
    <3>2. n \in 0 .. Len(c) /\ Len(c) \in Nat /\ Len(d) \in Nat
      BY <2>2, <3>1, FirstOccurrence, LenProperties
    <3> HIDE DEF n, c, d, f
    <3>3. SubSeq(c, 1, n) \in Seq(STRING) /\ SubSeq(c, n + Len(d) + 1, Len(c)) \in Seq(STRING)
      BY <3>1, <3>2, Piece
    <3>4. answer \in Seq(STRING)
      BY <3>1, <3>3, ConcatProperties
    <3> QED
      BY <1>2, <2>2, <3>4, AnswerWell
  <2> QED
    BY <2>1, <2>2
<1> HIDE DEF body
<1> QED
  BY <1>1, <1>2, ReadingWell

LEMMA StringSliceWell ==
  ASSUME NEW x, NEW k \in Strings, NEW y \in StringSlice(x), LinkSound(x), x.out = "run", 1 \in DOMAIN x.operand
  PROVE  Well(k, x, y)
<1> DEFINE r == ResetValues(x)
           c == Content(r, Value(r, 2))
           first == IndexIn(Content(r, Value(r, 3)))
           last  == IndexIn(Content(r, Value(r, 4)))
           slice(i, j) == IF i > Len(c) \/ j < i \/ j > Len(c) THEN Unsuccess(r)
                          ELSE AnswerWith(r, SubSeq(c, i + 1, j))
           body == IF first = {} \/ last = {} THEN Unsuccess(r) ELSE UNION {slice(i, j) : i \in first, j \in last}
<1>1. y \in Reads(x, {2, 3, 4}, body)
  BY DEF StringSlice, Reading, Checked, Results, Reads, Error
<1>2. ASSUME Cleared(x, r), y \in body
      PROVE  Well(k, x, y)
  <2>1. c \in Seq(STRING) /\ Len(c) \in Nat
    BY <1>2, ClearedSound, SoundContent, LenProperties
  <2>2. first \subseteq Nat /\ last \subseteq Nat
    BY NumbersConverted, NumberAssumption, TextsAssumption DEF IndexIn, AsSize
  <2>3. \A i \in first, j \in last : y \in slice(i, j) => Well(k, x, y)
    <3> SUFFICES ASSUME NEW i \in first, NEW j \in last, y \in slice(i, j)
                 PROVE  Well(k, x, y)
      OBVIOUS
    <3> HIDE DEF first, last, c
    <3>1. CASE i > Len(c) \/ j < i \/ j > Len(c)
      BY <1>2, <3>1, UnsuccessWell
    <3>2. CASE ~(i > Len(c) \/ j < i \/ j > Len(c))
      <4>1. i + 1 \in Nat \ {0} /\ j \in Int /\ j <= Len(c)
        BY <2>1, <2>2, <3>2
      <4>2. SubSeq(c, i + 1, j) \in Seq(STRING)
        BY <2>1, <4>1, Piece
      <4>3. y \in AnswerWith(r, SubSeq(c, i + 1, j))
        BY <3>2
      <4> HIDE DEF slice, body, r
      <4> QED
        BY <1>2, <4>2, <4>3, AnswerWell DEF r
    <3> QED
      BY <3>1, <3>2
  <2>4. y \in Unsuccess(r) => Well(k, x, y)
    BY <1>2, UnsuccessWell
  <2> HIDE DEF slice, first, last
  <2> QED
    BY <1>2, <2>3, <2>4
<1> HIDE DEF body
<1> QED
  BY <1>1, <1>2, ReadingWell

LEMMA PartsAreTexts ==
  ASSUME NEW c \in Seq(STRING), NEW separators
  PROVE  Parts(c, separators) \in Seq(Seq(STRING))
<1> DEFINE at     == {i \in DOMAIN c : c[i] \in separators}
           starts == SetToSeq({0} \cup at)
           after(b) == {i \in at \cup {Len(c) + 1} : i > b}
           part(k) == SubSeq(c, starts[k] + 1, Min(after(starts[k])) - 1)
<1>1. Len(c) \in Nat /\ DOMAIN c = 1 .. Len(c)
  BY LenProperties
<1>2. at \subseteq 1 .. Len(c)
  BY <1>1
<1>3. IsFiniteSet({0} \cup at)
  <2>1. 0 \in Int /\ Len(c) \in Int /\ {0} \cup at \subseteq 0 .. Len(c)
    BY <1>1, <1>2
  <2> QED
    BY <2>1, FS_Interval, FS_Subset
<1>4. PICK n \in Nat : starts \in Bijection(1 .. n, {0} \cup at)
  BY <1>3, SetInOrder
<1> HIDE DEF at, starts
<1>5. DOMAIN starts = 1 .. n /\ \A k \in 1 .. n : starts[k] \in 0 .. Len(c)
  <2>1. starts \in [1 .. n -> {0} \cup at]
    BY <1>4 DEF Bijection, Injection
  <2>2. {0} \cup at \subseteq 0 .. Len(c)
    BY <1>1, <1>2
  <2> QED
    BY <2>1, <2>2
<1>6. \A b \in 0 .. Len(c) : Min(after(b)) \in b + 1 .. Len(c) + 1
  <2> SUFFICES ASSUME NEW b \in 0 .. Len(c)
               PROVE  Min(after(b)) \in b + 1 .. Len(c) + 1
    OBVIOUS
  <2>1. after(b) \in SUBSET Nat /\ after(b) \subseteq b + 1 .. Len(c) + 1 /\ Len(c) + 1 \in after(b)
    <3>1. \A i \in after(b) : i \in b + 1 .. Len(c) + 1
      BY <1>1, <1>2
    <3>2. Len(c) + 1 \in after(b)
      BY <1>1
    <3>3. b + 1 .. Len(c) + 1 \subseteq Nat
      BY <1>1
    <3> QED
      BY <3>1, <3>2, <3>3
  <2> HIDE DEF after
  <2> QED
    BY <2>1, MinExists
<1>7. \A k \in 1 .. n : part(k) \in Seq(STRING)
  <2> SUFFICES ASSUME NEW k \in 1 .. n
               PROVE  part(k) \in Seq(STRING)
    OBVIOUS
  <2> DEFINE b == starts[k]
             e == Min(after(b))
  <2>1. b \in 0 .. Len(c) /\ e \in b + 1 .. Len(c) + 1
    BY <1>5, <1>6
  <2> HIDE DEF b, e
  <2>2. b + 1 \in Nat \ {0} /\ e - 1 \in Int /\ e - 1 <= Len(c)
    BY <1>1, <2>1
  <2> QED
    BY <2>2, Piece DEF b, e
<1>8. Parts(c, separators) = [k \in DOMAIN starts |-> part(k)]
  BY DEF Parts, at, starts
<1> HIDE DEF part
<1>9. [k \in 1 .. n |-> part(k)] \in [1 .. n -> Seq(STRING)]
  BY <1>7
<1> QED
  BY <1>4, <1>5, <1>8, <1>9, SeqDef

LEMMA StringSplitWell ==
  ASSUME NEW x, NEW k \in Strings, NEW y \in StringSplit(x), LinkSound(x), x.out = "run", 1 \in DOMAIN x.operand
  PROVE  Well(k, x, y)
<1> DEFINE r == ResetValues(x)
           c == Content(r, Value(r, 2))
           d == Content(r, Value(r, 3))
           parts == Parts(c, Range(d))
           body == PrintOperatorAnswer(AddLinks(GenerateNode(r, ConstNode), r.fresh, parts), r.fresh)
<1>1. y \in Reads(x, {2, 3}, body)
  BY DEF StringSplit, OnTexts, Reading, Checked, Results, Reads, Error
<1>2. ASSUME Cleared(x, r), y \in body
      PROVE  Well(k, x, y)
  <2>1. c \in Seq(STRING)
    BY <1>2, ClearedSound, SoundContent
  <2>2. parts \in Seq(Seq(STRING))
    BY <2>1, PartsAreTexts
  <2> HIDE DEF parts
  <2> QED
    BY <1>2, <2>2, SplitWell
<1> HIDE DEF body
<1> QED
  BY <1>1, <1>2, ReadingWell

LEMMA ToCaseWell ==
  ASSUME NEW x, NEW k \in Strings, NEW case \in {Lower, Upper}, NEW y \in ToCase(x, case),
         LinkSound(x), x.out = "run", 1 \in DOMAIN x.operand
  PROVE  Well(k, x, y)
<1> DEFINE r == ResetValues(x)
           c == Content(r, Value(r, 2))
           answer == [i \in DOMAIN c |-> IF c[i] \in DOMAIN case THEN case[c[i]] ELSE c[i]]
           body == IF c = <<>> THEN Unsuccess(r) ELSE AnswerWith(r, answer)
<1>1. y \in Reads(x, {2}, body)
  BY DEF ToCase, OnText, Reading, Checked, Results, Reads, Error
<1>2. ASSUME Cleared(x, r), y \in body
      PROVE  Well(k, x, y)
  <2>1. c \in Seq(STRING)
    BY <1>2, ClearedSound, SoundContent
  <2>2. answer \in Seq(STRING)
    <3>1. DOMAIN c = 1 .. Len(c) /\ Len(c) \in Nat /\ \A i \in 1 .. Len(c) : c[i] \in STRING
      BY <2>1, LenProperties, ElementOfSeq
    <3>2. \A p \in DOMAIN case : case[p] \in STRING
      BY TextsAssumption
    <3> HIDE DEF c
    <3>3. answer \in [1 .. Len(c) -> STRING]
      BY <3>1, <3>2
    <3> HIDE DEF answer
    <3> QED
      BY <3>1, <3>3, SeqDef
  <2> HIDE DEF answer
  <2>3. CASE c = <<>>
    BY <1>2, <2>3, UnsuccessWell
  <2>4. CASE c # <<>>
    BY <1>2, <2>2, <2>4, AnswerWell
  <2> QED
    BY <2>3, <2>4
<1> HIDE DEF body
<1> QED
  BY <1>1, <1>2, ReadingWell

-----------------------------------------------------------------------------
\* The next operator finds a world as sound as the one before has left it.
LEMMA ParsedSound ==
  ASSUME NEW w, NEW values \in ValuesRead(w), NEW j \in Jobs, LinkSound(w), w.steps > 0
  PROVE  LET y == [Parsed(w, j, values) EXCEPT !.steps = @ - 1]
         IN  LinkSound(y) /\ y.out = "run" /\ DOMAIN y.operand = DOMAIN j.operand
<1> DEFINE p == Parsed(w, j, values)
           y == [p EXCEPT !.steps = @ - 1]
<1>1. ParsedStep(w, j, p) /\ Typed(p)
  BY SoundParsable, Parsing
<1>2. Carries(w, p)
  BY DEF Parsed, LinkSound, LinkFields, Fields, Carries
<1> HIDE DEF p
<1>3. /\ DOMAIN y = DOMAIN p /\ SameElements(p, y) /\ y.value = p.value /\ y.operand = p.operand /\ y.set = p.set
      /\ y.out = p.out /\ y.content = p.content /\ y.steps = w.steps - 1
  BY <1>2 DEF LinkSound, LinkFields, Fields, SameElements, Carries
<1> HIDE DEF y
<1>4. Typed(y)
  BY <1>1, <1>3 DEF Typed, SameElements, IsMemory, Exists, Connectors, Source, Target, IsOperand, OfType
<1>5. SameElements(w, y) /\ y.content = w.content /\ DOMAIN y = DOMAIN w
  BY <1>1, <1>2, <1>3 DEF ParsedStep, SameElements, Carries
<1>6. LinkSound(y)
  <2>1. y.steps \in Nat
    BY <1>3 DEF LinkSound
  <2>2. Exists(y) = Exists(w) /\ y.fresh = w.fresh /\ y.type = w.type
    BY <1>5 DEF SameElements, Exists
  <2>3. HasContents(y)
    BY <1>5, <2>2 DEF LinkSound, HasContents
  <2> QED
    BY <1>4, <1>5, <2>1, <2>2, <2>3 DEF LinkSound
<1> QED
  BY <1>1, <1>3, <1>6 DEF ParsedStep, y, p

\* Operators that have a first operand to be given an answer.
Answers == NumberKinds \cup Strings

LinkInv ==
  /\ LinkSound(world)
  /\ world.out \in LinkResult \cup {"none", "run"}
  /\ world.out = "run" => before = world /\ (kind \in Answers => 1 \in DOMAIN world.operand)
  /\ world.out # "run" /\ kind # "none" /\ (\A i \in Assigned(before) : ~before.operand[i].const)
       => Answering(kind, before, world)

LEMMA LinkInit == Init => LinkInv
<1> SUFFICES ASSUME Init
             PROVE  LinkInv
  OBVIOUS
<1>1. LinkSound(world)
  BY WorldsSound DEF Init
<1>2. world.out = "none" /\ kind = "none"
  BY WorldsAssumption DEF Init
<1> QED
  BY <1>1, <1>2 DEF LinkInv

LEMMA LinkParsed ==
  ASSUME LinkInv, ParseLink
  PROVE  LinkInv'
<1>1. PICK job \in Jobs, values \in ValuesRead(world) :
        /\ kind' = job.kind
        /\ world' = [Parsed(world, job, values) EXCEPT !.steps = @ - 1]
        /\ before' = world'
  BY DEF ParseLink
<1>2. LinkSound(world') /\ world'.out = "run" /\ DOMAIN world'.operand = DOMAIN job.operand
  <2>1. LinkSound(world) /\ world.steps > 0
    BY DEF LinkInv, ParseLink
  <2> DEFINE y == [Parsed(world, job, values) EXCEPT !.steps = @ - 1]
  <2>2. LinkSound(y) /\ y.out = "run" /\ DOMAIN y.operand = DOMAIN job.operand
    BY <2>1, ParsedSound
  <2>3. world' = y
    BY <1>1
  <2> HIDE DEF y
  <2> QED
    BY <2>2, <2>3
<1>3. job.kind \in Answers => 1 \in DOMAIN job.operand
  BY LinkJobsAssumption DEF Answers, NumberKinds, Strings
<1> QED
  BY <1>1, <1>2, <1>3 DEF LinkInv

LEMMA LinkRun ==
  ASSUME LinkInv, UNCHANGED <<kind, before>>, world.out = "run", Well(kind, before, world')
  PROVE  LinkInv'
BY DEF LinkInv, Well, LinkResult, Outcome

LEMMA MathKept ==
  ASSUME LinkInv, MathOperator
  PROVE  LinkInv'
<1> DEFINE x == world
<1>1. x.out = "run" /\ UNCHANGED <<kind, before>> /\ before = x /\ LinkSound(x)
  BY DEF MathOperator, Run, LinkInv
<1>2. kind \in NumberKinds => 1 \in DOMAIN x.operand
  BY <1>1 DEF LinkInv, Answers
<1> SUFFICES Well(kind, x, world')
  BY <1>1, LinkRun
<1> HIDE DEF x
<1>3. CASE \/ Run("contSin", Sin(world)) \/ Run("contCos", Cos(world)) \/ Run("contTg", Tg(world))
           \/ Run("contASin", ASin(world)) \/ Run("contACos", ACos(world)) \/ Run("contATg", ATg(world))
           \/ Run("contLn", ContLn(world))
  <2>1. kind \in NumberKinds /\ \E f : world' \in Function(x, f)
    BY <1>3 DEF Run, Sin, Cos, Tg, ASin, ACos, ATg, ContLn, NumberKinds, Function1, x
  <2> QED
    BY <1>1, <1>2, <2>1, FunctionWell
<1>4. CASE Run("contDivInt", DivInt(world)) \/ Run("contDivRem", DivRem(world))
  <2>1. kind \in NumberKinds /\ \E op \in Operations : world' \in WholeDivision(x, op)
    BY <1>4 DEF Run, DivInt, DivRem, Operations, NumberKinds, Whole2, x
  <2> QED
    BY <1>1, <1>2, <2>1, WholeDivisionWell
<1>5. CASE \/ Run("contAdd", ContAdd(world)) \/ Run("contSub", ContSub(world)) \/ Run("contMult", ContMult(world))
           \/ Run("contDiv", ContDiv(world)) \/ Run("contPow", ContPow(world))
  <2>1. kind \in NumberKinds /\ \E op \in Operations : world' \in Arithmetic(x, op)
    BY <1>5 DEF Run, ContAdd, ContSub, ContMult, ContDiv, ContPow, Operations, NumberKinds, Binary, x
  <2> QED
    BY <1>1, <1>2, <2>1, ArithmeticWell
<1>6. CASE Run("ifEq", IfEq(world)) \/ Run("ifGr", IfGr(world))
  <2>1. kind \in Questions /\ (world' \in IfEq(x) \/ world' \in IfGr(x))
    BY <1>6 DEF Run, Questions, x
  <2> QED
    BY <1>1, <2>1, IfEqWell, IfGrWell
<1> QED
  BY <1>3, <1>4, <1>5, <1>6 DEF MathOperator

LEMMA StringKept ==
  ASSUME LinkInv, StringOperator
  PROVE  LinkInv'
<1> DEFINE x == world
<1>1. x.out = "run" /\ UNCHANGED <<kind, before>> /\ before = x /\ LinkSound(x)
  BY DEF StringOperator, Run, LinkInv
<1>2. kind \in Strings => 1 \in DOMAIN x.operand
  BY <1>1 DEF LinkInv, Answers
<1> SUFFICES Well(kind, x, world')
  BY <1>1, LinkRun
<1> HIDE DEF x
<1>3. CASE \/ Run("stringIfEq", StringIfEq(world)) \/ Run("stringIfGr", StringIfGr(world))
           \/ Run("stringStartsWith", StringStartsWith(world)) \/ Run("stringEndsWith", StringEndsWith(world))
  <2>1. /\ kind \in Questions
        /\ \/ world' \in StringIfEq(x) \/ world' \in StringIfGr(x)
           \/ world' \in StringStartsWith(x) \/ world' \in StringEndsWith(x)
    BY <1>3 DEF Run, Questions, Asking, x
  <2> QED
    BY <1>1, <2>1, StringIfEqWell, StringIfGrWell, StringStartsWithWell, StringEndsWithWell
<1>4. CASE Run("stringToUpperCase", StringToUpperCase(world)) \/ Run("stringToLowerCase", StringToLowerCase(world))
  <2>1. kind \in Strings /\ \E case \in {Lower, Upper} : world' \in ToCase(x, case)
    BY <1>4 DEF Run, StringToUpperCase, StringToLowerCase, Strings, OfText, x
  <2> QED
    BY <1>1, <1>2, <2>1, ToCaseWell
<1>5. CASE \/ Run("stringSplit", StringSplit(world)) \/ Run("stringSlice", StringSlice(world))
           \/ Run("stringReplace", StringReplace(world)) \/ Run("contStringConcat", ContStringConcat(world))
           \/ Run("stringLen", StringLen(world)) \/ Run("stringSub", StringSub(world))
  <2>1. /\ kind \in Strings
        /\ \/ world' \in StringSplit(x) \/ world' \in StringSlice(x) \/ world' \in StringReplace(x)
           \/ world' \in ContStringConcat(x) \/ world' \in StringLen(x) \/ world' \in StringSub(x)
    BY <1>5 DEF Run, Strings, OfText, OfTexts, OfFive, x
  <2> QED
    BY <1>1, <1>2, <2>1, StringSplitWell, StringSliceWell, StringReplaceWell,
       ContStringConcatWell, StringLenWell, StringSubWell
<1> QED
  BY <1>3, <1>4, <1>5 DEF StringOperator

\* The invariant that the theorems rest on.
LEMMA LinkInvariant == LinkSpec => []LinkInv
<1>1. LinkInv /\ [LinkNext]_vars => LinkInv'
  <2>1. LinkInv /\ UNCHANGED vars => LinkInv'
    BY DEF LinkInv, vars
  <2> QED
    BY <2>1, LinkParsed, MathKept, StringKept DEF LinkNext
<1> QED
  BY <1>1, LinkInit, PTL DEF LinkSpec

-----------------------------------------------------------------------------
\* Numbers in contents: whatever conversion reads one, it is the number of the
\* first numeral, and each form of content has its conversion.
Tags == {"int: ", "uint: ", "float: ", "double: "}

LEMMA NumeralsDiffer ==
  /\ \A m, n \in Written : Numeral[m] = Numeral[n] => m = n
  /\ \A p \in Tags \cup {".", "u"} : ~IsNumeral(p)
  /\ \A n \in Written : Numeral[n] = ToString(n) /\ IsNumeral(Numeral[n]) /\ Numeral[n] \in STRING
<1>1. \A n \in Written : Numeral[n] = ToString(n)
  BY DEF Numeral
<1> QED
  BY <1>1, NumberAssumption, NumeralsAssumption DEF IsNumeral, Tags

LEMMA FirstNumeral ==
  ASSUME NEW c, NEW i \in DOMAIN c, DOMAIN c \subseteq Int, NEW n \in Written,
         c[i] = Numeral[n], \A j \in DOMAIN c : j < i => ~IsNumeral(c[j]),
         \A j \in 1 .. i - 1 : j \in DOMAIN c, \A j \in DOMAIN c : j >= 1
  PROVE  NumberIn(c) = n
<1> DEFINE First(m) == \E k \in DOMAIN c : c[k] = Numeral[m] /\ \A j \in 1 .. k - 1 : ~IsNumeral(c[j])
<1>1. First(n)
  OBVIOUS
<1>2. \A m \in Written : First(m) => m = n
  <2> SUFFICES ASSUME NEW m \in Written, NEW k \in DOMAIN c, c[k] = Numeral[m],
                      \A j \in 1 .. k - 1 : ~IsNumeral(c[j])
               PROVE  m = n
    OBVIOUS
  <2>1. IsNumeral(c[k]) /\ IsNumeral(c[i])
    BY NumeralsDiffer
  <2>2. ~(k < i) /\ ~(i < k)
    BY <2>1
  <2>3. k = i
    BY <2>2
  <2> QED
    BY <2>3, NumeralsDiffer
<1>3. NumberIn(c) = CHOOSE m \in Written : First(m)
  BY DEF NumberIn
<1> HIDE DEF First
<1> QED
  BY <1>1, <1>2, <1>3

\* A content begins with a numeral, perhaps after a piece that is none.
LEMMA FirstPiece ==
  ASSUME NEW c \in Seq(STRING), NEW n \in Written, Len(c) >= 1, c[1] = Numeral[n]
  PROVE  NumberIn(c) = n
<1>1. DOMAIN c = 1 .. Len(c) /\ Len(c) \in Nat
  BY LenProperties
<1> QED
  BY <1>1, FirstNumeral

LEMMA LeadingNumeral ==
  ASSUME NEW c \in Seq(STRING), NEW n \in Leading(c)
  PROVE  /\ c # <<>> /\ n \in Written /\ c[1] = Numeral[n]
         /\ NumberIn(c) = n
<1>1. /\ c # <<>> /\ n \in Written /\ c[1] = Numeral[n]
  BY DEF Leading
<1>2. DOMAIN c = 1 .. Len(c) /\ Len(c) \in Nat \ {0}
  BY <1>1, LenProperties, EmptySeq
<1> QED
  BY <1>1, <1>2, FirstNumeral

LEMMA SecondNumeral ==
  ASSUME NEW c \in Seq(STRING), NEW n \in Written, Len(c) >= 2, c[2] = Numeral[n], ~IsNumeral(c[1])
  PROVE  NumberIn(c) = n
<1>1. DOMAIN c = 1 .. Len(c) /\ Len(c) \in Nat
  BY LenProperties
<1> QED
  BY <1>1, FirstNumeral

\* So does what is left when a tag is taken out.
LEMMA NumeralLeft ==
  ASSUME NEW c \in Seq(STRING), NEW p \in 1 .. Len(c), ~IsNumeral(c[p]), NEW n \in Leading(RemoveAt(c, p))
  PROVE  NumberIn(c) = n
<1> DEFINE d == RemoveAt(c, p)
           s == SubSeq(c, 1, p - 1)
           t == SubSeq(c, p + 1, Len(c))
<1>1. Len(c) \in Nat /\ DOMAIN c = 1 .. Len(c)
  BY LenProperties
<1>2. s \in Seq(STRING) /\ t \in Seq(STRING)
  BY <1>1, Piece
<1>3. /\ Len(s) = p - 1 /\ \A i \in 1 .. p - 1 : s[i] = c[i]
      /\ Len(t) = Len(c) - p /\ \A i \in 1 .. Len(c) - p : t[i] = c[p + i]
  <2>1. \A i \in 1 .. p - 1 : c[i] \in STRING
    BY <1>1, ElementOfSeq
  <2>2. \A i \in p + 1 .. Len(c) : c[i] \in STRING
    BY <1>1, ElementOfSeq
  <2>3. p - 1 \in Int /\ p + 1 \in Int /\ Len(c) \in Int
    BY <1>1
  <2>4. /\ Len(s) = IF 1 <= p - 1 THEN p - 1 - 1 + 1 ELSE 0
        /\ \A i \in 1 .. p - 1 - 1 + 1 : s[i] = c[1 + i - 1]
    BY <2>1, <2>3, SubSeqProperties
  <2>5. /\ Len(t) = IF p + 1 <= Len(c) THEN Len(c) - (p + 1) + 1 ELSE 0
        /\ \A i \in 1 .. Len(c) - (p + 1) + 1 : t[i] = c[p + 1 + i - 1]
    BY <2>2, <2>3, SubSeqProperties
  <2>6. \A m, l \in Int : m \in 1 .. l =>
          /\ (IF 1 <= m - 1 THEN m - 1 - 1 + 1 ELSE 0) = m - 1 /\ m - 1 - 1 + 1 = m - 1
          /\ (IF m + 1 <= l THEN l - (m + 1) + 1 ELSE 0) = l - m /\ l - (m + 1) + 1 = l - m
          /\ \A i \in Int : 1 + i - 1 = i /\ m + 1 + i - 1 = m + i
    OBVIOUS
  <2>7. p \in Int /\ Len(c) \in Int
    BY <1>1
  <2> HIDE DEF s, t
  <2> QED
    BY <2>4, <2>5, <2>6, <2>7
<1>4. d = s \o t
  BY DEF RemoveAt
<1> HIDE DEF d, s, t
<1>5. /\ d \in Seq(STRING) /\ Len(d) = Len(c) - 1
      /\ \A i \in 1 .. Len(c) - 1 : d[i] = IF i <= p - 1 THEN s[i] ELSE t[i - (p - 1)]
  <2>1. /\ d \in Seq(STRING) /\ Len(d) = Len(s) + Len(t)
        /\ \A i \in 1 .. Len(s) + Len(t) : d[i] = IF i <= Len(s) THEN s[i] ELSE t[i - Len(s)]
    BY <1>2, <1>4, ConcatProperties
  <2>2. Len(s) + Len(t) = Len(c) - 1
    BY <1>1, <1>3
  <2> QED
    BY <1>3, <2>1, <2>2
<1>6. d # <<>> /\ d[1] = Numeral[n] /\ n \in Written
  BY <1>5, LeadingNumeral DEF d
<1>7. Len(c) >= 2
  BY <1>1, <1>5, <1>6, EmptySeq
<1>8. CASE p = 1
  <2>1. d[1] = c[2]
    BY <1>1, <1>3, <1>5, <1>7, <1>8
  <2> QED
    BY <1>6, <1>7, <1>8, <2>1, SecondNumeral
<1>9. CASE p > 1
  <2>1. d[1] = c[1]
    BY <1>1, <1>3, <1>5, <1>7, <1>9
  <2>2. Len(c) >= 1
    BY <1>1, <1>7
  <2> QED
    BY <1>6, <2>1, <2>2, FirstPiece
<1> QED
  BY <1>8, <1>9

LEMMA TagTaken ==
  ASSUME NEW c \in Seq(STRING), NEW tag \in Tags
  PROVE  Leading(RemoveFirst(c, tag)) \subseteq {NumberIn(c)}
<1>1. Len(c) \in Nat
  BY LenProperties
<1>2. CASE \E i \in 1 .. Len(c) : c[i] = tag
  <2> DEFINE I == {i \in 1 .. Len(c) : c[i] = tag}
  <2>1. RemoveFirst(c, tag) = RemoveAt(c, Min(I))
    BY <1>2 DEF RemoveFirst, SelectInSeq
  <2>2. Min(I) \in I
    <3>1. I \in SUBSET Nat /\ I # {}
      BY <1>1, <1>2
    <3> HIDE DEF I
    <3> QED
      BY <3>1, MinExists
  <2>3. ~IsNumeral(c[Min(I)]) /\ Min(I) \in 1 .. Len(c)
    BY <2>2, NumeralsDiffer
  <2> QED
    BY <2>1, <2>3, NumeralLeft
<1>3. CASE ~\E i \in 1 .. Len(c) : c[i] = tag
  <2>1. RemoveFirst(c, tag) = c
    BY <1>3 DEF RemoveFirst
  <2> QED
    BY <2>1, LeadingNumeral
<1> QED
  BY <1>2, <1>3

LEMMA IntCut ==
  ASSUME NEW c \in Seq(STRING)
  PROVE  Leading(CutInt(c)) \subseteq {NumberIn(c)}
<1> DEFINE at == {i \in DOMAIN c : c[i] \in IntTags}
           i  == Min(at)
<1>1. Len(c) \in Nat /\ DOMAIN c = 1 .. Len(c)
  BY LenProperties
<1>2. CutInt(c) = IF at = {} THEN c ELSE IF c[i] = "int: " THEN RemoveAt(c, i) ELSE ReplaceAt(c, i, "u")
  BY DEF CutInt
<1>3. CASE at = {}
  BY <1>2, <1>3, LeadingNumeral
<1>4. CASE at # {}
  <2>1. at \in SUBSET Nat
    BY <1>1
  <2>2. i \in 1 .. Len(c) /\ c[i] \in IntTags
    <3> HIDE DEF at
    <3>1. i \in at
      BY <1>4, <2>1, MinExists
    <3> QED
      BY <1>1, <3>1 DEF at
  <2> HIDE DEF i, at
  <2>3. ~IsNumeral(c[i])
    BY <2>2, NumeralsDiffer DEF IntTags, Tags
  <2>4. CASE c[i] = "int: "
    BY <1>2, <1>4, <2>2, <2>3, <2>4, NumeralLeft
  <2>5. CASE c[i] # "int: "
    <3> DEFINE S == STRING \cup {"u"}
               d == [c EXCEPT ![i] = "u"]
    <3>1. CutInt(c) = d
      BY <1>2, <1>4, <2>5 DEF ReplaceAt
    <3>a. c \in Seq(S) /\ "u" \in S
      BY SeqMonotonic
    <3>2. d \in Seq(S) /\ Len(d) = Len(c) /\ \A j \in 1 .. Len(c) : d[j] = IF j = i THEN "u" ELSE c[j]
      BY <2>2, <3>a, ExceptSeq
    <3> HIDE DEF d
    <3> SUFFICES ASSUME NEW n \in Leading(d)
                 PROVE  NumberIn(c) = n
      BY <3>1
    <3>3. d # <<>> /\ n \in Written /\ d[1] = Numeral[n]
      BY <3>2 DEF Leading
    <3>4. 1 \in 1 .. Len(c)
      BY <1>1, <2>2
    <3>5. c[1] = Numeral[n]
      BY <3>2, <3>3, <3>4, NumeralsDiffer
    <3> QED
      BY <1>1, <3>3, <3>4, <3>5, FirstNumeral
  <2> QED
    BY <2>4, <2>5
<1> QED
  BY <1>3, <1>4

\* What each conversion reads is that number.
LEMMA OneNumber ==
  ASSUME NEW c \in Seq(STRING)
  PROVE  /\ ScLinkGetContentInt(c)    \subseteq {NumberIn(c)} \cap Number
         /\ ScLinkGetContentUint(c)   \subseteq {NumberIn(c)} \cap Number
         /\ ScLinkGetContentFloat(c)  \subseteq {NumberIn(c)}
         /\ ScLinkGetContentDouble(c) \subseteq {NumberIn(c)}
         /\ Leading(c) \subseteq {NumberIn(c)}
         /\ NumberIn(c) \in Number => AtoI(c) \subseteq {NumberIn(c)}
<1>1. Leading(c) \subseteq {NumberIn(c)}
  BY LeadingNumeral
<1>2. NumberIn(c) \in Number => AtoI(c) \subseteq {NumberIn(c)}
  BY <1>1 DEF AtoI, Fit
<1>3. ScLinkGetContentInt(c) \subseteq {NumberIn(c)} \cap Number
  BY IntCut DEF ScLinkGetContentInt, StoI
<1> QED
  BY <1>1, <1>2, <1>3, TagTaken DEF ScLinkGetContentUint, ScLinkGetContentFloat, ScLinkGetContentDouble, StoI, Tags

LEMMA FirstTaken ==
  ASSUME NEW c \in Seq(STRING), Len(c) >= 2, NEW n \in Written, c[2] = Numeral[n]
  PROVE  n \in Leading(RemoveAt(c, 1))
<1> DEFINE t == SubSeq(c, 2, Len(c))
<1>1. Len(c) \in Nat
  BY LenProperties
<1>2. RemoveAt(c, 1) = SubSeq(c, 1, 0) \o t
  BY DEF RemoveAt
<1>3. SubSeq(c, 1, 0) = <<>>
  BY SubSeqEmpty
<1>4. t \in Seq(STRING) /\ Len(t) >= 1 /\ t[1] = c[2]
  <2>1. \A i \in 2 .. Len(c) : c[i] \in STRING
    BY <1>1, ElementOfSeq
  <2>2. 2 \in Int /\ Len(c) \in Int
    BY <1>1
  <2>3. /\ t \in Seq(STRING) /\ Len(t) = IF 2 <= Len(c) THEN Len(c) - 2 + 1 ELSE 0
        /\ \A i \in 1 .. Len(c) - 2 + 1 : t[i] = c[2 + i - 1]
    BY <2>1, <2>2, SubSeqProperties
  <2> HIDE DEF t
  <2>4. 1 \in 1 .. Len(c) - 2 + 1 /\ 2 + 1 - 1 = 2 /\ 2 <= Len(c) /\ Len(c) - 2 + 1 >= 1
    BY <1>1
  <2> QED
    BY <2>3, <2>4
<1> HIDE DEF t
<1>5. RemoveAt(c, 1) = t
  BY <1>2, <1>3, <1>4, ConcatEmptySeq
<1>6. t # <<>> /\ Head(t) = t[1]
  BY <1>4, EmptySeq
<1> QED
  BY <1>4, <1>5, <1>6 DEF Leading

LEMMA FirstTagTaken ==
  ASSUME NEW c \in Seq(STRING), Len(c) >= 2, NEW n \in Written, c[2] = Numeral[n], NEW tag \in Tags, c[1] = tag
  PROVE  Leading(RemoveFirst(c, tag)) = {NumberIn(c)} /\ NumberIn(c) = n
<1> DEFINE I == {i \in 1 .. Len(c) : c[i] = tag}
<1>1. Len(c) \in Nat
  BY LenProperties
<1>2. 1 \in I /\ I \in SUBSET Nat
  BY <1>1
<1>3. RemoveFirst(c, tag) = RemoveAt(c, Min(I))
  BY <1>2 DEF RemoveFirst, SelectInSeq
<1>4. Min(I) = 1
  <2>1. I \subseteq Nat /\ \A i \in I : i >= 1
    BY <1>1
  <2> HIDE DEF I
  <2>2. Min(I) \in I /\ Min(I) <= 1
    BY <1>2, MinExists
  <2>3. Min(I) \in Nat /\ Min(I) >= 1
    BY <2>1, <2>2
  <2> QED
    BY <2>2, <2>3
<1> HIDE DEF I
<1> QED
  BY <1>3, <1>4, FirstTaken, TagTaken

LEMMA FirstIntTaken ==
  ASSUME NEW c \in Seq(STRING), Len(c) >= 2, NEW n \in Written, c[2] = Numeral[n], NEW tag \in IntTags, c[1] = tag
  PROVE  /\ tag = "int: " => Leading(CutInt(c)) = {NumberIn(c)}
         /\ tag # "int: " => Leading(CutInt(c)) = {}
<1> DEFINE at == {i \in DOMAIN c : c[i] \in IntTags}
<1>1. Len(c) \in Nat /\ DOMAIN c = 1 .. Len(c)
  BY LenProperties
<1>2. 1 \in at /\ at \in SUBSET Nat
  BY <1>1
<1>3. Min(at) = 1
  <2>1. \A i \in at : i \in Nat /\ i >= 1
    BY <1>1
  <2> HIDE DEF at
  <2>2. Min(at) \in at /\ Min(at) <= 1
    BY <1>2, MinExists
  <2>3. Min(at) \in Nat /\ Min(at) >= 1
    BY <2>1, <2>2
  <2> QED
    BY <2>2, <2>3
<1>4. CutInt(c) = IF at = {} THEN c ELSE IF c[Min(at)] = "int: " THEN RemoveAt(c, Min(at)) ELSE ReplaceAt(c, Min(at), "u")
  BY DEF CutInt
<1> HIDE DEF at
<1>5. CutInt(c) = IF tag = "int: " THEN RemoveAt(c, 1) ELSE ReplaceAt(c, 1, "u")
  BY <1>2, <1>3, <1>4, Zenon
<1>6. CASE tag = "int: "
  <2>1. CutInt(c) = RemoveAt(c, 1)
    BY <1>5, <1>6, Zenon
  <2>2. n \in Leading(RemoveAt(c, 1))
    BY FirstTaken
  <2>3. Leading(CutInt(c)) \subseteq {NumberIn(c)}
    BY IntCut
  <2> QED
    BY <1>6, <2>1, <2>2, <2>3, Zenon
<1>7. CASE tag # "int: "
  <2> DEFINE S == STRING \cup {"u"}
             d == [c EXCEPT ![1] = "u"]
  <2>1. CutInt(c) = d
    BY <1>5, <1>7, Zenon DEF ReplaceAt
  <2>2. c \in Seq(S) /\ "u" \in S
    BY SeqMonotonic
  <2>3. d \in Seq(S) /\ Len(d) = Len(c) /\ \A j \in 1 .. Len(c) : d[j] = IF j = 1 THEN "u" ELSE c[j]
    BY <1>1, <2>2, ExceptSeq
  <2>4. d[1] = "u"
    BY <1>1, <2>3
  <2> HIDE DEF d
  <2>5. ASSUME NEW m \in Leading(d) PROVE FALSE
    <3>1. d # <<>> /\ m \in Written /\ d[1] = Numeral[m]
      BY <2>3, <2>5 DEF Leading
    <3>2. IsNumeral(d[1])
      BY <3>1 DEF IsNumeral
    <3> QED
      BY <2>4, <3>2, NumeralsDiffer, Zenon
  <2> QED
    BY <1>7, <2>1, <2>5
<1> QED
  BY <1>6, <1>7

\* A plain number is its numeral, and has no tag.
LEMMA PlainContent ==
  ASSUME NEW c \in Seq(STRING), Plain(c)
  PROVE  /\ Range(c) \cap Tags = {}
         /\ NumberIn(c) \in Written /\ Leading(c) = {NumberIn(c)}
<1>1. DOMAIN c = 1 .. Len(c) /\ Len(c) \in Nat
  BY LenProperties
<1>2. IsNumeral(c[1]) /\ Len(c) >= 1 /\ \A i \in DOMAIN c : c[i] \notin Tags
  <2> DEFINE point == "."
  <2>1. (Len(c) = 1 \/ (Len(c) = 2 /\ c[2] = point)) /\ IsNumeral(c[1])
    BY DEF Plain, PlainInt, PlainDouble
  <2>2. \A p \in Tags : ~IsNumeral(p) /\ p # point
    BY NumeralsDiffer DEF Tags
  <2> HIDE DEF point
  <2> QED
    BY <1>1, <2>1, <2>2
<1>3. Range(c) \cap Tags = {}
  BY <1>2 DEF Range
<1>4. PICK n \in Written : Numeral[n] = c[1]
  BY <1>2 DEF IsNumeral
<1>5. n \in Leading(c)
  <2>1. c # <<>> /\ Head(c) = c[1]
    BY <1>1, <1>2, EmptySeq
  <2> QED
    BY <1>4, <2>1 DEF Leading
<1> QED
  BY <1>3, <1>5, LeadingNumeral

\* A number after a tag: no other tag is there, and what is read is the number.
After(tag, c) == WholeAfter(tag, c) \/ RealAfter(tag, c)

LEMMA AfterTag ==
  ASSUME NEW c \in Seq(STRING), NEW tag \in Tags, After(tag, c)
  PROVE  /\ ~Plain(c)
         /\ Len(c) >= 2 /\ c[1] = tag /\ \E n \in Written : c[2] = Numeral[n]
         /\ Range(c) \cap Tags = {tag}
<1>1. DOMAIN c = 1 .. Len(c) /\ Len(c) \in Nat
  BY LenProperties
<1>2. c[1] = tag /\ (Len(c) = 2 \/ Len(c) = 3)
  BY DEF After, WholeAfter, RealAfter
<1>3. ~IsNumeral(tag)
  BY NumeralsDiffer
<1>4. ~Plain(c)
  BY <1>2, <1>3 DEF Plain, PlainInt, PlainDouble
<1>5. IsNumeral(c[2]) /\ (Len(c) = 3 => c[3] = ".")
  <2>1. CASE WholeAfter(tag, c)
    BY <2>1 DEF WholeAfter
  <2>2. CASE RealAfter(tag, c)
    <3>1. Len(c) = 3 /\ IsNumeral(Tail(c)[1]) /\ Tail(c)[2] = "."
      BY <2>2 DEF RealAfter, PlainDouble
    <3>2. c # <<>>
      BY <3>1, EmptySeq
    <3>3. Tail(c)[1] = c[2] /\ Tail(c)[2] = c[3]
      <4>1. Len(c) = 3
        BY <3>1
      <4> QED
        BY <3>2, <4>1, HeadTailProperties
    <3> QED
      BY <3>1, <3>3, Zenon
  <2> QED
    BY <2>1, <2>2 DEF After
<1>6. \A i \in DOMAIN c : c[i] \in Tags => c[i] = tag
  <2> DEFINE point == "."
  <2>1. Len(c) = 3 => c[3] = point
    BY <1>5
  <2>2. \A p \in Tags : ~IsNumeral(p) /\ p # point
    BY NumeralsDiffer DEF Tags
  <2>3. IsNumeral(c[2])
    BY <1>5
  <2> HIDE DEF point
  <2>4. \A i \in DOMAIN c : i = 1 \/ i = 2 \/ (i = 3 /\ Len(c) = 3)
    BY <1>1, <1>2
  <2> QED
    BY <1>2, <2>1, <2>2, <2>3, <2>4
<1>7. Range(c) \cap Tags = {tag}
  <2>1. 1 \in DOMAIN c
    BY <1>1, <1>2
  <2> QED
    BY <1>2, <1>6, <2>1 DEF Range
<1>8. \E n \in Written : c[2] = Numeral[n]
  BY <1>5 DEF IsNumeral
<1>9. Len(c) >= 2
  BY <1>1, <1>2
<1> QED
  BY <1>2, <1>4, <1>7, <1>8, <1>9

-----------------------------------------------------------------------------
\* Every content has one form.
LEMMA OneForm ==
  ASSUME NEW c
  PROVE  /\ Form(c) = "integer" <=> PlainInt(c)
         /\ Form(c) = "real" <=> PlainDouble(c)
         /\ Form(c) = "int" <=> WholeAfter("int: ", c)
         /\ Form(c) = "uint" <=> WholeAfter("uint: ", c)
         /\ Form(c) = "float" <=> RealAfter("float: ", c)
         /\ Form(c) = "double" <=> RealAfter("double: ", c)
         /\ Form(c) \in {"integer", "real", "int", "uint", "float", "double", "text"}
<1>1. PlainInt(c) => Len(c) = 1 /\ IsNumeral(c[1])
  BY DEF PlainInt
<1>2. PlainDouble(c) => Len(c) = 2 /\ IsNumeral(c[1])
  BY DEF PlainDouble
<1>3. \A tag : WholeAfter(tag, c) => Len(c) = 2 /\ c[1] = tag
  BY DEF WholeAfter
<1>4. \A tag : RealAfter(tag, c) => Len(c) = 3 /\ c[1] = tag
  BY DEF RealAfter
<1>5. \A tag \in Tags : ~IsNumeral(tag)
  BY NumeralsDiffer
<1>6. "int: " \in Tags /\ "uint: " \in Tags /\ "float: " \in Tags /\ "double: " \in Tags
  BY DEF Tags
<1>7. "int: " # "uint: " /\ "float: " # "double: "
  OBVIOUS
<1>8. \A m, n \in {1, 2, 3} : m = n \/ m # n
  OBVIOUS
<1>a. /\ ~(PlainInt(c) /\ PlainDouble(c))
      /\ \A tag : WholeAfter(tag, c) => ~PlainInt(c) /\ \A t : ~RealAfter(t, c)
      /\ \A tag : RealAfter(tag, c) => ~PlainInt(c) /\ ~PlainDouble(c)
  BY <1>1, <1>2, <1>3, <1>4
<1>b. \A tag \in Tags : WholeAfter(tag, c) => ~PlainDouble(c)
  BY <1>2, <1>3, <1>5
<1>c. ~(WholeAfter("int: ", c) /\ WholeAfter("uint: ", c)) /\ ~(RealAfter("float: ", c) /\ RealAfter("double: ", c))
  <2>1. \A t, u : (WholeAfter(t, c) /\ WholeAfter(u, c)) \/ (RealAfter(t, c) /\ RealAfter(u, c)) => t = u
    BY <1>3, <1>4
  <2> QED
    BY <1>7, <2>1
<1>d. \A t \in Tags : WholeAfter(t, c) => ~PlainInt(c) /\ ~PlainDouble(c) /\ \A u : ~RealAfter(u, c)
  BY <1>a, <1>b
<1> DEFINE P1 == PlainInt(c)
           P2 == PlainDouble(c)
           W1 == WholeAfter("int: ", c)
           W2 == WholeAfter("uint: ", c)
           R1 == RealAfter("float: ", c)
           R2 == RealAfter("double: ", c)
<1>e. /\ W1 => ~P1 /\ ~P2 /\ ~R1 /\ ~R2 /\ ~W2
      /\ W2 => ~P1 /\ ~P2 /\ ~R1 /\ ~R2
      /\ R1 => ~P1 /\ ~P2 /\ ~R2
      /\ R2 => ~P1 /\ ~P2
      /\ P1 => ~P2
  BY <1>6, <1>a, <1>c, <1>d
<1>f. Form(c) = IF P1 THEN "integer" ELSE IF P2 THEN "real" ELSE IF W1 THEN "int" ELSE IF W2 THEN "uint"
                ELSE IF R1 THEN "float" ELSE IF R2 THEN "double" ELSE "text"
  BY DEF Form
<1> HIDE DEF P1, P2, W1, W2, R1, R2
<1>g. /\ Form(c) = "integer" <=> P1
      /\ Form(c) = "real" <=> P2
      /\ Form(c) = "int" <=> W1
      /\ Form(c) = "uint" <=> W2
      /\ Form(c) = "float" <=> R1
      /\ Form(c) = "double" <=> R2
      /\ Form(c) \in {"integer", "real", "int", "uint", "float", "double", "text"}
  BY <1>e, <1>f
<1> QED
  BY <1>g DEF P1, P2, W1, W2, R1, R2

\* What the conversions' tests say of contents with one tag, or none.
LEMMA TestsOfTags ==
  ASSUME NEW c
  PROVE  /\ Range(c) \cap Tags = {} =>
              ~ScLinkContentIsInt(c) /\ ~ScLinkContentIsUint(c) /\ ~ScLinkContentIsFloat(c) /\ ~ScLinkContentIsDouble(c)
         /\ Range(c) \cap Tags = {"int: "} =>
              ScLinkContentIsInt(c) /\ ~ScLinkContentIsUint(c) /\ ~ScLinkContentIsFloat(c) /\ ~ScLinkContentIsDouble(c)
         /\ Range(c) \cap Tags = {"uint: "} =>
              ScLinkContentIsInt(c) /\ ScLinkContentIsUint(c) /\ ~ScLinkContentIsFloat(c) /\ ~ScLinkContentIsDouble(c)
         /\ Range(c) \cap Tags = {"float: "} =>
              ~ScLinkContentIsInt(c) /\ ~ScLinkContentIsUint(c) /\ ScLinkContentIsFloat(c) /\ ~ScLinkContentIsDouble(c)
         /\ Range(c) \cap Tags = {"double: "} =>
              ~ScLinkContentIsInt(c) /\ ~ScLinkContentIsUint(c) /\ ~ScLinkContentIsFloat(c) /\ ScLinkContentIsDouble(c)
<1> DEFINE R == Range(c)
<1>1. /\ ScLinkContentIsInt(c) <=> "int: " \in R \/ "uint: " \in R
      /\ ScLinkContentIsUint(c) <=> "uint: " \in R
      /\ ScLinkContentIsFloat(c) <=> "float: " \in R
      /\ ScLinkContentIsDouble(c) <=> "double: " \in R
  BY DEF ScLinkContentIsInt, ScLinkContentIsUint, ScLinkContentIsFloat, ScLinkContentIsDouble, IntTags
<1> HIDE DEF R
<1>2. \A t \in Tags : t \in R <=> t \in R \cap Tags
  OBVIOUS
<1>3. "int: " \in Tags /\ "uint: " \in Tags /\ "float: " \in Tags /\ "double: " \in Tags
  BY DEF Tags
<1> QED
  BY <1>1, <1>2, <1>3 DEF R

\* Which of the four tests c passes.
Tests(c, i, u, f, d) ==
  /\ (ScLinkContentIsInt(c) <=> i) /\ (ScLinkContentIsUint(c) <=> u)
  /\ (ScLinkContentIsFloat(c) <=> f) /\ (ScLinkContentIsDouble(c) <=> d)

\* What is read of a content of each form.
LEMMA ReadOfForm ==
  ASSUME NEW c \in Seq(STRING)
  PROVE  /\ Form(c) \in {"integer", "real"} =>
              /\ Plain(c) /\ Tests(c, FALSE, FALSE, FALSE, FALSE)
              /\ NumberIn(c) \in Written /\ Leading(c) = {NumberIn(c)}
         /\ Form(c) = "int" =>
              /\ ~Plain(c) /\ Tests(c, TRUE, FALSE, FALSE, FALSE)
              /\ NumberIn(c) \in Written /\ ScLinkGetContentInt(c) = {NumberIn(c)} \cap Number
         /\ Form(c) = "uint" => ~Plain(c) /\ Tests(c, TRUE, TRUE, FALSE, FALSE) /\ ScLinkGetContentInt(c) = {}
         /\ Form(c) = "float" =>
              /\ ~Plain(c) /\ Tests(c, FALSE, FALSE, TRUE, FALSE)
              /\ NumberIn(c) \in Written /\ ScLinkGetContentFloat(c) = {NumberIn(c)}
         /\ Form(c) = "double" =>
              /\ ~Plain(c) /\ Tests(c, FALSE, FALSE, FALSE, TRUE)
              /\ NumberIn(c) \in Written /\ ScLinkGetContentDouble(c) = {NumberIn(c)}
         /\ Form(c) = "text" /\ ~Misread(c) => ~Plain(c) /\ Tests(c, FALSE, FALSE, FALSE, FALSE)
<1>1. ASSUME Form(c) \in {"integer", "real"}
      PROVE  /\ Plain(c) /\ Tests(c, FALSE, FALSE, FALSE, FALSE)
             /\ NumberIn(c) \in Written /\ Leading(c) = {NumberIn(c)}
  <2>1. Plain(c)
    BY <1>1, OneForm DEF Plain
  <2> QED
    BY <2>1, PlainContent, TestsOfTags DEF Tests
<1>2. ASSUME NEW tag \in Tags, After(tag, c)
      PROVE  /\ ~Plain(c) /\ Range(c) \cap Tags = {tag}
             /\ Leading(RemoveFirst(c, tag)) = {NumberIn(c)} /\ NumberIn(c) \in Written
             /\ tag = "int: " => Leading(CutInt(c)) = {NumberIn(c)}
             /\ tag = "uint: " => Leading(CutInt(c)) = {}
  <2>1. ~Plain(c) /\ Len(c) >= 2 /\ c[1] = tag /\ Range(c) \cap Tags = {tag}
    BY <1>2, AfterTag
  <2>2. PICK n \in Written : c[2] = Numeral[n]
    BY <1>2, AfterTag
  <2>3. Leading(RemoveFirst(c, tag)) = {NumberIn(c)} /\ NumberIn(c) = n
    BY <2>1, <2>2, FirstTagTaken
  <2>4. tag \in IntTags =>
          /\ tag = "int: " => Leading(CutInt(c)) = {NumberIn(c)}
          /\ tag # "int: " => Leading(CutInt(c)) = {}
    BY <2>1, <2>2, FirstIntTaken
  <2>5. (tag = "int: " => tag \in IntTags) /\ (tag = "uint: " => tag \in IntTags /\ tag # "int: ")
    BY DEF IntTags
  <2> QED
    BY <2>1, <2>2, <2>3, <2>4, <2>5, Zenon
<1>t. "int: " \in Tags /\ "uint: " \in Tags /\ "float: " \in Tags /\ "double: " \in Tags
  BY DEF Tags
<1>3. ASSUME Form(c) = "int"
      PROVE  /\ ~Plain(c) /\ Tests(c, TRUE, FALSE, FALSE, FALSE)
             /\ NumberIn(c) \in Written /\ ScLinkGetContentInt(c) = {NumberIn(c)} \cap Number
  <2>1. After("int: ", c)
    BY <1>3, OneForm DEF After
  <2>2. /\ ~Plain(c) /\ Range(c) \cap Tags = {"int: "}
        /\ NumberIn(c) \in Written /\ Leading(CutInt(c)) = {NumberIn(c)}
    BY <1>2, <1>t, <2>1, Zenon
  <2>3. Tests(c, TRUE, FALSE, FALSE, FALSE)
    BY <2>2, TestsOfTags DEF Tests
  <2> QED
    BY <2>2, <2>3 DEF ScLinkGetContentInt, StoI
<1>4. ASSUME Form(c) = "uint"
      PROVE  ~Plain(c) /\ Tests(c, TRUE, TRUE, FALSE, FALSE) /\ ScLinkGetContentInt(c) = {}
  <2>1. After("uint: ", c)
    BY <1>4, OneForm DEF After
  <2>2. ~Plain(c) /\ Range(c) \cap Tags = {"uint: "} /\ Leading(CutInt(c)) = {}
    BY <1>2, <1>t, <2>1, Zenon
  <2>3. Tests(c, TRUE, TRUE, FALSE, FALSE)
    BY <2>2, TestsOfTags DEF Tests
  <2> QED
    BY <2>2, <2>3 DEF ScLinkGetContentInt, StoI
<1>5. ASSUME Form(c) = "float"
      PROVE  /\ ~Plain(c) /\ Tests(c, FALSE, FALSE, TRUE, FALSE)
             /\ NumberIn(c) \in Written /\ ScLinkGetContentFloat(c) = {NumberIn(c)}
  <2>1. After("float: ", c)
    BY <1>5, OneForm DEF After
  <2>2. /\ ~Plain(c) /\ Range(c) \cap Tags = {"float: "}
        /\ NumberIn(c) \in Written /\ Leading(RemoveFirst(c, "float: ")) = {NumberIn(c)}
    BY <1>2, <1>t, <2>1, Zenon
  <2>3. Tests(c, FALSE, FALSE, TRUE, FALSE)
    BY <2>2, TestsOfTags DEF Tests
  <2> QED
    BY <2>2, <2>3 DEF ScLinkGetContentFloat
<1>6. ASSUME Form(c) = "double"
      PROVE  /\ ~Plain(c) /\ Tests(c, FALSE, FALSE, FALSE, TRUE)
             /\ NumberIn(c) \in Written /\ ScLinkGetContentDouble(c) = {NumberIn(c)}
  <2>1. After("double: ", c)
    BY <1>6, OneForm DEF After
  <2>2. /\ ~Plain(c) /\ Range(c) \cap Tags = {"double: "}
        /\ NumberIn(c) \in Written /\ Leading(RemoveFirst(c, "double: ")) = {NumberIn(c)}
    BY <1>2, <1>t, <2>1, Zenon
  <2>3. Tests(c, FALSE, FALSE, FALSE, TRUE)
    BY <2>2, TestsOfTags DEF Tests
  <2> QED
    BY <2>2, <2>3 DEF ScLinkGetContentDouble
<1>7. ASSUME Form(c) = "text", ~Misread(c)
      PROVE  ~Plain(c) /\ Tests(c, FALSE, FALSE, FALSE, FALSE)
  <2>1. Range(c) \cap Tags = {}
    BY <1>7 DEF Misread, Tags
  <2>2. ~Plain(c)
    <3>1. Form(c) # "integer" /\ Form(c) # "real"
      BY <1>7
    <3> QED
      BY <3>1, OneForm DEF Plain
  <2> QED
    BY <2>1, <2>2, TestsOfTags DEF Tests
<1> QED
  BY <1>1, <1>3, <1>4, <1>5, <1>6, <1>7

\* A conversion that throws met a content that is misread or too large.
LEMMA ThrownAt ==
  ASSUME NEW c \in Seq(STRING)
  PROVE  /\ ScLinkContentIsInt(c) /\ ScLinkGetContentInt(c) = {} => Misread(c) \/ TooLarge(c)
         /\ ScLinkContentIsUint(c) => Misread(c)
         /\ ScLinkContentIsFloat(c) /\ ScLinkGetContentFloat(c) = {} => Misread(c)
         /\ ScLinkContentIsDouble(c) /\ ScLinkGetContentDouble(c) = {} => Misread(c)
         /\ Plain(c) => Leading(c) # {} /\ AtoI(c) # {}
<1>1. Form(c) \in {"integer", "real", "int", "uint", "float", "double", "text"}
  BY OneForm
<1>2. Form(c) = "uint" => Misread(c)
  BY DEF Misread
<1>3. Form(c) = "int" /\ ScLinkGetContentInt(c) = {} => TooLarge(c)
  BY ReadOfForm DEF TooLarge
<1>4. Plain(c) => Leading(c) # {} /\ AtoI(c) # {}
  <2> SUFFICES ASSUME Plain(c) PROVE Leading(c) # {} /\ AtoI(c) # {}
    OBVIOUS
  <2>1. Leading(c) = {NumberIn(c)}
    BY PlainContent
  <2>2. Fit(NumberIn(c)) # {}
    BY NumberAssumption DEF Fit
  <2> QED
    BY <2>1, <2>2 DEF AtoI
<1>5. CASE Form(c) \in {"integer", "real"}
  BY <1>4, <1>5, ReadOfForm DEF Tests
<1>6. CASE Form(c) = "int"
  BY <1>3, <1>4, <1>6, ReadOfForm DEF Tests
<1>7. CASE Form(c) = "uint"
  BY <1>2, <1>4, <1>7
<1>8. CASE Form(c) = "float"
  BY <1>4, <1>8, ReadOfForm DEF Tests
<1>9. CASE Form(c) = "double"
  BY <1>4, <1>9, ReadOfForm DEF Tests
<1>a. CASE Form(c) = "text"
  <2>1. CASE Misread(c)
    BY <1>4, <2>1
  <2>2. CASE ~Misread(c)
    BY <1>4, <1>a, <2>2, ReadOfForm DEF Tests
  <2> QED
    BY <2>1, <2>2
<1> QED
  BY <1>1, <1>5, <1>6, <1>7, <1>8, <1>9, <1>a

-----------------------------------------------------------------------------
\* What can not be divided.
Unquotable(m, n) == n = 0 \/ Quotient(m, n) \notin Number

\* What a computation from given numbers comes to.
LEMMA ComputeOut ==
  ASSUME NEW op \in Operations, NEW m \in Number, NEW n \in Number, NEW a \in Compute(op, m, n)
  PROVE  /\ a.out \in {"run", "killed"}
         /\ a.out = "run" => a.text # <<>>
         /\ a.out = "killed" => op \in {"div", "rem"} /\ Unquotable(m, n)
<1>1. \A numbers : \A t \in Whole(numbers) : t.out = "run" /\ t.text # <<>>
  <2> SUFFICES ASSUME NEW numbers, NEW k \in numbers
               PROVE  Text(<<ToString(k)>>).out = "run" /\ Text(<<ToString(k)>>).text # <<>>
    BY DEF Whole
  <2>1. <<ToString(k)>> # <<>>
    OBVIOUS
  <2> QED
    BY <2>1 DEF Text
<1>2. Killed.out = "killed"
  BY DEF Killed
<1>3. CASE op \in {"div", "rem"}
  <2>1. CASE Unquotable(m, n)
    <3>1. Compute(op, m, n) = {Killed}
      BY <1>3, <2>1 DEF Compute, Unquotable
    <3> QED
      BY <1>2, <1>3, <2>1, <3>1
  <2>2. CASE ~Unquotable(m, n)
    <3>1. \E numbers : Compute(op, m, n) = Whole(numbers)
      BY <1>3, <2>2 DEF Compute, Unquotable
    <3> QED
      BY <1>1, <3>1
  <2> QED
    BY <2>1, <2>2
<1>4. CASE op \notin {"div", "rem"}
  <2>1. \E numbers : Compute(op, m, n) = Whole(numbers)
    BY <1>4 DEF Compute, Operations
  <2> QED
    BY <1>1, <2>1
<1> QED
  BY <1>3, <1>4

LEMMA ComputedOut ==
  ASSUME NEW op \in Operations, NEW M \in SUBSET Number, NEW N \in SUBSET Number, NEW a \in Computed(op, M, N)
  PROVE  /\ a.out \in {"run", "killed", "thrown"}
         /\ a.out = "run" => a.text # <<>>
         /\ a.out = "thrown" => M = {} \/ N = {}
         /\ a.out = "killed" => op \in {"div", "rem"} /\ \E m \in M, n \in N : Unquotable(m, n)
<1>1. CASE M = {} \/ N = {}
  BY <1>1 DEF Computed, Thrown
<1>2. CASE ~(M = {} \/ N = {})
  <2>1. PICK m \in M, n \in N : a \in Compute(op, m, n)
    BY <1>2 DEF Computed
  <2>2. m \in Number /\ n \in Number
    OBVIOUS
  <2>3. /\ a.out \in {"run", "killed"}
        /\ a.out = "run" => a.text # <<>>
        /\ a.out = "killed" => op \in {"div", "rem"} /\ Unquotable(m, n)
    BY <2>1, <2>2, ComputeOut
  <2> QED
    BY <2>1, <2>3
<1> QED
  BY <1>1, <1>2

LEMMA RealOut ==
  ASSUME NEW a \in RealTexts
  PROVE  a.out = "run" /\ a.text # <<>>
<1>1. PICK c \in Reals : a = Text(c)
  BY DEF RealTexts
<1>2. c # <<>>
  BY NumeralsAssumption
<1>3. Text(c).out = "run" /\ Text(c).text = c
  BY DEF Text
<1> QED
  BY <1>1, <1>2, <1>3

LEMMA OnRealsOut ==
  ASSUME NEW M, NEW N, NEW a \in OnReals(M, N)
  PROVE  /\ a.out \in {"run", "thrown"}
         /\ a.out = "run" => a.text # <<>>
         /\ a.out = "thrown" => M = {} \/ N = {}
<1>1. CASE M = {} \/ N = {}
  BY <1>1 DEF OnReals, Thrown
<1>2. CASE ~(M = {} \/ N = {})
  BY <1>2, RealOut DEF OnReals
<1> QED
  BY <1>1, <1>2

\* Answers are those of one of the branches; those of the one that applies when
\* no other does.
LEMMA AnsweredFrom ==
  ASSUME NEW i, NEW u, NEW f, NEW d
  PROVE  /\ \A a \in Answered(i, u, f, d) : a \in NoAnswer \/ a \in i \/ a \in u \/ a \in f \/ a \in d
         /\ i = {} /\ u = {} /\ f = {} => Answered(i, u, f, d) = IF d = {} THEN NoAnswer ELSE d
         /\ i = {} /\ u = {} /\ d = {} => Answered(i, u, f, d) = IF f = {} THEN NoAnswer ELSE f
         /\ u = {} /\ f = {} /\ d = {} => Answered(i, u, f, d) = IF i = {} THEN NoAnswer ELSE i
<1>1. \A s, b : \A a \in Override(s, b) : a \in s \/ a \in b
  BY DEF Override
<1>2. \A s : Override(s, {}) = s
  BY DEF Override
<1>3. \A b : Override(NoAnswer, b) = IF b = {} THEN NoAnswer ELSE b
  <2>1. {a \in NoAnswer : a.out = "run"} = NoAnswer /\ NoAnswer # {}
    BY DEF NoAnswer, Text
  <2> QED
    BY <2>1 DEF Override
<1>4. \A a \in Answered(i, u, f, d) : a \in NoAnswer \/ a \in i \/ a \in u \/ a \in f \/ a \in d
  BY <1>1 DEF Answered
<1> QED
  BY <1>2, <1>3, <1>4 DEF Answered

LEMMA NoAnswerOut ==
  ASSUME NEW a \in NoAnswer
  PROVE  a.out = "run" /\ a.text = <<>>
BY DEF NoAnswer, Text

\* What makes a conversion throw.
Bad(c) == Misread(c) \/ TooLarge(c)

\* The answers of arithmetic on tagged contents.
LEMMA TaggedOut ==
  ASSUME NEW op \in Operations, NEW c \in Seq(STRING), NEW d \in Seq(STRING), NEW a \in Tagged(op, c, d)
  PROVE  /\ a.out \in {"run", "killed", "thrown"}
         /\ a.out = "thrown" => Bad(c) \/ Bad(d)
         /\ a.out = "killed" => /\ op \in {"div", "rem"} /\ Unquotable(NumberIn(c), NumberIn(d))
                                /\ {NumberIn(c), NumberIn(d)} \subseteq Number
<1> DEFINE i == IF ScLinkContentIsInt(c) /\ ScLinkContentIsInt(d)
                THEN Computed(op, ScLinkGetContentInt(c), ScLinkGetContentInt(d)) ELSE {}
           u == IF ScLinkContentIsUint(c) /\ ScLinkContentIsUint(d)
                THEN Computed(IF op = "pow" THEN "mult" ELSE op, ScLinkGetContentUint(c), ScLinkGetContentUint(d)) ELSE {}
           f == IF ScLinkContentIsFloat(c) /\ ScLinkContentIsFloat(d)
                THEN OnReals(ScLinkGetContentFloat(c), ScLinkGetContentFloat(d)) ELSE {}
           e == IF ScLinkContentIsDouble(c) /\ ScLinkContentIsDouble(d)
                THEN OnReals(ScLinkGetContentDouble(c), ScLinkGetContentDouble(d)) ELSE {}
<1>0. Tagged(op, c, d) = Answered(i, u, f, e)
  BY DEF Tagged
<1>1. \A s \in {c, d} :
        /\ ScLinkGetContentInt(s) \in SUBSET Number /\ ScLinkGetContentInt(s) \subseteq {NumberIn(s)}
        /\ ScLinkGetContentUint(s) \in SUBSET Number /\ ScLinkGetContentUint(s) \subseteq {NumberIn(s)}
  BY OneNumber
<1>2. CASE a \in NoAnswer
  BY <1>2, NoAnswerOut
<1>3. CASE a \in i
  <2>1. ScLinkContentIsInt(c) /\ ScLinkContentIsInt(d) /\ a \in Computed(op, ScLinkGetContentInt(c), ScLinkGetContentInt(d))
    BY <1>3
  <2> HIDE DEF i, u, f, e
  <2>2. /\ a.out \in {"run", "killed", "thrown"}
        /\ a.out = "thrown" => ScLinkGetContentInt(c) = {} \/ ScLinkGetContentInt(d) = {}
        /\ a.out = "killed" => op \in {"div", "rem"} /\ \E m \in ScLinkGetContentInt(c), n \in ScLinkGetContentInt(d) : Unquotable(m, n)
    BY <1>1, <2>1, ComputedOut
  <2>3. (ScLinkGetContentInt(c) = {} => Bad(c)) /\ (ScLinkGetContentInt(d) = {} => Bad(d))
    BY <2>1, ThrownAt DEF Bad
  <2> QED
    BY <1>1, <2>2, <2>3
<1>4. CASE a \in u
  <2> DEFINE oq == IF op = "pow" THEN "mult" ELSE op
  <2>1. ScLinkContentIsUint(c) /\ ScLinkContentIsUint(d) /\ a \in Computed(oq, ScLinkGetContentUint(c), ScLinkGetContentUint(d))
    BY <1>4
  <2>a. oq \in Operations /\ (oq \in {"div", "rem"} => op \in {"div", "rem"})
    BY DEF Operations
  <2> HIDE DEF i, u, f, e, oq
  <2>2. /\ a.out \in {"run", "killed", "thrown"}
        /\ a.out = "killed" => oq \in {"div", "rem"} /\ \E m \in ScLinkGetContentUint(c), n \in ScLinkGetContentUint(d) : Unquotable(m, n)
    BY <1>1, <2>1, <2>a, ComputedOut
  <2>3. Bad(c)
    BY <2>1, ThrownAt DEF Bad
  <2> QED
    BY <1>1, <2>a, <2>2, <2>3
<1>5. CASE a \in f
  <2>1. ScLinkContentIsFloat(c) /\ ScLinkContentIsFloat(d) /\ a \in OnReals(ScLinkGetContentFloat(c), ScLinkGetContentFloat(d))
    BY <1>5
  <2> QED
    BY <2>1, OnRealsOut, ThrownAt DEF Bad
<1>6. CASE a \in e
  <2>1. ScLinkContentIsDouble(c) /\ ScLinkContentIsDouble(d) /\ a \in OnReals(ScLinkGetContentDouble(c), ScLinkGetContentDouble(d))
    BY <1>6
  <2> QED
    BY <2>1, OnRealsOut, ThrownAt DEF Bad
<1> HIDE DEF i, u, f, e
<1> QED
  BY <1>0, <1>2, <1>3, <1>4, <1>5, <1>6, AnsweredFrom

-----------------------------------------------------------------------------
\* Division of `int's: what the quotient is, said without dividing.
LEMMA Multiple ==
  ASSUME NEW b \in Nat, b > 0, NEW k \in Int, b * k < b, b * k > -b
  PROVE  k = 0
<1>1. CASE k >= 1
  <2>1. b * (k - 1) >= 0
    BY <1>1
  <2>2. b * (k - 1) = b * k - b
    OBVIOUS
  <2> QED
    BY <2>1, <2>2
<1>2. CASE k <= -1
  <2>1. b * (-k - 1) >= 0
    BY <1>2
  <2>2. b * (-k - 1) = -(b * k) - b
    OBVIOUS
  <2> QED
    BY <2>1, <2>2
<1> QED
  BY <1>1, <1>2

LEMMA DivUnique ==
  ASSUME NEW a \in Nat, NEW b \in Nat, NEW q \in Int, NEW r \in Nat, a = b * q + r, r < b
  PROVE  a \div b = q
<1> DEFINE p == a \div b
           s == a % b
<1>1. p \in Int /\ s \in 0 .. b - 1 /\ a = b * p + s
  OBVIOUS
<1> HIDE DEF p, s
<1>2. b * (p - q) = b * p - b * q
  BY <1>1
<1>3. b * p - b * q = r - s
  BY <1>1
<1>4. b * (p - q) < b /\ b * (p - q) > -b /\ b > 0 /\ p - q \in Int
  BY <1>1, <1>2, <1>3
<1>5. p - q = 0
  BY <1>4, Multiple
<1> QED
  BY <1>1, <1>5 DEF p

LEMMA QuotientUnique ==
  ASSUME NEW a \in Int, NEW b \in Int, NEW q \in Int, NEW r \in Int,
         a = b * q + r, Magnitude(r) < Magnitude(b), r * a >= 0
  PROVE  b # 0 /\ Quotient(a, b) = q
<1>1. b # 0
  BY DEF Magnitude
<1>2. CASE a = 0
  <2>1. q = 0
    <3>1. b * q = -r
      BY <1>2
    <3>2. CASE b > 0
      <4>1. b * q < b /\ b * q > -b
        BY <3>1, <3>2 DEF Magnitude
      <4> QED
        BY <3>2, <4>1, Multiple
    <3>3. CASE b < 0
      <4>1. (-b) * q = r
        BY <3>1
      <4>2. (-b) * q < -b /\ (-b) * q > -(-b) /\ -b \in Nat /\ -b > 0
        BY <3>3, <4>1 DEF Magnitude
      <4> QED
        BY <4>2, Multiple
    <3> QED
      BY <1>1, <3>2, <3>3
  <2>2. 0 \div Magnitude(b) = 0
    <3>1. Magnitude(b) \in Nat /\ Magnitude(b) > 0
      BY <1>1 DEF Magnitude
    <3> HIDE DEF Magnitude
    <3>2. 0 = Magnitude(b) * 0 + 0
      BY <3>1
    <3> QED
      BY <3>1, <3>2, DivUnique
  <2> QED
    BY <1>1, <1>2, <2>1, <2>2 DEF Quotient, Magnitude
<1>3. CASE a > 0
  <2>1. r >= 0
    <3>1. r < 0 => r * a < 0
      BY <1>3
    <3> QED
      BY <3>1
  <2>2. CASE b > 0
    <3>1. a \div b = q
      BY <1>3, <2>1, <2>2, DivUnique DEF Magnitude
    <3> QED
      BY <1>1, <1>3, <2>2, <3>1 DEF Quotient, Magnitude
  <2>3. CASE b < 0
    <3>1. a = (-b) * (-q) + r
      OBVIOUS
    <3>2. a \div (-b) = -q
      BY <1>3, <2>1, <2>3, <3>1, DivUnique DEF Magnitude
    <3> QED
      BY <1>1, <1>3, <2>3, <3>2 DEF Quotient, Magnitude
  <2> QED
    BY <1>1, <2>2, <2>3
<1>4. CASE a < 0
  <2>1. -r >= 0
    <3>1. r > 0 => r * a < 0
      BY <1>4
    <3> QED
      BY <3>1
  <2>2. CASE b > 0
    <3>1. -a = b * (-q) + (-r)
      OBVIOUS
    <3>2. (-a) \div b = -q
      BY <1>4, <2>1, <2>2, <3>1, DivUnique DEF Magnitude
    <3> QED
      BY <1>1, <1>4, <2>2, <3>2 DEF Quotient, Magnitude
  <2>3. CASE b < 0
    <3>1. -a = (-b) * q + (-r)
      OBVIOUS
    <3>2. (-a) \div (-b) = q
      BY <1>4, <2>1, <2>3, <3>1, DivUnique DEF Magnitude
    <3> QED
      BY <1>1, <1>4, <2>3, <3>2 DEF Quotient, Magnitude
  <2> QED
    BY <1>1, <2>2, <2>3
<1> QED
  BY <1>2, <1>3, <1>4

\* The operation of each operator on two numbers.
Computes(k, op) ==
  \/ k = "contAdd" /\ op = "add"
  \/ k = "contSub" /\ op = "sub"
  \/ k = "contMult" /\ op = "mult"
  \/ k = "contPow" /\ op = "pow"
  \/ k \in {"contDiv", "contDivInt"} /\ op = "div"
  \/ k = "contDivRem" /\ op = "rem"

LEMMA FitNumber ==
  ASSUME NEW n \in Number
  PROVE  Whole(Fit(n)) = {Text(<<ToString(n)>>)}
BY DEF Whole, Fit

\* Where there is an exact answer it is the one computed.
LEMMA ComputeExact ==
  ASSUME NEW k, NEW op, Computes(k, op), NEW a \in Number, NEW b \in Number, NEW n \in Number, Exact(k, n, a, b)
  PROVE  Compute(op, a, b) = {Text(<<ToString(n)>>)}
<1>1. a \in Int /\ b \in Int /\ n \in Int /\ Number \subseteq Int
  BY NumberAssumption
<1>2. CASE op \in {"add", "sub", "mult"}
  <2>1. CASE op = "add"
    <3>1. n = a + b
      BY <2>1 DEF Exact, Computes
    <3>2. Compute(op, a, b) = Whole(Fit(a + b))
      BY <2>1 DEF Compute
    <3> QED
      BY <3>1, <3>2, FitNumber
  <2>2. CASE op = "sub"
    <3>1. n + b = a
      BY <2>2 DEF Exact, Computes
    <3>2. Compute(op, a, b) = Whole(Fit(a - b))
      BY <2>2 DEF Compute
    <3>3. a - b = n
      BY <1>1, <3>1
    <3> QED
      BY <3>2, <3>3, FitNumber
  <2>3. CASE op = "mult"
    <3>1. n = a * b
      BY <2>3 DEF Exact, Computes
    <3>2. Compute(op, a, b) = Whole(Fit(a * b))
      BY <2>3 DEF Compute
    <3> QED
      BY <3>1, <3>2, FitNumber
  <2> QED
    BY <1>2, <2>1, <2>2, <2>3
<1>3. CASE op = "pow"
  <2>1. b >= 0 /\ n = IF b = 0 THEN 1 ELSE a ^ b
    BY <1>3 DEF Exact, Computes
  <2>2. Compute(op, a, b) = Whole(Power(a, b))
    BY <1>3 DEF Compute
  <2>3. Power(a, b) = {n}
    <3>1. CASE b = 0
      BY <2>1, <3>1 DEF Power
    <3>2. CASE b # 0
      <4>1. b > 0 /\ n = a ^ b
        BY <1>1, <2>1, <3>2
      <4>2. Power(a, b) = Fit(a ^ b)
        BY <1>1, <4>1 DEF Power
      <4> QED
        BY <4>1, <4>2 DEF Fit
    <3> QED
      BY <3>1, <3>2
  <2> QED
    BY <2>2, <2>3 DEF Whole
<1>4. CASE op = "div"
  <2>1. PICK r \in Number : a = b * n + r /\ Magnitude(r) < Magnitude(b) /\ r * a >= 0
    BY <1>4 DEF Exact, Computes
  <2>2. b # 0 /\ Quotient(a, b) = n
    BY <1>1, <2>1, QuotientUnique
  <2>3. Compute(op, a, b) = Whole(Fit(n))
    BY <1>4, <2>2 DEF Compute
  <2> QED
    BY <2>3, FitNumber
<1>5. CASE op = "rem"
  <2>1. PICK q \in Number : a = b * q + n /\ Magnitude(n) < Magnitude(b) /\ n * a >= 0
    BY <1>5 DEF Exact, Computes
  <2>2. b # 0 /\ Quotient(a, b) = q
    BY <1>1, <2>1, QuotientUnique
  <2>3. Compute(op, a, b) = Whole(Fit(a - b * q))
    BY <1>5, <2>2 DEF Compute
  <2>4. a - b * q = n
    BY <1>1, <2>1
  <2> QED
    BY <2>3, <2>4, FitNumber
<1> QED
  BY <1>2, <1>3, <1>4, <1>5 DEF Computes

\* What can not be divided has no exact quotient and no exact remainder.
LEMMA NotDivided ==
  ASSUME NEW k \in {"contDiv", "contDivInt", "contDivRem"}, NEW a \in Number, NEW b \in Number, Unquotable(a, b)
  PROVE  \A n \in Number : ~Exact(k, n, a, b)
<1> SUFFICES ASSUME NEW n \in Number, Exact(k, n, a, b)
             PROVE  FALSE
  OBVIOUS
<1>1. a \in Int /\ b \in Int /\ n \in Int /\ Number \subseteq Int
  BY NumberAssumption
<1>2. CASE k \in {"contDiv", "contDivInt"}
  <2>1. PICK r \in Number : a = b * n + r /\ Magnitude(r) < Magnitude(b) /\ r * a >= 0
    BY <1>2 DEF Exact
  <2> QED
    BY <1>1, <2>1, QuotientUnique DEF Unquotable
<1>3. CASE k = "contDivRem"
  <2>1. PICK q \in Number : a = b * q + n /\ Magnitude(n) < Magnitude(b) /\ n * a >= 0
    BY <1>3 DEF Exact
  <2> QED
    BY <1>1, <2>1, QuotientUnique DEF Unquotable
<1> QED
  BY <1>2, <1>3

LEMMA ComputedExact ==
  ASSUME NEW k, NEW op, Computes(k, op), NEW a \in Number, NEW b \in Number, NEW n \in Number, Exact(k, n, a, b)
  PROVE  Computed(op, {a}, {b}) = {Text(<<ToString(n)>>)}
<1>1. Computed(op, {a}, {b}) = Compute(op, a, b)
  BY DEF Computed
<1> QED
  BY <1>1, ComputeExact

LEMMA NotMisread ==
  ASSUME NEW c \in Seq(STRING), ~Misread(c)
  PROVE  /\ ScLinkContentIsInt(c) <=> Form(c) = "int"
         /\ ~ScLinkContentIsUint(c)
         /\ ScLinkContentIsFloat(c) <=> Form(c) = "float"
         /\ ScLinkContentIsDouble(c) <=> Form(c) = "double"
         /\ Plain(c) <=> Form(c) \in {"integer", "real"}
<1>1. Form(c) \in {"integer", "real", "int", "uint", "float", "double", "text"} /\ Form(c) # "uint"
  BY OneForm DEF Misread
<1>2. Plain(c) <=> Form(c) \in {"integer", "real"}
  BY OneForm DEF Plain
<1>3. CASE Form(c) \in {"integer", "real"}
  BY <1>2, <1>3, ReadOfForm DEF Tests
<1>4. CASE Form(c) = "int"
  BY <1>2, <1>4, ReadOfForm DEF Tests
<1>5. CASE Form(c) = "float"
  BY <1>2, <1>5, ReadOfForm DEF Tests
<1>6. CASE Form(c) = "double"
  BY <1>2, <1>6, ReadOfForm DEF Tests
<1>7. CASE Form(c) = "text"
  BY <1>2, <1>7, ReadOfForm DEF Tests
<1> QED
  BY <1>1, <1>3, <1>4, <1>5, <1>6, <1>7

\* Arithmetic on tagged contents that are not misread, by their forms.
LEMMA TaggedByForm ==
  ASSUME NEW op \in Operations, NEW c \in Seq(STRING), NEW d \in Seq(STRING), ~Misread(c), ~Misread(d)
  PROVE  /\ Form(c) = "int" /\ Form(d) = "int" =>
              LET s == Computed(op, {NumberIn(c)} \cap Number, {NumberIn(d)} \cap Number)
              IN  Tagged(op, c, d) = IF s = {} THEN NoAnswer ELSE s
         /\ Form(c) = Form(d) /\ Form(c) \in {"float", "double"} =>
              Tagged(op, c, d) = IF RealTexts = {} THEN NoAnswer ELSE RealTexts
         /\ Form(c) # Form(d) \/ Form(c) \in {"integer", "real", "text"} => Tagged(op, c, d) = NoAnswer
<1> DEFINE i == IF ScLinkContentIsInt(c) /\ ScLinkContentIsInt(d)
                THEN Computed(op, ScLinkGetContentInt(c), ScLinkGetContentInt(d)) ELSE {}
           u == IF ScLinkContentIsUint(c) /\ ScLinkContentIsUint(d)
                THEN Computed(IF op = "pow" THEN "mult" ELSE op, ScLinkGetContentUint(c), ScLinkGetContentUint(d)) ELSE {}
           f == IF ScLinkContentIsFloat(c) /\ ScLinkContentIsFloat(d)
                THEN OnReals(ScLinkGetContentFloat(c), ScLinkGetContentFloat(d)) ELSE {}
           e == IF ScLinkContentIsDouble(c) /\ ScLinkContentIsDouble(d)
                THEN OnReals(ScLinkGetContentDouble(c), ScLinkGetContentDouble(d)) ELSE {}
<1>0. Tagged(op, c, d) = Answered(i, u, f, e)
  BY DEF Tagged
<1>1. /\ ScLinkContentIsInt(c) <=> Form(c) = "int"
      /\ ScLinkContentIsFloat(c) <=> Form(c) = "float"
      /\ ScLinkContentIsDouble(c) <=> Form(c) = "double"
      /\ ScLinkContentIsInt(d) <=> Form(d) = "int"
      /\ ScLinkContentIsFloat(d) <=> Form(d) = "float"
      /\ ScLinkContentIsDouble(d) <=> Form(d) = "double"
  BY NotMisread
<1>2. u = {}
  BY NotMisread
<1>3. i = IF Form(c) = "int" /\ Form(d) = "int" THEN Computed(op, ScLinkGetContentInt(c), ScLinkGetContentInt(d)) ELSE {}
  BY <1>1
<1>4. f = IF Form(c) = "float" /\ Form(d) = "float" THEN OnReals(ScLinkGetContentFloat(c), ScLinkGetContentFloat(d)) ELSE {}
  BY <1>1
<1>5. e = IF Form(c) = "double" /\ Form(d) = "double" THEN OnReals(ScLinkGetContentDouble(c), ScLinkGetContentDouble(d)) ELSE {}
  BY <1>1
<1> HIDE DEF i, u, f, e
<1>6. Form(c) # Form(d) \/ Form(c) \in {"integer", "real", "text"} => Tagged(op, c, d) = NoAnswer
  BY <1>0, <1>2, <1>3, <1>4, <1>5, AnsweredFrom
<1>7. ASSUME Form(c) = "int", Form(d) = "int"
      PROVE  LET s == Computed(op, {NumberIn(c)} \cap Number, {NumberIn(d)} \cap Number)
             IN  Tagged(op, c, d) = IF s = {} THEN NoAnswer ELSE s
  <2>1. i = Computed(op, {NumberIn(c)} \cap Number, {NumberIn(d)} \cap Number)
    BY <1>3, <1>7, ReadOfForm
  <2>2. f = {} /\ e = {}
    BY <1>4, <1>5, <1>7
  <2> QED
    BY <1>0, <1>2, <2>1, <2>2, AnsweredFrom
<1>8. ASSUME Form(c) = "float", Form(d) = "float"
      PROVE  Tagged(op, c, d) = IF RealTexts = {} THEN NoAnswer ELSE RealTexts
  <2>1. f = OnReals({NumberIn(c)}, {NumberIn(d)})
    BY <1>4, <1>8, ReadOfForm
  <2>2. f = RealTexts
    BY <2>1 DEF OnReals
  <2>3. i = {} /\ e = {}
    BY <1>3, <1>5, <1>8
  <2> QED
    BY <1>0, <1>2, <2>2, <2>3, AnsweredFrom
<1>9. ASSUME Form(c) = "double", Form(d) = "double"
      PROVE  Tagged(op, c, d) = IF RealTexts = {} THEN NoAnswer ELSE RealTexts
  <2>1. e = OnReals({NumberIn(c)}, {NumberIn(d)})
    BY <1>5, <1>9, ReadOfForm
  <2>2. e = RealTexts
    BY <2>1 DEF OnReals
  <2>3. i = {} /\ f = {}
    BY <1>3, <1>4, <1>9
  <2> QED
    BY <1>0, <1>2, <2>2, <2>3, AnsweredFrom
<1> QED
  BY <1>6, <1>7, <1>8, <1>9

LEMMA UntaggedByForm ==
  ASSUME NEW op, NEW c, NEW d, Plain(c), Plain(d)
  PROVE  /\ Form(c) = "integer" /\ Form(d) = "integer" => Untagged(op, c, d) = Computed(op, AtoI(c), AtoI(d))
         /\ Form(c) = "real" /\ Form(d) = "real" => Untagged(op, c, d) = RealTexts
         /\ Form(c) # Form(d) => Untagged(op, c, d) = NoAnswer
         /\ {Form(c), Form(d)} \subseteq {"integer", "real"}
<1>1. /\ Form(c) = "integer" <=> PlainInt(c)
      /\ Form(c) = "real" <=> PlainDouble(c)
      /\ Form(d) = "integer" <=> PlainInt(d)
      /\ Form(d) = "real" <=> PlainDouble(d)
  BY OneForm
<1>2. {Form(c), Form(d)} \subseteq {"integer", "real"}
  BY <1>1 DEF Plain
<1>3. Form(c) = "integer" /\ Form(d) = "integer" => Untagged(op, c, d) = Computed(op, AtoI(c), AtoI(d))
  BY <1>1 DEF Untagged
<1>4. ~(PlainInt(c) /\ PlainInt(d)) /\ ~(PlainDouble(c) /\ PlainDouble(d)) => Untagged(op, c, d) = NoAnswer
  BY DEF Untagged
<1>5. ~(PlainInt(c) /\ PlainInt(d)) /\ PlainDouble(c) /\ PlainDouble(d) => Untagged(op, c, d) = RealTexts
  BY DEF Untagged
<1> QED
  BY <1>1, <1>2, <1>3, <1>4, <1>5

-----------------------------------------------------------------------------
\* What an answer becomes: the content of the new link that is the value of the
\* first operand.
LEMMA AnswerGiven ==
  ASSUME NEW x, NEW r, NEW c \in Seq(STRING),
         LinkSound(x), r = ResetValues(x), Cleared(x, r), 1 \in DOMAIN x.operand
  PROVE  LET y == Finish(Give(r, c), "success")
         IN  y.out = "success" /\ AnswerOf(y) = c
<1> DEFINE e == r.fresh
           l == GenerateLink(r, c)
           m == ResetValue(l, 1)
           s == SetValue(m, 1, e)
           y == Finish(s, "success")
<1>1. LinkSound(r) /\ r.out = "run" /\ DOMAIN r.operand = DOMAIN x.operand
  BY ClearedSound
<1>2. LinkSound(l) /\ LinkStep(r, c, l)
  BY <1>1, LinkMade
<1> HIDE DEF l
<1>3. l.out = "run" /\ l.operand = r.operand /\ e \in Exists(l)
  BY <1>1, <1>2 DEF LinkStep, NodeStep, Exists
<1>4. LinkSound(m) /\ Carries(l, m) /\ EmptyStep(l, m)
  BY <1>1, <1>2, <1>3, Emptied
<1> HIDE DEF m
<1>5. m.out = "run" /\ e \in Exists(m) /\ 1 \in DOMAIN m.operand /\ m.operand = [r.operand EXCEPT ![1].value = Nothing]
  <2>2. IsOperand(r, r.operand[1])
    BY <1>1 DEF LinkSound, Typed
  <2> QED
    BY <1>1, <1>3, <1>4, <2>2 DEF EmptyStep, SameElements, Exists, IsOperand, Operands
<1>6. LinkSound(s) /\ Carries(m, s) /\ ValueStep(m, 1, e, s)
  BY <1>4, <1>5, ValueSound
<1> HIDE DEF s
<1>7. y.out = "success" /\ Carries(s, y) /\ y.operand = s.operand
  BY <1>6, FinishSound
<1> HIDE DEF y
<1>8. Value(y, 1) = e
  <2>1. y.operand = [m.operand EXCEPT ![1].value = e]
    BY <1>6, <1>7 DEF ValueStep
  <2>2. IsOperand(m, m.operand[1])
    BY <1>4, <1>5 DEF LinkSound, Typed
  <2> QED
    BY <1>5, <2>1, <2>2 DEF Value, IsOperand, Operands
<1>9. Content(y, e) = c
  <2>1. y.content = l.content
    BY <1>4, <1>6, <1>7 DEF Carries
  <2>2. l.content = [z \in DOMAIN r.content \cup {e} |-> IF z = e THEN c ELSE r.content[z]]
    BY <1>2 DEF LinkStep
  <2> QED
    BY <2>1, <2>2 DEF Content
<1>10. y.out = "success" /\ AnswerOf(y) = c
  BY <1>7, <1>8, <1>9 DEF AnswerOf
<1> QED
  BY <1>10 DEF y, s, m, l, Give

LEMMA Concluded ==
  ASSUME NEW x, NEW r, NEW answers, AreAnswers(answers), NEW y \in Conclude(r, answers),
         LinkSound(x), r = ResetValues(x), Cleared(x, r), 1 \in DOMAIN x.operand
  PROVE  \E a \in answers :
           \/ a.out = "run" /\ y.out = "success" /\ AnswerOf(y) = a.text
           \/ a.out \in {"thrown", "killed"} /\ y.out = a.out
<1>1. PICK a \in answers : y = IF a.out = "run" THEN Finish(Give(r, a.text), "success") ELSE Finish(r, a.out)
  BY DEF Conclude
<1>2. IsAnswer(a)
  BY DEF AreAnswers
<1>3. CASE a.out = "run"
  <2>1. a.text \in Seq(STRING)
    BY <1>2 DEF IsAnswer
  <2> QED
    BY <1>1, <1>3, <2>1, AnswerGiven
<1>4. CASE a.out # "run"
  <2>1. LinkSound(r)
    BY ClearedSound
  <2> QED
    BY <1>1, <1>2, <1>4, <2>1, FinishSound DEF IsAnswer
<1> QED
  BY <1>3, <1>4

\* The texts of two operands and how arithmetic on them may end.
Faultless(y, c, d) ==
  /\ y.out \in {"success", "unsuccess", "thrown", "killed"}
  /\ y.out = "thrown" => Bad(c) \/ Bad(d)

\* An integer that no `int' holds.
Excess(c) == Form(c) = "integer" /\ NumberIn(c) \notin Number

\* Integers of one form are answered exactly.
RightAnswer(k, c, d, y) ==
  Form(c) = Form(d) /\ Form(c) \in {"int", "integer"} /\ {NumberIn(c), NumberIn(d)} \subseteq Number
    /\ (k \in Whole2 => Form(c) = "int") =>
    \A n \in Number : Exact(k, n, NumberIn(c), NumberIn(d)) => y.out = "success" /\ AnswerOf(y) = <<ToString(n)>>

\* How arithmetic may end.
BinaryEnds(k, c, d, y) ==
  /\ Faultless(y, c, d)
  /\ y.out = "killed" =>
       /\ k = "contDiv"
       /\ Excess(c) \/ Excess(d) \/ \A n \in Number : ~Exact(k, n, NumberIn(c), NumberIn(d))
  /\ RightAnswer(k, c, d, y)
  /\ ~Misread(c) /\ ~Misread(d) =>
       /\ y.out = "success" /\ AnswerOf(y) = <<>> <=> Mixed(c, d)
       /\ Form(c) # Form(d) /\ ~Mixed(c, d) => y.out = "unsuccess"

\* What arithmetic does with the texts of its operands.
ArithmeticBody(r, op, c, d) ==
  IF Tagged(op, c, d) # NoAnswer THEN Conclude(r, Tagged(op, c, d))
  ELSE IF Plain(c) /\ Plain(d) THEN Conclude(r, Untagged(op, c, d))
  ELSE Unsuccess(r)

\* The answers of arithmetic on plain contents.
LEMMA UntaggedOut ==
  ASSUME NEW op \in Operations, NEW c \in Seq(STRING), NEW d \in Seq(STRING), Plain(c), Plain(d),
         NEW a \in Untagged(op, c, d)
  PROVE  /\ a.out \in {"run", "killed"}
         /\ a.out = "killed" => /\ op \in {"div", "rem"}
                                /\ \/ Excess(c) \/ Excess(d)
                                   \/ /\ Unquotable(NumberIn(c), NumberIn(d))
                                      /\ {NumberIn(c), NumberIn(d)} \subseteq Number
         /\ a.out = "run" /\ ~Mixed(c, d) => a.text # <<>>
<1>1. {Form(c), Form(d)} \subseteq {"integer", "real"}
  BY UntaggedByForm
<1>2. CASE Form(c) = "integer" /\ Form(d) = "integer"
  <2>1. a \in Computed(op, AtoI(c), AtoI(d))
    BY <1>2, UntaggedByForm
  <2>2. AtoI(c) \in SUBSET Number /\ AtoI(d) \in SUBSET Number
    BY NumbersConverted
  <2>3. AtoI(c) # {} /\ AtoI(d) # {}
    BY ThrownAt
  <2>4. /\ a.out \in {"run", "killed", "thrown"}
        /\ a.out = "run" => a.text # <<>>
        /\ a.out = "thrown" => AtoI(c) = {} \/ AtoI(d) = {}
        /\ a.out = "killed" => op \in {"div", "rem"} /\ \E m \in AtoI(c), n \in AtoI(d) : Unquotable(m, n)
    BY <2>1, <2>2, ComputedOut
  <2>5. NumberIn(c) \in Number => AtoI(c) \subseteq {NumberIn(c)}
    BY OneNumber
  <2>6. NumberIn(d) \in Number => AtoI(d) \subseteq {NumberIn(d)}
    BY OneNumber
  <2> QED
    BY <1>2, <2>3, <2>4, <2>5, <2>6 DEF Excess
<1>3. CASE Form(c) = "real" /\ Form(d) = "real"
  <2>1. a \in RealTexts
    BY <1>3, UntaggedByForm
  <2> QED
    BY <2>1, RealOut
<1>4. CASE Form(c) # Form(d)
  <2>1. a \in NoAnswer
    BY <1>4, UntaggedByForm
  <2>2. Mixed(c, d)
    BY <1>1, <1>4 DEF Mixed
  <2> QED
    BY <2>1, <2>2, NoAnswerOut
<1> QED
  BY <1>1, <1>2, <1>3, <1>4

LEMMA ArithmeticEnds ==
  ASSUME NEW x, NEW r, NEW k \in Binary, NEW op \in Operations, Computes(k, op),
         NEW c \in Seq(STRING), NEW d \in Seq(STRING), NEW y \in ArithmeticBody(r, op, c, d),
         LinkSound(x), r = ResetValues(x), Cleared(x, r), 1 \in DOMAIN x.operand
  PROVE  BinaryEnds(k, c, d, y)
<1> DEFINE tagged == Tagged(op, c, d)
           plain  == Untagged(op, c, d)
           a      == NumberIn(c)
           b      == NumberIn(d)
<1>1. AreAnswers(tagged) /\ AreAnswers(plain)
  BY TaggedAnswers, UntaggedAnswers
<1>2. k # "contDiv" => op \notin {"div", "rem"}
  BY DEF Computes, Binary
<1>3. k \notin Whole2
  BY DEF Binary, Whole2
<1>4. Unquotable(a, b) /\ {a, b} \subseteq Number /\ k = "contDiv" => \A n \in Number : ~Exact(k, n, a, b)
  BY NotDivided
<1>5. \A s, t : (s = "integer" /\ t = "real") \/ (s = "real" /\ t = "integer") <=> {s, t} = {"integer", "real"}
  <2>1. "integer" # "real"
    OBVIOUS
  <2> QED
    BY <2>1
<1>6. CASE tagged # NoAnswer
  <2>1. y \in Conclude(r, tagged)
    BY <1>6 DEF ArithmeticBody
  <2>2. PICK t \in tagged : \/ t.out = "run" /\ y.out = "success" /\ AnswerOf(y) = t.text
                            \/ t.out \in {"thrown", "killed"} /\ y.out = t.out
    BY <1>1, <2>1, Concluded
  <2>3. /\ t.out \in {"run", "killed", "thrown"}
        /\ t.out = "thrown" => Bad(c) \/ Bad(d)
        /\ t.out = "killed" => op \in {"div", "rem"} /\ Unquotable(a, b) /\ {a, b} \subseteq Number
    BY TaggedOut
  <2>4. Faultless(y, c, d) /\ (y.out = "killed" => k = "contDiv" /\ \A n \in Number : ~Exact(k, n, a, b))
    BY <1>2, <1>4, <2>2, <2>3 DEF Faultless
  <2>5. ASSUME ~Misread(c), ~Misread(d)
        PROVE  /\ ~(y.out = "success" /\ AnswerOf(y) = <<>>)
               /\ Form(c) = Form(d) /\ ~Mixed(c, d)
               /\ Form(c) = "int" => t \in Computed(op, {a} \cap Number, {b} \cap Number)
               /\ Form(c) # "integer"
    <3>1. Form(c) = Form(d) /\ Form(c) \notin {"integer", "real", "text"}
      BY <1>6, <2>5, TaggedByForm
    <3>2. Form(c) \in {"int", "float", "double"}
      BY <2>5, <3>1, OneForm DEF Misread
    <3>3. CASE Form(c) = "int"
      <4>1. t \in Computed(op, {a} \cap Number, {b} \cap Number)
        BY <1>6, <2>5, <3>1, <3>3, TaggedByForm
      <4>2. t.out = "run" => t.text # <<>>
        BY <4>1, ComputedOut
      <4> QED
        BY <2>2, <3>1, <4>1, <4>2 DEF Mixed
    <3>4. CASE Form(c) \in {"float", "double"}
      <4>1. t \in RealTexts
        BY <1>6, <2>5, <3>1, <3>4, TaggedByForm
      <4> QED
        BY <2>2, <3>1, <3>4, <4>1, RealOut DEF Mixed
    <3> QED
      BY <3>2, <3>3, <3>4
  <2>6. RightAnswer(k, c, d, y)
    <3> SUFFICES ASSUME Form(c) = Form(d), Form(c) \in {"int", "integer"}, {a, b} \subseteq Number,
                        NEW n \in Number, Exact(k, n, a, b)
                 PROVE  y.out = "success" /\ AnswerOf(y) = <<ToString(n)>>
      BY DEF RightAnswer
    <3>1. ~Misread(c) /\ ~Misread(d)
      BY DEF Misread
    <3>2. t \in Computed(op, {a}, {b})
      <4>1. {a} \cap Number = {a} /\ {b} \cap Number = {b}
        OBVIOUS
      <4> QED
        BY <2>5, <3>1, <4>1
    <3>3. t = Text(<<ToString(n)>>)
      BY <3>2, ComputedExact
    <3> QED
      BY <2>2, <3>3 DEF Text
  <2> QED
    BY <2>4, <2>5, <2>6 DEF BinaryEnds
<1>7. CASE tagged = NoAnswer /\ Plain(c) /\ Plain(d)
  <2>1. y \in Conclude(r, plain)
    BY <1>7 DEF ArithmeticBody
  <2>2. PICK t \in plain : \/ t.out = "run" /\ y.out = "success" /\ AnswerOf(y) = t.text
                           \/ t.out \in {"thrown", "killed"} /\ y.out = t.out
    BY <1>1, <2>1, Concluded
  <2>3. /\ t.out \in {"run", "killed"}
        /\ t.out = "killed" => /\ op \in {"div", "rem"}
                               /\ Excess(c) \/ Excess(d) \/ (Unquotable(a, b) /\ {a, b} \subseteq Number)
        /\ t.out = "run" /\ ~Mixed(c, d) => t.text # <<>>
    BY <1>7, UntaggedOut
  <2>4. Faultless(y, c, d) /\ (y.out = "killed" => k = "contDiv" /\ (Excess(c) \/ Excess(d) \/ \A n \in Number : ~Exact(k, n, a, b)))
    BY <1>2, <1>4, <2>2, <2>3 DEF Faultless
  <2>5. {Form(c), Form(d)} \subseteq {"integer", "real"}
    BY <1>7, UntaggedByForm
  <2>6. y.out = "success" /\ AnswerOf(y) = <<>> <=> Mixed(c, d)
    <3>1. ASSUME Mixed(c, d)
          PROVE  y.out = "success" /\ AnswerOf(y) = <<>>
      <4>1. Form(c) # Form(d)
        BY <3>1 DEF Mixed
      <4>2. t \in NoAnswer
        BY <1>7, <4>1, UntaggedByForm
      <4> QED
        BY <2>2, <4>2, NoAnswerOut
    <3>2. ASSUME ~Mixed(c, d)
          PROVE  ~(y.out = "success" /\ AnswerOf(y) = <<>>)
      BY <2>2, <2>3, <3>2
    <3> QED
      BY <3>1, <3>2
  <2>7. Form(c) # Form(d) => Mixed(c, d)
    BY <2>5 DEF Mixed
  <2>8. RightAnswer(k, c, d, y)
    <3> SUFFICES ASSUME Form(c) = Form(d), Form(c) \in {"int", "integer"}, {a, b} \subseteq Number,
                        NEW n \in Number, Exact(k, n, a, b)
                 PROVE  y.out = "success" /\ AnswerOf(y) = <<ToString(n)>>
      BY DEF RightAnswer
    <3>1. Form(c) = "integer" /\ Form(d) = "integer"
      BY <2>5
    <3>2. t \in Computed(op, AtoI(c), AtoI(d))
      BY <1>7, <3>1, UntaggedByForm
    <3>3. AtoI(c) = {a} /\ AtoI(d) = {b}
      BY <1>7, OneNumber, ThrownAt
    <3>4. t = Text(<<ToString(n)>>)
      BY <3>2, <3>3, ComputedExact
    <3> QED
      BY <2>2, <3>4 DEF Text
  <2> QED
    BY <2>4, <2>6, <2>7, <2>8 DEF BinaryEnds
<1>8. CASE tagged = NoAnswer /\ ~(Plain(c) /\ Plain(d))
  <2>1. y \in Unsuccess(r)
    BY <1>8 DEF ArithmeticBody
  <2>2. y.out = "unsuccess"
    BY <2>1, ClearedSound, FinishSound DEF Unsuccess
  <2>3. ~Mixed(c, d) /\ ~(Form(c) = Form(d) /\ Form(c) = "integer")
    <3>1. Plain(c) <=> Form(c) \in {"integer", "real"}
      BY OneForm DEF Plain
    <3>2. Plain(d) <=> Form(d) \in {"integer", "real"}
      BY OneForm DEF Plain
    <3> QED
      BY <1>8, <3>1, <3>2 DEF Mixed
  <2>4. RightAnswer(k, c, d, y)
    <3> SUFFICES ASSUME Form(c) = Form(d), Form(c) \in {"int", "integer"}, {a, b} \subseteq Number,
                        NEW n \in Number, Exact(k, n, a, b)
                 PROVE  FALSE
      BY DEF RightAnswer
    <3>1. Form(c) = "int" /\ Form(d) = "int" /\ ~Misread(c) /\ ~Misread(d)
      BY <2>3 DEF Misread
    <3>2. {a} \cap Number = {a} /\ {b} \cap Number = {b}
      OBVIOUS
    <3>3. Computed(op, {a} \cap Number, {b} \cap Number) = {Text(<<ToString(n)>>)}
      BY <3>2, ComputedExact
    <3>4. tagged = {Text(<<ToString(n)>>)}
      BY <3>1, <3>3, TaggedByForm
    <3>5. Text(<<ToString(n)>>).text = <<ToString(n)>> /\ <<ToString(n)>> # <<>>
      BY DEF Text
    <3> QED
      BY <1>8, <3>4, <3>5, NoAnswerOut
  <2> QED
    BY <2>2, <2>3, <2>4 DEF BinaryEnds, Faultless
<1> QED
  BY <1>6, <1>7, <1>8

\* Reading a number the way whole divisions do.
LEMMA NumberReadOut ==
  ASSUME NEW c \in Seq(STRING)
  PROVE  /\ NumberRead(c) = {} => Bad(c)
         /\ Form(c) = "int" => NumberRead(c) = {NumberIn(c)} \cap Number
<1> DEFINE holds   == <<ScLinkContentIsInt(c), ScLinkContentIsUint(c),
                        ScLinkContentIsFloat(c), ScLinkContentIsDouble(c)>>
           numbers == <<ScLinkGetContentInt(c), ScLinkGetContentUint(c),
                        Convert(ScLinkGetContentFloat(c)), Convert(ScLinkGetContentDouble(c))>>
           taken   == {i \in 1 .. 4 : holds[i]}
<1>1. NumberRead(c) = IF \E i \in taken : numbers[i] = {} THEN {}
                      ELSE IF taken = {} THEN Number ELSE numbers[Max(taken)]
  BY DEF NumberRead
<1>2. /\ 1 \in taken <=> ScLinkContentIsInt(c)
      /\ 2 \in taken <=> ScLinkContentIsUint(c)
      /\ 3 \in taken <=> ScLinkContentIsFloat(c)
      /\ 4 \in taken <=> ScLinkContentIsDouble(c)
      /\ taken \in SUBSET (1 .. 4)
  OBVIOUS
<1>3. /\ numbers[1] = ScLinkGetContentInt(c) /\ numbers[2] = ScLinkGetContentUint(c)
      /\ numbers[3] = Convert(ScLinkGetContentFloat(c)) /\ numbers[4] = Convert(ScLinkGetContentDouble(c))
  OBVIOUS
<1> HIDE DEF holds, numbers, taken
<1>4. \A s : Convert(s) = {} => s = {}
  <2>1. \A n : Fit(n) # {}
    BY NumberAssumption DEF Fit
  <2> QED
    BY <2>1 DEF Convert
<1>5. NumberRead(c) = {} => Bad(c)
  <2> SUFFICES ASSUME NumberRead(c) = {}
               PROVE  Bad(c)
    OBVIOUS
  <2>1. taken = {} => FALSE
    BY <1>1, NumberAssumption
  <2>2. \E i \in taken : numbers[i] = {}
    BY <1>1, <1>2, <2>1, MaxOfFour
  <2>3. PICK i \in taken : numbers[i] = {}
    BY <2>2
  <2>4. CASE i = 1
    BY <1>2, <1>3, <2>3, <2>4, ThrownAt DEF Bad
  <2>5. CASE i = 2
    BY <1>2, <2>5, ThrownAt DEF Bad
  <2>6. CASE i = 3
    BY <1>2, <1>3, <1>4, <2>3, <2>6, ThrownAt DEF Bad
  <2>7. CASE i = 4
    BY <1>2, <1>3, <1>4, <2>3, <2>7, ThrownAt DEF Bad
  <2> QED
    BY <1>2, <2>4, <2>5, <2>6, <2>7
<1>6. ASSUME Form(c) = "int"
      PROVE  NumberRead(c) = {NumberIn(c)} \cap Number
  <2>0. Tests(c, TRUE, FALSE, FALSE, FALSE)
    BY <1>6, ReadOfForm
  <2>a. ScLinkContentIsInt(c) /\ ~ScLinkContentIsUint(c) /\ ~ScLinkContentIsFloat(c) /\ ~ScLinkContentIsDouble(c)
    BY <2>0 DEF Tests
  <2>b. 1 \in taken /\ 2 \notin taken /\ 3 \notin taken /\ 4 \notin taken
    BY <1>2, <2>a, Zenon
  <2>c. taken \in SUBSET (1 .. 4)
    BY <1>2
  <2>d. \A i \in taken : i = 1
    <3> SUFFICES ASSUME NEW i \in taken PROVE i = 1
      OBVIOUS
    <3>1. i = 1 \/ i = 2 \/ i = 3 \/ i = 4
      BY <2>c
    <3> QED
      BY <2>b, <3>1
  <2>1. taken = {1}
    BY <2>b, <2>d
  <2>2. Max(taken) = 1
    BY <1>2, <2>1, MaxOfFour
  <2> QED
    BY <1>1, <1>3, <1>6, <2>1, <2>2, ReadOfForm
<1> QED
  BY <1>5, <1>6

\* How a whole division may end.
WholeEnds(k, c, d, y) ==
  /\ Faultless(y, c, d)
  /\ y.out = "killed" =>
       Form(c) # "int" \/ Form(d) # "int" \/ \A n \in Number : ~Exact(k, n, NumberIn(c), NumberIn(d))
  /\ RightAnswer(k, c, d, y)

LEMMA WholeDivisionEnds ==
  ASSUME NEW x, NEW r, NEW k \in Whole2, NEW op \in Operations, Computes(k, op),
         NEW c \in Seq(STRING), NEW d \in Seq(STRING), NEW y \in Conclude(r, Computed(op, NumberRead(c), NumberRead(d))),
         LinkSound(x), r = ResetValues(x), Cleared(x, r), 1 \in DOMAIN x.operand
  PROVE  WholeEnds(k, c, d, y)
<1> DEFINE M == NumberRead(c)
           N == NumberRead(d)
<1>1. M \in SUBSET Number /\ N \in SUBSET Number
  BY NumberIsRead
<1>2. PICK t \in Computed(op, M, N) : \/ t.out = "run" /\ y.out = "success" /\ AnswerOf(y) = t.text
                                      \/ t.out \in {"thrown", "killed"} /\ y.out = t.out
  <2>1. AreAnswers(Computed(op, M, N))
    BY <1>1, ComputedAnswers
  <2> QED
    BY <2>1, Concluded
<1>3. /\ t.out \in {"run", "killed", "thrown"}
      /\ t.out = "thrown" => M = {} \/ N = {}
      /\ t.out = "killed" => \E m \in M, n \in N : Unquotable(m, n)
  BY <1>1, ComputedOut
<1>4. Faultless(y, c, d)
  BY <1>2, <1>3, NumberReadOut DEF Faultless
<1>5. ASSUME y.out = "killed", Form(c) = "int", Form(d) = "int"
      PROVE  \A n \in Number : ~Exact(k, n, NumberIn(c), NumberIn(d))
  <2>1. M = {NumberIn(c)} \cap Number /\ N = {NumberIn(d)} \cap Number
    BY <1>5, NumberReadOut
  <2>2. NumberIn(c) \in Number /\ NumberIn(d) \in Number /\ Unquotable(NumberIn(c), NumberIn(d))
    BY <1>2, <1>3, <1>5, <2>1
  <2>3. k \in {"contDiv", "contDivInt", "contDivRem"}
    BY DEF Whole2
  <2> QED
    BY <2>2, <2>3, NotDivided
<1>6. RightAnswer(k, c, d, y)
  <2> SUFFICES ASSUME Form(c) = Form(d), {NumberIn(c), NumberIn(d)} \subseteq Number, Form(c) = "int",
                      NEW n \in Number, Exact(k, n, NumberIn(c), NumberIn(d))
               PROVE  y.out = "success" /\ AnswerOf(y) = <<ToString(n)>>
    BY DEF RightAnswer
  <2>1. M = {NumberIn(c)} /\ N = {NumberIn(d)}
    <3>1. M = {NumberIn(c)} \cap Number /\ N = {NumberIn(d)} \cap Number
      BY NumberReadOut
    <3> QED
      BY <3>1
  <2>2. t = Text(<<ToString(n)>>)
    BY <2>1, ComputedExact
  <2> QED
    BY <1>2, <2>2 DEF Text
<1> QED
  BY <1>4, <1>5, <1>6 DEF WholeEnds

-----------------------------------------------------------------------------
\* Functions.
LEMMA OfFunctionOut ==
  ASSUME NEW f, NEW numbers
  PROVE  /\ \A a \in OfFunction(f, numbers) : a.out \in {"run", "thrown"} /\ (a.out = "thrown" => numbers = {})
         /\ \A a \in UintAnswer(f, numbers) : a.out \in {"run", "thrown"}
         /\ \A a \in OnReal(numbers) : a.out \in {"run", "thrown"} /\ (a.out = "thrown" => numbers = {})
<1>1. \A s : \A a \in Whole(s) : a.out = "run"
  BY DEF Whole, Text
<1>2. Thrown.out = "thrown"
  BY DEF Thrown
<1>3. \A a \in RealTexts : a.out = "run"
  BY RealOut
<1>4. \A a \in OfFunction(f, numbers) : a.out \in {"run", "thrown"} /\ (a.out = "thrown" => numbers = {})
  <2>1. CASE numbers = {}
    <3>1. OfFunction(f, numbers) = {Thrown}
      BY <2>1 DEF OfFunction
    <3> QED
      BY <1>2, <2>1, <3>1
  <2>2. CASE numbers # {}
    <3>1. OfFunction(f, numbers) = RealTexts \/ \E s : OfFunction(f, numbers) = Whole(s)
      BY <2>2, Zenon DEF OfFunction
    <3> QED
      BY <1>1, <1>3, <2>2, <3>1
  <2> QED
    BY <2>1, <2>2
<1>5. \A a \in OnReal(numbers) : a.out \in {"run", "thrown"} /\ (a.out = "thrown" => numbers = {})
  BY <1>2, <1>3 DEF OnReal
<1> QED
  BY <1>4, <1>5 DEF UintAnswer

\* What a function does with the text of its operand.
FunctionBody(r, f, c) ==
  LET tagged == Answered(
        IF ScLinkContentIsInt(c) THEN OfFunction(f, ScLinkGetContentInt(c)) ELSE {},
        IF ScLinkContentIsUint(c) THEN UintAnswer(f, ScLinkGetContentUint(c)) ELSE {},
        IF ScLinkContentIsFloat(c) THEN OnReal(ScLinkGetContentFloat(c)) ELSE {},
        IF ScLinkContentIsDouble(c) THEN OnReal(ScLinkGetContentDouble(c)) ELSE {})
  IN  CASE tagged # NoAnswer -> Conclude(r, tagged)
        [] tagged = NoAnswer /\ PlainInt(c)    -> Conclude(r, OfFunction(f, AtoI(c)))
        [] tagged = NoAnswer /\ PlainDouble(c) -> Conclude(r, RealTexts)
        [] OTHER -> Unsuccess(r)

LEMMA FunctionEnds ==
  ASSUME NEW x, NEW r, NEW f, NEW c \in Seq(STRING), NEW y \in FunctionBody(r, f, c),
         LinkSound(x), r = ResetValues(x), Cleared(x, r), 1 \in DOMAIN x.operand
  PROVE  y.out \in {"success", "unsuccess", "thrown"} /\ (y.out = "thrown" => Bad(c))
<1> DEFINE int    == IF ScLinkContentIsInt(c) THEN OfFunction(f, ScLinkGetContentInt(c)) ELSE {}
           uint   == IF ScLinkContentIsUint(c) THEN UintAnswer(f, ScLinkGetContentUint(c)) ELSE {}
           float  == IF ScLinkContentIsFloat(c) THEN OnReal(ScLinkGetContentFloat(c)) ELSE {}
           double == IF ScLinkContentIsDouble(c) THEN OnReal(ScLinkGetContentDouble(c)) ELSE {}
           tagged == Answered(int, uint, float, double)
           body == CASE tagged # NoAnswer -> Conclude(r, tagged)
                     [] tagged = NoAnswer /\ PlainInt(c)    -> Conclude(r, OfFunction(f, AtoI(c)))
                     [] tagged = NoAnswer /\ PlainDouble(c) -> Conclude(r, RealTexts)
                     [] OTHER -> Unsuccess(r)
<1>1. y \in body
  BY DEF FunctionBody
<1>2. AreAnswers(int) /\ AreAnswers(uint) /\ AreAnswers(float) /\ AreAnswers(double)
  BY FunctionAnswers, OtherAnswers
<1>3. AreAnswers(tagged) /\ AreAnswers(OfFunction(f, AtoI(c))) /\ AreAnswers(RealTexts)
  BY <1>2, AnsweredAnswers, FunctionAnswers, OtherAnswers
<1>4. \A a \in tagged : a.out = "thrown" => Bad(c)
  <2>1. \A a \in int : a.out = "thrown" => Bad(c)
    BY OfFunctionOut, ThrownAt DEF Bad
  <2>2. \A a \in uint : Bad(c)
    BY ThrownAt DEF Bad
  <2>3. \A a \in float : a.out = "thrown" => Bad(c)
    BY OfFunctionOut, ThrownAt DEF Bad
  <2>4. \A a \in double : a.out = "thrown" => Bad(c)
    BY OfFunctionOut, ThrownAt DEF Bad
  <2>5. \A a \in NoAnswer : a.out # "thrown"
    BY NoAnswerOut
  <2> HIDE DEF int, uint, float, double
  <2> QED
    BY <2>1, <2>2, <2>3, <2>4, <2>5, AnsweredFrom
<1>5. \A a \in tagged : a.out # "killed"
  <2>1. \A a \in int : a.out # "killed"
    BY OfFunctionOut
  <2>2. \A a \in uint : a.out # "killed"
    BY OfFunctionOut
  <2>3. \A a \in float : a.out # "killed"
    BY OfFunctionOut
  <2>4. \A a \in double : a.out # "killed"
    BY OfFunctionOut
  <2>5. \A a \in NoAnswer : a.out # "killed"
    BY NoAnswerOut
  <2> HIDE DEF int, uint, float, double
  <2> QED
    BY <2>1, <2>2, <2>3, <2>4, <2>5, AnsweredFrom
<1> HIDE DEF tagged
<1>6. \/ y \in Conclude(r, tagged) \/ (Plain(c) /\ y \in Conclude(r, OfFunction(f, AtoI(c))))
      \/ y \in Conclude(r, RealTexts) \/ y \in Unsuccess(r)
  BY <1>1 DEF Plain
<1>7. CASE y \in Conclude(r, tagged)
  BY <1>3, <1>4, <1>5, <1>7, Concluded
<1>8. CASE Plain(c) /\ y \in Conclude(r, OfFunction(f, AtoI(c)))
  <2>1. \A a \in OfFunction(f, AtoI(c)) : a.out = "run"
    BY <1>8, OfFunctionOut, ThrownAt
  <2> QED
    BY <1>3, <1>8, <2>1, Concluded
<1>9. CASE y \in Conclude(r, RealTexts)
  BY <1>3, <1>9, RealOut, Concluded
<1>10. CASE y \in Unsuccess(r)
  BY <1>10, ClearedSound, FinishSound DEF Unsuccess
<1> QED
  BY <1>6, <1>7, <1>8, <1>9, <1>10

-----------------------------------------------------------------------------
\* Comparisons of the texts of two operands: what they may do.
Truth(k, a, b) == IF k = "ifEq" THEN a = b ELSE a > b

\* Every way a pair of numbers may be judged.
Verdicts(k, r, M, N) ==
  IF M = {} \/ N = {} THEN {Finish(r, "thrown")}
  ELSE UNION {Answer(r, Truth(k, a, b)) : a \in M, b \in N}

\* What a comparison does with the texts of its operands.
CompareBody(k, r, c, d) ==
  IF ScLinkContentIsInt(c) /\ ScLinkContentIsInt(d)
  THEN Verdicts(k, r, ScLinkGetContentInt(c), ScLinkGetContentInt(d))
  ELSE IF ScLinkContentIsUint(c) /\ ScLinkContentIsUint(d)
  THEN Verdicts(k, r, ScLinkGetContentUint(c), ScLinkGetContentUint(d))
  ELSE IF ScLinkContentIsFloat(c) /\ ScLinkContentIsFloat(d)
  THEN Verdicts(k, r, ScLinkGetContentFloat(c), ScLinkGetContentFloat(d))
  ELSE IF ScLinkContentIsDouble(c) /\ ScLinkContentIsDouble(d)
  THEN Verdicts(k, r, ScLinkGetContentDouble(c), ScLinkGetContentDouble(d))
  ELSE CASE PlainInt(c) /\ PlainInt(d) -> Verdicts(k, r, AtoI(c), AtoI(d))
         [] PlainDouble(c) /\ PlainDouble(d) -> Verdicts(k, r, Leading(c), Leading(d))
         [] Plain(c) /\ Plain(d) /\ PlainInt(c) # PlainInt(d) -> {Finish(r, "left")}
         [] OTHER -> Unsuccess(r)

LEMMA ComparedBy ==
  ASSUME NEW x
  PROVE  LET r == ResetValues(x)
             c == Content(r, Value(r, 1))
             d == Content(r, Value(r, 2))
         IN  /\ \A y \in IfEq(x) : y \in Reads(x, {1, 2}, CompareBody("ifEq", r, c, d))
             /\ \A y \in IfGr(x) : y \in Reads(x, {1, 2}, CompareBody("ifGr", r, c, d))
<1> DEFINE r == ResetValues(x)
           c == Content(r, Value(r, 1))
           d == Content(r, Value(r, 2))
<1>1. \A M, N : Verdicts("ifEq", r, M, N) = Judge(r, M, N, LAMBDA a, b : a = b)
  BY DEF Verdicts, Truth, Judge
<1>2. \A M, N : Verdicts("ifGr", r, M, N) = Judge(r, M, N, LAMBDA a, b : a > b)
  <2>1. "ifGr" # "ifEq"
    OBVIOUS
  <2> QED
    BY <2>1 DEF Verdicts, Truth, Judge
<1>3. \A y \in IfEq(x) : y \in Reads(x, {1, 2}, CompareBody("ifEq", r, c, d))
  BY <1>1 DEF IfEq, Compare, Reading, Checked, Results, Reads, Error, CompareBody
<1>4. \A y \in IfGr(x) : y \in Reads(x, {1, 2}, CompareBody("ifGr", r, c, d))
  BY <1>2 DEF IfGr, Compare, Reading, Checked, Results, Reads, Error, CompareBody
<1> QED
  BY <1>3, <1>4

\* How a comparison may end.
QuestionEnds(k, c, d, y) ==
  /\ y.out \in {"success", "unsuccess", "thrown", "left"}
  /\ y.out = "thrown" => Bad(c) \/ Bad(d)
  /\ y.out = "left" <=> Mixed(c, d)
  /\ Form(c) = Form(d) /\ Form(c) \notin {"uint", "text"} /\ {NumberIn(c), NumberIn(d)} \subseteq Number =>
       y.out = IF Truth(k, NumberIn(c), NumberIn(d)) THEN "success" ELSE "unsuccess"

LEMMA VerdictOut ==
  ASSUME NEW k, NEW x, NEW r, NEW M, NEW N, NEW y \in Verdicts(k, r, M, N),
         LinkSound(x), r = ResetValues(x), Cleared(x, r)
  PROVE  /\ M = {} \/ N = {} => y.out = "thrown"
         /\ M # {} /\ N # {} => \E a \in M, b \in N : y.out = IF Truth(k, a, b) THEN "success" ELSE "unsuccess"
<1>1. LinkSound(r)
  BY ClearedSound
<1>2. Finish(r, "thrown").out = "thrown" /\ Finish(r, "success").out = "success" /\ Finish(r, "unsuccess").out = "unsuccess"
  BY <1>1, FinishSound
<1>3. CASE M = {} \/ N = {}
  BY <1>2, <1>3 DEF Verdicts
<1>4. CASE ~(M = {} \/ N = {})
  <2>1. PICK a \in M, b \in N : y \in Answer(r, Truth(k, a, b))
    BY <1>4 DEF Verdicts
  <2>2. CASE Truth(k, a, b)
    BY <1>2, <1>4, <2>1, <2>2 DEF Answer, Success
  <2>3. CASE ~Truth(k, a, b)
    BY <1>2, <1>4, <2>1, <2>3 DEF Answer, Unsuccess
  <2> QED
    BY <2>2, <2>3
<1> QED
  BY <1>3, <1>4

\* Comparisons of contents that are not both tagged alike.
PlainBody(k, r, c, d) ==
  CASE PlainInt(c) /\ PlainInt(d) -> Verdicts(k, r, AtoI(c), AtoI(d))
    [] PlainDouble(c) /\ PlainDouble(d) -> Verdicts(k, r, Leading(c), Leading(d))
    [] Plain(c) /\ Plain(d) /\ PlainInt(c) # PlainInt(d) -> {Finish(r, "left")}
    [] OTHER -> Unsuccess(r)

PlainPairs(k, r, c, d, y) ==
  \/ Form(c) = "integer" /\ Form(d) = "integer" /\ y \in Verdicts(k, r, AtoI(c), AtoI(d))
  \/ Form(c) = "real" /\ Form(d) = "real" /\ y \in Verdicts(k, r, Leading(c), Leading(d))
  \/ Mixed(c, d) /\ y = Finish(r, "left")
  \/ ~(Plain(c) /\ Plain(d)) /\ y \in Unsuccess(r)

LEMMA PlainByForm ==
  ASSUME NEW k, NEW r, NEW c, NEW d, NEW y \in PlainBody(k, r, c, d)
  PROVE  PlainPairs(k, r, c, d, y)
<1>1. /\ Form(c) = "integer" <=> PlainInt(c)
      /\ Form(c) = "real" <=> PlainDouble(c)
      /\ Form(d) = "integer" <=> PlainInt(d)
      /\ Form(d) = "real" <=> PlainDouble(d)
  BY OneForm
<1>a. ~(PlainInt(c) /\ PlainDouble(c)) /\ ~(PlainInt(d) /\ PlainDouble(d))
  BY DEF PlainInt, PlainDouble
<1>2. CASE PlainInt(c) /\ PlainInt(d)
  <2>1. PlainBody(k, r, c, d) = Verdicts(k, r, AtoI(c), AtoI(d))
    BY <1>2, <1>a, Zenon DEF PlainBody, Plain
  <2>2. y \in Verdicts(k, r, AtoI(c), AtoI(d)) /\ Form(c) = "integer" /\ Form(d) = "integer"
    BY <1>1, <1>2, <2>1
  <2> QED
    BY <2>2 DEF PlainPairs
<1>3. CASE PlainDouble(c) /\ PlainDouble(d)
  <2>0. ~PlainInt(c) /\ ~PlainInt(d)
    BY <1>3, <1>a
  <2>a. PlainInt(c) = PlainInt(d)
    BY <2>0 DEF PlainInt
  <2>1. PlainBody(k, r, c, d) = Verdicts(k, r, Leading(c), Leading(d))
    BY <1>3, <2>0, <2>a, Zenon DEF PlainBody
  <2>2. y \in Verdicts(k, r, Leading(c), Leading(d)) /\ Form(c) = "real" /\ Form(d) = "real"
    BY <1>1, <1>3, <2>1
  <2> QED
    BY <2>2 DEF PlainPairs
<1>4. CASE (PlainInt(c) /\ PlainDouble(d)) \/ (PlainDouble(c) /\ PlainInt(d))
  <2>1. /\ ~(PlainInt(c) /\ PlainInt(d)) /\ ~(PlainDouble(c) /\ PlainDouble(d))
        /\ Plain(c) /\ Plain(d)
        /\ PlainInt(c) # PlainInt(d)
    <3>1. CASE PlainInt(c) /\ PlainDouble(d)
      BY <1>a, <3>1 DEF Plain
    <3>2. CASE PlainDouble(c) /\ PlainInt(d)
      BY <1>a, <3>2 DEF Plain
    <3> QED
      BY <1>4, <3>1, <3>2
  <2>2. PlainBody(k, r, c, d) = {Finish(r, "left")}
    BY <2>1, Zenon DEF PlainBody
  <2>3. Mixed(c, d)
    <3>1. (Form(c) = "integer" /\ Form(d) = "real") \/ (Form(c) = "real" /\ Form(d) = "integer")
      BY <1>1, <1>4, Zenon
    <3> QED
      BY <3>1 DEF Mixed
  <2> QED
    BY <2>2, <2>3 DEF PlainPairs
<1>5. CASE ~Plain(c) \/ ~Plain(d)
  <2>1. /\ ~(PlainInt(c) /\ PlainInt(d)) /\ ~(PlainDouble(c) /\ PlainDouble(d))
        /\ ~(Plain(c) /\ Plain(d))
    BY <1>5 DEF Plain
  <2>2. PlainBody(k, r, c, d) = Unsuccess(r)
    BY <2>1, Zenon DEF PlainBody
  <2> QED
    BY <1>5, <2>2 DEF PlainPairs
<1> QED
  BY <1>2, <1>3, <1>4, <1>5, Zenon DEF Plain

\* Which sets of numbers are judged.
LEMMA ComparePairs ==
  ASSUME NEW k, NEW r, NEW c \in Seq(STRING), NEW d \in Seq(STRING), NEW y \in CompareBody(k, r, c, d)
  PROVE  \/ /\ ScLinkContentIsInt(c) /\ ScLinkContentIsInt(d)
            /\ y \in Verdicts(k, r, ScLinkGetContentInt(c), ScLinkGetContentInt(d))
         \/ /\ ScLinkContentIsFloat(c) /\ ScLinkContentIsFloat(d)
            /\ y \in Verdicts(k, r, ScLinkGetContentFloat(c), ScLinkGetContentFloat(d))
         \/ /\ ScLinkContentIsDouble(c) /\ ScLinkContentIsDouble(d)
            /\ y \in Verdicts(k, r, ScLinkGetContentDouble(c), ScLinkGetContentDouble(d))
         \/ /\ ~(ScLinkContentIsInt(c) /\ ScLinkContentIsInt(d))
            /\ ~(ScLinkContentIsFloat(c) /\ ScLinkContentIsFloat(d))
            /\ ~(ScLinkContentIsDouble(c) /\ ScLinkContentIsDouble(d))
            /\ PlainPairs(k, r, c, d, y)
<1>1. /\ ScLinkContentIsUint(c) => ScLinkContentIsInt(c)
      /\ ScLinkContentIsUint(d) => ScLinkContentIsInt(d)
  BY DEF ScLinkContentIsUint, ScLinkContentIsInt, IntTags
<1>2. CompareBody(k, r, c, d) =
        IF ScLinkContentIsInt(c) /\ ScLinkContentIsInt(d)
        THEN Verdicts(k, r, ScLinkGetContentInt(c), ScLinkGetContentInt(d))
        ELSE IF ScLinkContentIsUint(c) /\ ScLinkContentIsUint(d)
        THEN Verdicts(k, r, ScLinkGetContentUint(c), ScLinkGetContentUint(d))
        ELSE IF ScLinkContentIsFloat(c) /\ ScLinkContentIsFloat(d)
        THEN Verdicts(k, r, ScLinkGetContentFloat(c), ScLinkGetContentFloat(d))
        ELSE IF ScLinkContentIsDouble(c) /\ ScLinkContentIsDouble(d)
        THEN Verdicts(k, r, ScLinkGetContentDouble(c), ScLinkGetContentDouble(d))
        ELSE PlainBody(k, r, c, d)
  BY DEF CompareBody, PlainBody
<1> QED
  BY <1>1, <1>2, PlainByForm

\* A content that is taken for a tagged one.
LEMMA NotTagged ==
  ASSUME NEW c \in Seq(STRING)
  PROVE  /\ ScLinkContentIsInt(c) => Form(c) \in {"int", "uint", "text"}
         /\ ScLinkContentIsFloat(c) => Form(c) \in {"float", "text"}
         /\ ScLinkContentIsDouble(c) => Form(c) \in {"double", "text"}
<1>1. Form(c) \in {"integer", "real", "int", "uint", "float", "double", "text"}
  BY OneForm
<1>2. CASE Form(c) \in {"integer", "real"}
  BY <1>2, ReadOfForm DEF Tests
<1>3. CASE Form(c) = "int"
  BY <1>3, ReadOfForm DEF Tests
<1>4. CASE Form(c) = "uint"
  BY <1>4, ReadOfForm DEF Tests
<1>5. CASE Form(c) = "float"
  BY <1>5, ReadOfForm DEF Tests
<1>6. CASE Form(c) = "double"
  BY <1>6, ReadOfForm DEF Tests
<1>7. CASE Form(c) = "text"
  BY <1>7
<1> QED
  BY <1>1, <1>2, <1>3, <1>4, <1>5, <1>6, <1>7

LEMMA CompareEnds ==
  ASSUME NEW k, NEW x, NEW r, NEW c \in Seq(STRING), NEW d \in Seq(STRING), NEW y \in CompareBody(k, r, c, d),
         LinkSound(x), r = ResetValues(x), Cleared(x, r)
  PROVE  QuestionEnds(k, c, d, y)
<1> DEFINE a == NumberIn(c)
           b == NumberIn(d)
           Judged(M, N) ==
             /\ M = {} \/ N = {} => y.out = "thrown"
             /\ M # {} /\ N # {} =>
                  \E m \in M, n \in N : y.out = IF Truth(k, m, n) THEN "success" ELSE "unsuccess"
<1>1. \A M, N : y \in Verdicts(k, r, M, N) => Judged(M, N)
  BY VerdictOut
<1>2. Plain(c) <=> Form(c) \in {"integer", "real"}
  BY OneForm DEF Plain
<1>3. Plain(d) <=> Form(d) \in {"integer", "real"}
  BY OneForm DEF Plain
<1>4. ASSUME NEW M, NEW N, Judged(M, N), M \subseteq {a}, N \subseteq {b}, ~Mixed(c, d),
             M = {} => Bad(c), N = {} => Bad(d),
             Form(c) = Form(d) /\ Form(c) \notin {"uint", "text"} /\ {a, b} \subseteq Number => M # {} /\ N # {}
      PROVE  QuestionEnds(k, c, d, y)
  BY <1>4 DEF QuestionEnds
<1> HIDE DEF Judged, a, b
<1>5. CASE /\ ScLinkContentIsInt(c) /\ ScLinkContentIsInt(d)
           /\ y \in Verdicts(k, r, ScLinkGetContentInt(c), ScLinkGetContentInt(d))
  <2>1. Judged(ScLinkGetContentInt(c), ScLinkGetContentInt(d))
    BY <1>1, <1>5
  <2>2. ~Mixed(c, d)
    BY <1>5, NotTagged DEF Mixed
  <2>3. Form(c) = Form(d) /\ Form(c) \notin {"uint", "text"} /\ {a, b} \subseteq Number =>
          ScLinkGetContentInt(c) # {} /\ ScLinkGetContentInt(d) # {}
    BY <1>5, NotTagged, ReadOfForm DEF a, b
  <2> QED
    BY <1>4, <1>5, <2>1, <2>2, <2>3, OneNumber, ThrownAt DEF Bad, a, b
<1>6. CASE /\ ScLinkContentIsFloat(c) /\ ScLinkContentIsFloat(d)
           /\ y \in Verdicts(k, r, ScLinkGetContentFloat(c), ScLinkGetContentFloat(d))
  <2>1. Judged(ScLinkGetContentFloat(c), ScLinkGetContentFloat(d))
    BY <1>1, <1>6
  <2>2. ~Mixed(c, d)
    BY <1>6, NotTagged DEF Mixed
  <2>3. Form(c) = Form(d) /\ Form(c) \notin {"uint", "text"} =>
          ScLinkGetContentFloat(c) # {} /\ ScLinkGetContentFloat(d) # {}
    BY <1>6, NotTagged, ReadOfForm
  <2> QED
    BY <1>4, <1>6, <2>1, <2>2, <2>3, OneNumber, ThrownAt DEF Bad, a, b
<1>7. CASE /\ ScLinkContentIsDouble(c) /\ ScLinkContentIsDouble(d)
           /\ y \in Verdicts(k, r, ScLinkGetContentDouble(c), ScLinkGetContentDouble(d))
  <2>1. Judged(ScLinkGetContentDouble(c), ScLinkGetContentDouble(d))
    BY <1>1, <1>7
  <2>2. ~Mixed(c, d)
    BY <1>7, NotTagged DEF Mixed
  <2>3. Form(c) = Form(d) /\ Form(c) \notin {"uint", "text"} =>
          ScLinkGetContentDouble(c) # {} /\ ScLinkGetContentDouble(d) # {}
    BY <1>7, NotTagged, ReadOfForm
  <2> QED
    BY <1>4, <1>7, <2>1, <2>2, <2>3, OneNumber, ThrownAt DEF Bad, a, b
<1>8. ASSUME /\ ~(ScLinkContentIsInt(c) /\ ScLinkContentIsInt(d))
             /\ ~(ScLinkContentIsFloat(c) /\ ScLinkContentIsFloat(d))
             /\ ~(ScLinkContentIsDouble(c) /\ ScLinkContentIsDouble(d)),
             PlainPairs(k, r, c, d, y)
      PROVE  QuestionEnds(k, c, d, y)
  <2>1. CASE Form(c) = "integer" /\ Form(d) = "integer" /\ y \in Verdicts(k, r, AtoI(c), AtoI(d))
    <3>1. Judged(AtoI(c), AtoI(d)) /\ AtoI(c) # {} /\ AtoI(d) # {}
      BY <1>1, <1>2, <1>3, <2>1, ThrownAt
    <3>2. {a, b} \subseteq Number => AtoI(c) \subseteq {a} /\ AtoI(d) \subseteq {b}
      BY OneNumber DEF a, b
    <3>3. ~Mixed(c, d)
      BY <2>1 DEF Mixed
    <3> QED
      BY <2>1, <3>1, <3>2, <3>3 DEF QuestionEnds, Judged, a, b
  <2>2. CASE Form(c) = "real" /\ Form(d) = "real" /\ y \in Verdicts(k, r, Leading(c), Leading(d))
    <3>1. Judged(Leading(c), Leading(d)) /\ Leading(c) # {} /\ Leading(d) # {}
      BY <1>1, <1>2, <1>3, <2>2, ThrownAt
    <3>2. Leading(c) \subseteq {a} /\ Leading(d) \subseteq {b}
      BY OneNumber DEF a, b
    <3>3. ~Mixed(c, d)
      BY <2>2 DEF Mixed
    <3> QED
      BY <1>4, <3>1, <3>2, <3>3
  <2>3. CASE Mixed(c, d) /\ y = Finish(r, "left")
    <3>1. y.out = "left"
      BY <2>3, ClearedSound, FinishSound
    <3>2. Form(c) # Form(d)
      <4>1. \A s, t : {s, t} = {"integer", "real"} => s # t
        <5>1. "integer" # "real"
          OBVIOUS
        <5>2. \A p, q, s, t : p # q /\ {s, t} = {p, q} => s # t
          OBVIOUS
        <5> QED
          BY <5>1, <5>2
      <4> QED
        BY <2>3, <4>1 DEF Mixed
    <3> QED
      BY <2>3, <3>1, <3>2 DEF QuestionEnds
  <2>4. CASE ~(Plain(c) /\ Plain(d)) /\ y \in Unsuccess(r)
    <3>1. y.out = "unsuccess"
      BY <2>4, ClearedSound, FinishSound DEF Unsuccess
    <3>2. ~Mixed(c, d)
      BY <1>2, <1>3, <2>4 DEF Mixed
    <3>3. ASSUME Form(c) = Form(d), Form(c) \notin {"uint", "text"}
          PROVE  FALSE
      <4>1. Form(c) \in {"int", "float", "double"} /\ Form(d) = Form(c)
        BY <1>2, <1>3, <2>4, <3>3, OneForm
      <4> QED
        BY <1>8, <4>1, ReadOfForm DEF Tests
    <3> QED
      BY <3>1, <3>2, <3>3 DEF QuestionEnds
  <2> QED
    BY <1>8, <2>1, <2>2, <2>3, <2>4 DEF PlainPairs
<1> QED
  BY <1>5, <1>6, <1>7, <1>8, ComparePairs

-----------------------------------------------------------------------------
\* The number of operands of each operator.
Arity(k, x) ==
  /\ k \in Function1 \cup OfText \cup Questions => DOMAIN x.operand = 1 .. 2
  /\ k \in Binary \cup Whole2 \cup OfTexts => DOMAIN x.operand = 1 .. 3
  /\ k \in OfFive => DOMAIN x.operand = 1 .. 5

LEMMA GivenOf ==
  ASSUME NEW k, NEW x, Arity(k, x)
  PROVE  /\ k \in Questions => Given(k, x) = {1, 2}
         /\ k \in Function1 \cup OfText => Given(k, x) = {2}
         /\ k \in Binary \cup Whole2 \cup OfTexts => Given(k, x) = {2, 3}
         /\ k \in OfFive => Given(k, x) = {2, 3, 4}
         /\ k \in NumberKinds \cup Strings => 1 \in DOMAIN x.operand
<1>1. ASSUME k \in Questions
      PROVE  Given(k, x) = {1, 2}
  BY <1>1 DEF Arity, Given, Questions
<1>2. k \in Questions => k \notin Function1 \cup OfText \cup Binary \cup Whole2 \cup OfTexts \cup OfFive
  BY DEF Questions, Asking, Function1, OfText, Binary, Whole2, OfTexts, OfFive
<1>3. k \in OfFive => k \notin Function1 \cup OfText \cup Binary \cup Whole2 \cup OfTexts
  BY DEF Function1, OfText, Binary, Whole2, OfTexts, OfFive
<1>4. k \notin Questions /\ k \notin OfFive => Given(k, x) = {i \in DOMAIN x.operand : i \in 2 .. 3}
  BY DEF Given, Questions
<1>5. k \notin Questions /\ k \in OfFive => Given(k, x) = {i \in DOMAIN x.operand : i \in 2 .. 4}
  BY DEF Given, Questions
<1>6. ASSUME k \in Function1 \cup OfText
      PROVE  Given(k, x) = {2} /\ 1 \in DOMAIN x.operand
  <2>1. DOMAIN x.operand = 1 .. 2 /\ Given(k, x) = {i \in DOMAIN x.operand : i \in 2 .. 3}
    BY <1>2, <1>3, <1>4, <1>6 DEF Arity
  <2> QED
    BY <2>1
<1>7. ASSUME k \in Binary \cup Whole2 \cup OfTexts
      PROVE  Given(k, x) = {2, 3} /\ 1 \in DOMAIN x.operand
  <2>1. DOMAIN x.operand = 1 .. 3 /\ Given(k, x) = {i \in DOMAIN x.operand : i \in 2 .. 3}
    BY <1>2, <1>3, <1>4, <1>7 DEF Arity
  <2> QED
    BY <2>1
<1>8. ASSUME k \in OfFive
      PROVE  Given(k, x) = {2, 3, 4} /\ 1 \in DOMAIN x.operand
  <2>1. DOMAIN x.operand = 1 .. 5 /\ Given(k, x) = {i \in DOMAIN x.operand : i \in 2 .. 4}
    BY <1>2, <1>5, <1>8 DEF Arity
  <2> QED
    BY <2>1
<1> QED
  BY <1>1, <1>6, <1>7, <1>8 DEF NumberKinds, Strings

\* An accepted operator reads what it is given, or throws.
LEMMA ReadingGiven ==
  ASSUME NEW x, NEW k, NEW body, NEW y \in Reads(x, Given(k, x), body),
         LinkSound(x), x.out = "run", Accepted(k, x)
  PROVE  LET r == ResetValues(x)
         IN  /\ Cleared(x, r)
             /\ IF GivenLinks(k, x) THEN y \in body ELSE y.out = "thrown"
             /\ \A i \in Given(k, x) : Content(r, Value(r, i)) = GivenText(x, i)
<1> DEFINE r == ResetValues(x)
<1>1. ResetStep(x, r)
  BY Resetting DEF LinkSound, Typed
<1>2. Cleared(x, r)
  <2>1. r.out # "error"
    BY <1>1 DEF Accepted, ResetStep
  <2> QED
    BY <2>1, ResetRuns DEF LinkSound
<1>3. Given(k, x) \subseteq DOMAIN x.operand /\ \A i \in Given(k, x) : i \notin Assigned(x)
  BY DEF Given, Accepted, Assigned, Fixed
<1>4. LinkSound(r) /\ r.out = "run" /\ r.content = x.content /\ r.type = x.type /\ Assigned(r) = Assigned(x)
  BY <1>2, ClearedSound DEF Cleared, SameMemory
<1>5. \A i \in Given(k, x) : Value(r, i) = Value(x, i)
  BY <1>2, <1>3 DEF Cleared, Value
<1>6. ~RejectsReading(r, Given(k, x))
  <2>1. Given(k, x) \cap Assigned(r) = {}
    BY <1>3, <1>4
  <2>2. ~Valueless(r, Given(k, x))
    BY <1>5 DEF Valueless, Accepted
  <2> QED
    BY <2>1, <2>2 DEF RejectsReading
<1>7. Unreadable(r, Given(k, x)) <=> ~GivenLinks(k, x)
  BY <1>4, <1>5 DEF Unreadable, GivenLinks
<1>8. y \in IF Unreadable(r, Given(k, x)) THEN {Finish(r, "thrown")} ELSE body
  BY <1>4, <1>6 DEF Reads
<1>9. Finish(r, "thrown").out = "thrown"
  BY <1>4, FinishSound
<1>10. \A i \in Given(k, x) : Content(r, Value(r, i)) = GivenText(x, i)
  BY <1>4, <1>5 DEF GivenText, Content
<1> HIDE DEF r
<1>11. IF GivenLinks(k, x) THEN y \in body ELSE y.out = "thrown"
  BY <1>7, <1>8, <1>9
<1> QED
  BY <1>2, <1>10, <1>11 DEF r

\* How an operator on texts that makes an answer ends: the answer is the one link
\* or set that the new value leads to.
Told(x, y, g, answer) ==
  \/ y.out = "thrown" /\ ~IsNode(Want(x, 1))
  \/ /\ y.out = "success"
     /\ AnswersOf(y, Value(y, 1)) = {answer}
     /\ y.content = g.content /\ Kept(g, y)
     /\ \A b \in Connectors(y) \ Connectors(g) : Source(y, b) # answer

LEMMA PrintedTold ==
  ASSUME NEW x, NEW r, NEW g, NEW answer, NEW y \in PrintOperatorAnswer(g, answer),
         LinkSound(x), r = ResetValues(x), Cleared(x, r), 1 \in DOMAIN x.operand, Grown(r, g, answer)
  PROVE  Told(x, y, g, answer)
<1>1. /\ DOMAIN r.operand = DOMAIN x.operand
      /\ r.operand[1].type = x.operand[1].type
  BY ClearedSound
<1>2. y.content = g.content /\ Kept(g, y) /\ Printed(g, answer, y)
  BY <1>1, AnswerPrinted DEF Grown
<1>3. Want(g, 1) = Want(x, 1)
  BY <1>1 DEF Grown, Want
<1>4. y.out = "success" => AnswersOf(y, Value(y, 1)) = {answer}
  BY <1>2 DEF Printed
<1>5. y.out = "success" => \A b \in Connectors(y) \ Connectors(g) : Source(y, b) # answer
  <2>1. Relation \in Exists(r)
    BY ClearedSound, RelationExists
  <2>2. answer # Relation /\ answer # g.fresh
    BY <2>1, FreshIsNew DEF Grown, LinkSound
  <2> QED
    BY <1>2, <2>2 DEF Printed
<1> QED
  BY <1>2, <1>3, <1>4, <1>5 DEF Told, Printed

\* An answer that is a text.
ToldText(x, y, c) ==
  \/ y.out = "thrown" /\ ~IsNode(Want(x, 1))
  \/ /\ y.out = "success"
     /\ Content(y, CHOOSE a \in AnswersOf(y, Value(y, 1)) : TRUE) = c

LEMMA AnswerTold ==
  ASSUME NEW x, NEW r, NEW c \in Seq(STRING), NEW y \in AnswerWith(r, c),
         LinkSound(x), r = ResetValues(x), Cleared(x, r), 1 \in DOMAIN x.operand
  PROVE  ToldText(x, y, c)
<1> DEFINE g == GenerateLink(r, c)
           e == r.fresh
<1>1. LinkSound(r) /\ r.out = "run"
  BY ClearedSound
<1>2. LinkSound(g) /\ Kept(r, g) /\ MoreContents(r, g) /\ LinkStep(r, c, g)
  BY <1>1, LinkMade
<1>3. y \in PrintOperatorAnswer(g, e)
  BY DEF AnswerWith
<1> HIDE DEF g
<1>4. Grown(r, g, e)
  BY <1>1, <1>2, FreshIsNew DEF Grown, LinkStep, NodeStep, Exists, LinkSound
<1>5. Told(x, y, g, e)
  BY <1>3, <1>4, PrintedTold
<1>6. e \in DOMAIN g.content /\ g.content[e] = c
  BY <1>2 DEF LinkStep
<1>7. ASSUME y.out = "success", AnswersOf(y, Value(y, 1)) = {e}, y.content = g.content
      PROVE  Content(y, CHOOSE a \in AnswersOf(y, Value(y, 1)) : TRUE) = c
  <2>1. (CHOOSE a \in AnswersOf(y, Value(y, 1)) : TRUE) = e
    BY <1>7
  <2> QED
    BY <1>6, <1>7, <2>1 DEF Content
<1> QED
  BY <1>5, <1>7 DEF Told, ToldText

\* An operator that may be run: on links that can be read.
Runs(k, x) == LinkSound(x) /\ x.out = "run" /\ Arity(k, x) /\ Accepted(k, x)

\* An operator that was given no link throws.
Refused(k, x, y) == ~GivenLinks(k, x) /\ y.out = "thrown"

LEMMA GivenTexts ==
  ASSUME NEW x, LinkSound(x), NEW i
  PROVE  GivenText(x, i) \in Seq(STRING)
BY SoundContent DEF GivenText

LEMMA ReadsOrRefuses ==
  ASSUME NEW k, NEW x, NEW body, NEW y \in Reads(x, Given(k, x), body), Runs(k, x)
  PROVE  Refused(k, x, y) \/ (GivenLinks(k, x) /\ y \in body)
BY ReadingGiven DEF Runs, Refused

LEMMA GivenCleared ==
  ASSUME NEW k, NEW x, NEW body, NEW y \in Reads(x, Given(k, x), body), Runs(k, x)
  PROVE  LET r == ResetValues(x)
         IN  /\ Cleared(x, r)
             /\ \A i \in Given(k, x) : Content(r, Value(r, i)) = GivenText(x, i)
             /\ Finish(r, "unsuccess").out = "unsuccess" /\ Finish(r, "success").out = "success"
             /\ Finish(r, "again").out = "again"
<1>1. Cleared(x, ResetValues(x)) /\ LinkSound(x)
  BY ReadingGiven DEF Runs
<1>2. LinkSound(ResetValues(x))
  BY <1>1, ClearedSound
<1> QED
  BY <1>1, <1>2, ReadingGiven, FinishSound DEF Runs

LEMMA ConcatDid ==
  ASSUME NEW x, NEW k \in OfTexts, Runs(k, x), NEW y \in ContStringConcat(x)
  PROVE  Refused(k, x, y) \/ (GivenLinks(k, x) /\ ToldText(x, y, GivenText(x, 2) \o GivenText(x, 3)))
<1> DEFINE r == ResetValues(x)
           c == Content(r, Value(r, 2))
           d == Content(r, Value(r, 3))
           body == AnswerWith(r, c \o d)
<1>1. y \in Reads(x, {2, 3}, body)
  BY DEF ContStringConcat, OnTexts, Reading, Checked, Results, Reads, Error
<1>2. Given(k, x) = {2, 3} /\ 1 \in DOMAIN x.operand /\ LinkSound(x)
  BY GivenOf DEF Runs, Strings
<1> HIDE DEF body
<1>3. Cleared(x, r) /\ c = GivenText(x, 2) /\ d = GivenText(x, 3)
  BY <1>1, <1>2, GivenCleared
<1>4. Refused(k, x, y) \/ (GivenLinks(k, x) /\ y \in body)
  BY <1>1, <1>2, ReadsOrRefuses
<1>5. c \o d \in Seq(STRING)
  BY <1>2, <1>3, GivenTexts, ConcatProperties
<1> HIDE DEF r, c, d
<1>6. y \in body => ToldText(x, y, c \o d)
  BY <1>2, <1>3, <1>5, AnswerTold DEF body, r
<1> QED
  BY <1>3, <1>4, <1>6

LEMMA LenDid ==
  ASSUME NEW x, NEW k \in OfText, Runs(k, x), NEW y \in StringLen(x)
  PROVE  Refused(k, x, y) \/ (GivenLinks(k, x) /\ ToldText(x, y, Decimal(Len(GivenText(x, 2)))))
<1> DEFINE r == ResetValues(x)
           c == Content(r, Value(r, 2))
           body == AnswerWith(r, Decimal(Len(c)))
<1>1. y \in Reads(x, {2}, body)
  BY DEF StringLen, OnText, Reading, Checked, Results, Reads, Error
<1>2. Given(k, x) = {2} /\ 1 \in DOMAIN x.operand /\ LinkSound(x)
  BY GivenOf DEF Runs, Strings
<1> HIDE DEF body
<1>3. Cleared(x, r) /\ c = GivenText(x, 2)
  BY <1>1, <1>2, GivenCleared
<1>4. Refused(k, x, y) \/ (GivenLinks(k, x) /\ y \in body)
  BY <1>1, <1>2, ReadsOrRefuses
<1>5. Decimal(Len(c)) \in Seq(STRING)
  BY <1>2, <1>3, GivenTexts, LenProperties, DecimalText
<1> HIDE DEF r, c
<1>6. y \in body => ToldText(x, y, Decimal(Len(c)))
  BY <1>2, <1>3, <1>5, AnswerTold DEF body, r
<1> QED
  BY <1>3, <1>4, <1>6

LEMMA SubDid ==
  ASSUME NEW x, NEW k \in OfTexts, Runs(k, x), NEW y \in StringSub(x)
  PROVE  LET found == Occurrences(GivenText(x, 2), GivenText(x, 3))
         IN  \/ Refused(k, x, y)
             \/ GivenLinks(k, x) /\ found = {} /\ y.out = "unsuccess"
             \/ GivenLinks(k, x) /\ found # {} /\ ToldText(x, y, Decimal(Min(found)))
<1> DEFINE r == ResetValues(x)
           c == Content(r, Value(r, 2))
           d == Content(r, Value(r, 3))
           body == IF Occurrences(c, d) = {} THEN Unsuccess(r) ELSE AnswerWith(r, Decimal(Min(Occurrences(c, d))))
<1>1. y \in Reads(x, {2, 3}, body)
  BY DEF StringSub, OnTexts, Reading, Checked, Results, Reads, Error
<1>2. Given(k, x) = {2, 3} /\ 1 \in DOMAIN x.operand /\ LinkSound(x)
  BY GivenOf DEF Runs, Strings
<1> HIDE DEF body
<1>3. Cleared(x, r) /\ c = GivenText(x, 2) /\ d = GivenText(x, 3) /\ Finish(r, "unsuccess").out = "unsuccess"
  BY <1>1, <1>2, GivenCleared
<1>4. Refused(k, x, y) \/ (GivenLinks(k, x) /\ y \in body)
  BY <1>1, <1>2, ReadsOrRefuses
<1>5. c \in Seq(STRING)
  BY <1>2, <1>3, GivenTexts
<1> HIDE DEF c, d
<1>6. Occurrences(c, d) # {} => Decimal(Min(Occurrences(c, d))) \in Seq(STRING)
  <2>1. Occurrences(c, d) # {} => Min(Occurrences(c, d)) \in Nat
    BY <1>5, FirstOccurrence
  <2> QED
    BY <2>1, DecimalText
<1>7. ASSUME y \in body, Occurrences(c, d) # {}
      PROVE  ToldText(x, y, Decimal(Min(Occurrences(c, d))))
  <2>1. y \in AnswerWith(r, Decimal(Min(Occurrences(c, d))))
    BY <1>7 DEF body
  <2> QED
    BY <1>2, <1>3, <1>6, <1>7, <2>1, AnswerTold
<1>8. ASSUME y \in body, Occurrences(c, d) = {}
      PROVE  y.out = "unsuccess"
  <2>1. y = Finish(r, "unsuccess")
    BY <1>8 DEF body, Unsuccess
  <2> QED
    BY <1>3, <2>1
<1> QED
  BY <1>3, <1>4, <1>7, <1>8

LEMMA ReplaceDid ==
  ASSUME NEW x, NEW k \in OfFive, Runs(k, x), NEW y \in StringReplace(x)
  PROVE  LET c == GivenText(x, 2)
             d == GivenText(x, 3)
             n == Min(Occurrences(c, d))
         IN  \/ Refused(k, x, y)
             \/ GivenLinks(k, x) /\ Occurrences(c, d) = {} /\ y.out = "again"
             \/ /\ GivenLinks(k, x) /\ Occurrences(c, d) # {}
                /\ ToldText(x, y, SubSeq(c, 1, n) \o GivenText(x, 4) \o SubSeq(c, n + Len(d) + 1, Len(c)))
<1> DEFINE r == ResetValues(x)
           c == Content(r, Value(r, 2))
           d == Content(r, Value(r, 3))
           f == Content(r, Value(r, 4))
           n == Min(Occurrences(c, d))
           answer == SubSeq(c, 1, n) \o f \o SubSeq(c, n + Len(d) + 1, Len(c))
           body == IF Occurrences(c, d) = {} THEN {Finish(r, "again")} ELSE AnswerWith(r, answer)
<1>1. y \in Reads(x, {2, 3, 4}, body)
  BY DEF StringReplace, Reading, Checked, Results, Reads, Error
<1>2. Given(k, x) = {2, 3, 4} /\ 1 \in DOMAIN x.operand /\ LinkSound(x)
  BY GivenOf DEF Runs, Strings
<1> HIDE DEF body
<1>3. /\ Cleared(x, r) /\ c = GivenText(x, 2) /\ d = GivenText(x, 3) /\ f = GivenText(x, 4)
      /\ Finish(r, "again").out = "again"
  BY <1>1, <1>2, GivenCleared
<1>4. Refused(k, x, y) \/ (GivenLinks(k, x) /\ y \in body)
  BY <1>1, <1>2, ReadsOrRefuses
<1>5. c \in Seq(STRING) /\ d \in Seq(STRING) /\ f \in Seq(STRING)
  BY <1>2, <1>3, GivenTexts
<1> HIDE DEF c, d, f
<1>6. Occurrences(c, d) # {} => answer \in Seq(STRING)
  <2> SUFFICES ASSUME Occurrences(c, d) # {} PROVE answer \in Seq(STRING)
    OBVIOUS
  <2>1. n \in 0 .. Len(c) /\ Len(c) \in Nat /\ Len(d) \in Nat
    BY <1>5, FirstOccurrence, LenProperties
  <2> HIDE DEF n
  <2>2. SubSeq(c, 1, n) \in Seq(STRING) /\ SubSeq(c, n + Len(d) + 1, Len(c)) \in Seq(STRING)
    BY <1>5, <2>1, Piece
  <2> QED
    BY <1>5, <2>2, ConcatProperties
<1> HIDE DEF answer
<1>7. ASSUME y \in body, Occurrences(c, d) # {}
      PROVE  ToldText(x, y, answer)
  <2>1. y \in AnswerWith(r, answer)
    BY <1>7 DEF body
  <2> QED
    BY <1>2, <1>3, <1>6, <1>7, <2>1, AnswerTold
<1>8. ASSUME y \in body, Occurrences(c, d) = {}
      PROVE  y.out = "again"
  <2>1. y = Finish(r, "again")
    BY <1>8 DEF body
  <2> QED
    BY <1>3, <2>1
<1> QED
  BY <1>3, <1>4, <1>7, <1>8 DEF answer, n

\* Indices are natural numbers.
LEMMA IndexNat ==
  ASSUME NEW c
  PROVE  IndexIn(c) \subseteq Nat
BY NumbersConverted, NumberAssumption, TextsAssumption DEF IndexIn, AsSize

LEMMA SliceDid ==
  ASSUME NEW x, NEW k \in OfFive, Runs(k, x), NEW y \in StringSlice(x)
  PROVE  LET c == GivenText(x, 2)
         IN  \/ Refused(k, x, y)
             \/ GivenLinks(k, x) /\ y.out = "unsuccess"
             \/ /\ GivenLinks(k, x)
                /\ \E i \in IndexIn(GivenText(x, 3)), j \in IndexIn(GivenText(x, 4)) :
                     i <= j /\ j <= Len(c) /\ ToldText(x, y, SubSeq(c, i + 1, j))
<1> DEFINE r == ResetValues(x)
           c == Content(r, Value(r, 2))
           d == Content(r, Value(r, 3))
           f == Content(r, Value(r, 4))
           first == IndexIn(d)
           last  == IndexIn(f)
           slice(i, j) == IF i > Len(c) \/ j < i \/ j > Len(c) THEN Unsuccess(r)
                          ELSE AnswerWith(r, SubSeq(c, i + 1, j))
           body == IF first = {} \/ last = {} THEN Unsuccess(r) ELSE UNION {slice(i, j) : i \in first, j \in last}
<1>1. y \in Reads(x, {2, 3, 4}, body)
  BY DEF StringSlice, Reading, Checked, Results, Reads, Error
<1>2. Given(k, x) = {2, 3, 4} /\ 1 \in DOMAIN x.operand /\ LinkSound(x)
  BY GivenOf DEF Runs, Strings
<1> HIDE DEF body
<1>3. /\ Cleared(x, r) /\ c = GivenText(x, 2) /\ d = GivenText(x, 3) /\ f = GivenText(x, 4)
      /\ Finish(r, "unsuccess").out = "unsuccess"
  BY <1>1, <1>2, GivenCleared
<1>4. Refused(k, x, y) \/ (GivenLinks(k, x) /\ y \in body)
  BY <1>1, <1>2, ReadsOrRefuses
<1>5. c \in Seq(STRING) /\ Len(c) \in Nat
  BY <1>2, <1>3, GivenTexts, LenProperties
<1>6. first \subseteq Nat /\ last \subseteq Nat
  BY IndexNat
<1> HIDE DEF c, d, f, first, last
<1>7. y \in Unsuccess(r) => y.out = "unsuccess"
  BY <1>3 DEF Unsuccess
<1>8. ASSUME NEW i \in first, NEW j \in last, y \in AnswerWith(r, SubSeq(c, i + 1, j)), ~(i > Len(c) \/ j < i \/ j > Len(c))
      PROVE  i <= j /\ j <= Len(c) /\ ToldText(x, y, SubSeq(c, i + 1, j))
  <2>1. i + 1 \in Nat \ {0} /\ j \in Int /\ j <= Len(c) /\ i <= j
    BY <1>5, <1>6, <1>8
  <2>2. SubSeq(c, i + 1, j) \in Seq(STRING)
    BY <1>5, <2>1, Piece
  <2> HIDE DEF r
  <2> QED
    BY <1>2, <1>3, <1>8, <2>1, <2>2, AnswerTold DEF r
<1>9. ASSUME y \in body
      PROVE  \/ y.out = "unsuccess"
             \/ \E i \in first, j \in last : i <= j /\ j <= Len(c) /\ ToldText(x, y, SubSeq(c, i + 1, j))
  <2>1. y \in Unsuccess(r) \/ \E i \in first, j \in last : y \in slice(i, j)
    BY <1>9 DEF body
  <2>2. CASE y \in Unsuccess(r)
    BY <1>7, <2>2
  <2>3. ASSUME NEW i \in first, NEW j \in last, y \in slice(i, j)
        PROVE  \/ y \in Unsuccess(r)
               \/ ~(i > Len(c) \/ j < i \/ j > Len(c)) /\ y \in AnswerWith(r, SubSeq(c, i + 1, j))
    BY <2>3
  <2> QED
    BY <1>7, <1>8, <2>1, <2>2, <2>3
<1> QED
  BY <1>3, <1>4, <1>9 DEF first, last

LEMMA CaseDid ==
  ASSUME NEW x, NEW k \in OfText, Runs(k, x), NEW case \in {Lower, Upper}, NEW y \in ToCase(x, case)
  PROVE  LET c == GivenText(x, 2)
         IN  \/ Refused(k, x, y)
             \/ GivenLinks(k, x) /\ y.out = "unsuccess"
             \/ GivenLinks(k, x) /\ \E a \in Seq(STRING) : Len(a) = Len(c) /\ ToldText(x, y, a)
<1> DEFINE r == ResetValues(x)
           c == Content(r, Value(r, 2))
           answer == [i \in DOMAIN c |-> IF c[i] \in DOMAIN case THEN case[c[i]] ELSE c[i]]
           body == IF c = <<>> THEN Unsuccess(r) ELSE AnswerWith(r, answer)
<1>1. y \in Reads(x, {2}, body)
  BY DEF ToCase, OnText, Reading, Checked, Results, Reads, Error
<1>2. Given(k, x) = {2} /\ 1 \in DOMAIN x.operand /\ LinkSound(x)
  BY GivenOf DEF Runs, Strings
<1> HIDE DEF body
<1>3. Cleared(x, r) /\ c = GivenText(x, 2) /\ Finish(r, "unsuccess").out = "unsuccess"
  BY <1>1, <1>2, GivenCleared
<1>4. Refused(k, x, y) \/ (GivenLinks(k, x) /\ y \in body)
  BY <1>1, <1>2, ReadsOrRefuses
<1>5. c \in Seq(STRING)
  BY <1>2, <1>3, GivenTexts
<1> HIDE DEF c
<1>6. answer \in Seq(STRING) /\ Len(answer) = Len(c)
  <2>1. DOMAIN c = 1 .. Len(c) /\ Len(c) \in Nat /\ \A i \in 1 .. Len(c) : c[i] \in STRING
    BY <1>5, LenProperties, ElementOfSeq
  <2>2. \A p \in DOMAIN case : case[p] \in STRING
    BY TextsAssumption
  <2>3. answer \in [1 .. Len(c) -> STRING]
    BY <2>1, <2>2
  <2> HIDE DEF answer
  <2>4. answer \in Seq(STRING)
    BY <2>1, <2>3, SeqDef
  <2>5. DOMAIN answer = 1 .. Len(c) /\ DOMAIN answer = 1 .. Len(answer) /\ Len(answer) \in Nat
    BY <2>3, <2>4, LenProperties
  <2> QED
    BY <2>1, <2>4, <2>5
<1> HIDE DEF answer
<1>7. ASSUME y \in body
      PROVE  y.out = "unsuccess" \/ ToldText(x, y, answer)
  <2>1. y \in Unsuccess(r) \/ y \in AnswerWith(r, answer)
    BY <1>7 DEF body
  <2> QED
    BY <1>2, <1>3, <1>6, <2>1, AnswerTold DEF Unsuccess
<1> QED
  BY <1>3, <1>4, <1>6, <1>7

\* Questions are answered.
LEMMA AskedDid ==
  ASSUME NEW x, NEW k \in Asking, Runs(k, x), NEW y, NEW condition,
         y \in Reads(x, {1, 2}, Answer(ResetValues(x), condition))
  PROVE  LET r == ResetValues(x)
         IN  /\ Content(r, Value(r, 1)) = GivenText(x, 1) /\ Content(r, Value(r, 2)) = GivenText(x, 2)
             /\ \/ Refused(k, x, y)
                \/ GivenLinks(k, x) /\ y.out = IF condition THEN "success" ELSE "unsuccess"
<1> DEFINE r == ResetValues(x)
           body == Answer(r, condition)
<1>1. y \in Reads(x, {1, 2}, body)
  OBVIOUS
<1>2. Given(k, x) = {1, 2}
  BY GivenOf DEF Runs, Questions
<1> HIDE DEF body
<1>3. /\ Content(r, Value(r, 1)) = GivenText(x, 1) /\ Content(r, Value(r, 2)) = GivenText(x, 2)
      /\ Finish(r, "unsuccess").out = "unsuccess" /\ Finish(r, "success").out = "success"
  BY <1>1, <1>2, GivenCleared
<1>4. Refused(k, x, y) \/ (GivenLinks(k, x) /\ y \in body)
  BY <1>1, <1>2, ReadsOrRefuses
<1>5. ASSUME y \in body
      PROVE  y.out = IF condition THEN "success" ELSE "unsuccess"
  BY <1>3, <1>5 DEF body, Answer, Success, Unsuccess
<1> QED
  BY <1>3, <1>4, <1>5

LEMMA GreaterDid ==
  ASSUME NEW x, NEW k \in Asking, Runs(k, x), NEW y \in StringIfGr(x)
  PROVE  \/ Refused(k, x, y)
         \/ GivenLinks(k, x) /\ y.out = IF Greater(GivenText(x, 1), GivenText(x, 2)) THEN "success" ELSE "unsuccess"
<1> DEFINE r == ResetValues(x)
           c == Content(r, Value(r, 1))
           d == Content(r, Value(r, 2))
<1>1. y \in Reads(x, {1, 2}, Answer(r, Greater(c, d)))
  BY DEF StringIfGr, OnTexts, Reading, Checked, Results, Reads, Error
<1>2. c = GivenText(x, 1) /\ d = GivenText(x, 2)
  BY <1>1, AskedDid
<1>3. Refused(k, x, y) \/ (GivenLinks(k, x) /\ y.out = IF Greater(c, d) THEN "success" ELSE "unsuccess")
  BY <1>1, AskedDid
<1> QED
  BY <1>2, <1>3

LEMMA OthersDid ==
  ASSUME NEW x, NEW k \in Asking, Runs(k, x), NEW y \in StringIfEq(x) \cup StringStartsWith(x) \cup StringEndsWith(x)
  PROVE  Refused(k, x, y) \/ (GivenLinks(k, x) /\ y.out \in {"success", "unsuccess"})
<1> DEFINE r == ResetValues(x)
           c == Content(r, Value(r, 1))
           d == Content(r, Value(r, 2))
<1>1. CASE y \in StringIfEq(x)
  <2>1. y \in Reads(x, {1, 2}, Answer(r, c = d))
    BY <1>1 DEF StringIfEq, OnTexts, Reading, Checked, Results, Reads, Error
  <2> QED
    BY <2>1, AskedDid
<1>2. CASE y \in StringStartsWith(x)
  <2>1. y \in Reads(x, {1, 2}, Answer(r, IsPrefix(d, c)))
    BY <1>2 DEF StringStartsWith, OnTexts, Reading, Checked, Results, Reads, Error
  <2> QED
    BY <2>1, AskedDid
<1>3. CASE y \in StringEndsWith(x)
  <2>1. y \in Reads(x, {1, 2}, Answer(r, IsSuffix(d, c)))
    BY <1>3 DEF StringEndsWith, OnTexts, Reading, Checked, Results, Reads, Error
  <2> QED
    BY <2>1, AskedDid
<1> QED
  BY <1>1, <1>2, <1>3

\* The elements that the answer leads to, in the order of the parts.
ToldParts(x, y, parts) ==
  \/ y.out = "thrown" /\ ~IsNode(Want(x, 1))
  \/ /\ y.out = "success"
     /\ \E e, first \in Nat :
          /\ AnswersOf(y, Value(y, 1)) = {e}
          /\ {Target(y, a) : a \in {b \in Connectors(y) : Source(y, b) = e}} = first .. first + Len(parts) - 1
          /\ \A i \in 1 .. Len(parts) : Content(y, first + i - 1) = parts[i]

LEMMA PartsTold ==
  ASSUME NEW x, NEW r, NEW parts \in Seq(Seq(STRING)),
         NEW y \in PrintOperatorAnswer(AddLinks(GenerateNode(r, ConstNode), r.fresh, parts), r.fresh),
         LinkSound(x), r = ResetValues(x), Cleared(x, r), 1 \in DOMAIN x.operand
  PROVE  ToldParts(x, y, parts)
<1> DEFINE e == r.fresh
           n == GenerateNode(r, ConstNode)
           g == AddLinks(n, e, parts)
           p == Len(parts)
           links == n.fresh .. n.fresh + p - 1
           arcs  == n.fresh + p .. n.fresh + 2 * p - 1
<1>1. LinkSound(r) /\ r.out = "run"
  BY ClearedSound
<1>2. LinkSound(n) /\ Kept(r, n) /\ Carries(r, n) /\ NodeStep(r, ConstNode, n)
  BY <1>1, NodeSound DEF ConstNode, Flag
<1> HIDE DEF n
<1>3. /\ n.out = "run" /\ e \in Exists(n) /\ n.value = r.value /\ n.operand = r.operand /\ n.content = r.content
      /\ n.fresh = e + 1 /\ n.ends = r.ends
  BY <1>1, <1>2 DEF NodeStep, Exists, Carries
<1>4. /\ LinkSound(g) /\ g.out = "run"
      /\ Kept(n, g) /\ MoreContents(n, g) /\ DOMAIN n.content \subseteq DOMAIN g.content
      /\ g.value = n.value /\ g.operand = n.operand
  BY <1>2, <1>3, LinksSound
<1>5. LinksStep(n, e, parts, g)
  BY <1>2, LinksAdded DEF LinkSound
<1> HIDE DEF g
<1>6. Kept(r, g)
  BY <1>1, <1>2, <1>4, KeptOn DEF LinkSound
<1>7. e \in Exists(g) \ Exists(r)
  BY <1>1, <1>3, <1>4, FreshIsNew DEF LinkSound, Kept
<1>8. Grown(r, g, e)
  BY <1>3, <1>4, <1>6, <1>7 DEF Grown, MoreContents
<1>9. Told(x, y, g, e)
  BY <1>8, PrintedTold DEF g, n
<1>10. p \in Nat /\ e \in Nat /\ Connectors(n) = Connectors(r) /\ Exists(r) = 1 .. e - 1
  BY <1>1, <1>3, LenProperties DEF LinkSound, Typed, IsMemory, Connectors
<1>11. \A a \in Connectors(r) : a \in Exists(r) /\ Source(n, a) # e
  <2>1. \A a \in Connectors(r) : a \in Exists(r) /\ Source(r, a) \in Exists(r)
    BY <1>1 DEF LinkSound, Typed, IsMemory, OfType, Source
  <2> QED
    BY <1>3, <1>7, <2>1 DEF Source
<1> HIDE DEF p
<1>12. /\ Connectors(g) = Connectors(r) \cup arcs
       /\ \A a \in arcs : g.ends[a] = <<e, a - p>>
       /\ \A a \in Connectors(r) : Source(g, a) # e
  <2>1. g.ends = [a \in Connectors(n) \cup arcs |-> IF a \in arcs THEN <<e, a - p>> ELSE n.ends[a]]
    BY <1>5 DEF LinksStep, p
  <2>2. arcs \cap Connectors(r) = {}
    <3>1. \A a \in arcs : a \notin Exists(r)
      BY <1>3, <1>10
    <3> QED
      BY <1>11, <3>1
  <2> HIDE DEF arcs
  <2>3. \A a \in Connectors(r) : g.ends[a] = n.ends[a]
    BY <1>10, <2>1, <2>2
  <2> QED
    BY <1>10, <1>11, <2>1, <2>3 DEF Connectors, Source
<1>13. \A i \in 1 .. p : n.fresh + i - 1 \in DOMAIN g.content /\ g.content[n.fresh + i - 1] = parts[i]
  <2> SUFFICES ASSUME NEW i \in 1 .. p
               PROVE  n.fresh + i - 1 \in DOMAIN g.content /\ g.content[n.fresh + i - 1] = parts[i]
    OBVIOUS
  <2>1. n.fresh + i - 1 \in links /\ (n.fresh + i - 1) - n.fresh + 1 = i
    BY <1>3, <1>10
  <2>2. g.content = [z \in DOMAIN n.content \cup links |->
                        IF z \in links THEN parts[z - n.fresh + 1] ELSE n.content[z]]
    BY <1>5 DEF LinksStep, p
  <2> HIDE DEF links
  <2> QED
    BY <2>1, <2>2
<1> HIDE DEF arcs, links
<1>14. ASSUME y.out = "success", AnswersOf(y, Value(y, 1)) = {e}, y.content = g.content, Kept(g, y),
              \A b \in Connectors(y) \ Connectors(g) : Source(y, b) # e
       PROVE  ToldParts(x, y, parts)
  <2>1. Connectors(g) \subseteq Connectors(y) /\ \A a \in Connectors(g) : y.ends[a] = g.ends[a]
    BY <1>14 DEF Kept, Restrict
  <2>2. {b \in Connectors(y) : Source(y, b) = e} = arcs
    <3>1. \A b \in Connectors(r) : Source(y, b) # e
      BY <1>12, <2>1 DEF Source
    <3>2. \A b \in arcs : b \in Connectors(y) /\ Source(y, b) = e
      BY <1>12, <2>1 DEF Source
    <3> QED
      BY <1>12, <1>14, <3>1, <3>2
  <2>3. \A a \in arcs : Target(y, a) = a - p
    BY <1>12, <2>1 DEF Target
  <2>4. {Target(y, a) : a \in arcs} = n.fresh .. n.fresh + p - 1
    <3>1. {Target(y, a) : a \in arcs} = {a - p : a \in arcs}
      BY <2>3
    <3>2. {a - p : a \in arcs} = n.fresh .. n.fresh + p - 1
      <4>1. \A z \in n.fresh .. n.fresh + p - 1 : z + p \in arcs /\ (z + p) - p = z
        BY <1>3, <1>10 DEF arcs
      <4>2. \A a \in arcs : a - p \in n.fresh .. n.fresh + p - 1
        BY <1>3, <1>10 DEF arcs
      <4> QED
        BY <4>1, <4>2
    <3> QED
      BY <3>1, <3>2
  <2>5. \A i \in 1 .. p : Content(y, n.fresh + i - 1) = parts[i]
    BY <1>13, <1>14 DEF Content
  <2>6. n.fresh \in Nat
    BY <1>3, <1>10
  <2> DEFINE first == n.fresh
             Leads(z, f) ==
               /\ AnswersOf(y, Value(y, 1)) = {z}
               /\ {Target(y, a) : a \in {b \in Connectors(y) : Source(y, b) = z}} = f .. f + Len(parts) - 1
               /\ \A i \in 1 .. Len(parts) : Content(y, f + i - 1) = parts[i]
  <2>7. Leads(e, first)
    BY <1>14, <2>2, <2>4, <2>5 DEF p
  <2> HIDE DEF first, Leads
  <2>8. \E z, f \in Nat : Leads(z, f)
    BY <1>10, <2>6, <2>7 DEF first
  <2> QED
    BY <1>14, <2>8 DEF ToldParts, Leads
<1> QED
  BY <1>9, <1>14 DEF Told, ToldParts

LEMMA SplitDid ==
  ASSUME NEW x, NEW k \in OfTexts, Runs(k, x), NEW y \in StringSplit(x)
  PROVE  \/ Refused(k, x, y)
         \/ GivenLinks(k, x) /\ ToldParts(x, y, Parts(GivenText(x, 2), Range(GivenText(x, 3))))
<1> DEFINE r == ResetValues(x)
           c == Content(r, Value(r, 2))
           d == Content(r, Value(r, 3))
           parts == Parts(c, Range(d))
           body == PrintOperatorAnswer(AddLinks(GenerateNode(r, ConstNode), r.fresh, parts), r.fresh)
<1>1. y \in Reads(x, {2, 3}, body)
  BY DEF StringSplit, OnTexts, Reading, Checked, Results, Reads, Error
<1>2. Given(k, x) = {2, 3} /\ 1 \in DOMAIN x.operand /\ LinkSound(x)
  BY GivenOf DEF Runs, Strings
<1> HIDE DEF body
<1>3. Cleared(x, r) /\ c = GivenText(x, 2) /\ d = GivenText(x, 3)
  BY <1>1, <1>2, GivenCleared
<1>4. Refused(k, x, y) \/ (GivenLinks(k, x) /\ y \in body)
  BY <1>1, <1>2, ReadsOrRefuses
<1>5. parts \in Seq(Seq(STRING))
  BY <1>2, <1>3, GivenTexts, PartsAreTexts
<1> HIDE DEF c, d, parts
<1>6. y \in body => ToldParts(x, y, parts)
  <2> HIDE DEF r
  <2> QED
    BY <1>2, <1>3, <1>5, PartsTold DEF body, r
<1> QED
  BY <1>3, <1>4, <1>6 DEF parts

-----------------------------------------------------------------------------
\* The operators that compare numbers.
Compares == {"ifEq", "ifGr"}

\* No operator is of two kinds.
LEMMA KindsDiffer ==
  /\ \A k \in Binary \cup Whole2 \cup Function1 : k \notin Strings \cup Asking \cup Compares
  /\ \A k \in Compares : k \notin Strings \cup Asking
  /\ \A k \in Strings : k \notin Asking \cup Compares \cup Binary \cup Whole2 \cup Function1
  /\ \A k \in Asking : k \notin Strings \cup Compares \cup Binary \cup Whole2 \cup Function1
  /\ \A k \in Binary : k \notin Whole2
  /\ \A k \in Function1 : k \notin Binary \cup Whole2
  /\ "stringReplace" \in OfFive
  /\ {"contDiv", "contDivInt", "contDivRem"} \subseteq Binary \cup Whole2
BY DEF Strings, Asking, Compares, Binary, Whole2, Function1, OfText, OfTexts, OfFive

LEMMA EndingOfRefused ==
  ASSUME NEW k, NEW x, NEW y, Refused(k, x, y)
  PROVE  Ending(k, x, y)
BY DEF Refused, Ending

\* An operator on numbers, or one that compares them.
LEMMA EndingOfNumbers ==
  ASSUME NEW k \in Binary \cup Whole2 \cup Function1, NEW x, NEW y, GivenLinks(k, x),
         y.out \in {"success", "unsuccess", "thrown", "killed"},
         y.out = "thrown" => \E i \in Given(k, x) : Bad(GivenText(x, i)),
         y.out = "killed" =>
           /\ k \in {"contDiv", "contDivInt", "contDivRem"}
           /\ \/ k \in Whole2 /\ \E i \in Given(k, x) : Form(GivenText(x, i)) # "int"
              \/ \E i \in Given(k, x) : Excess(GivenText(x, i))
              \/ \A n \in Number : ~Exact(k, n, NumberIn(GivenText(x, 2)), NumberIn(GivenText(x, 3)))
  PROVE  Ending(k, x, y)
<1> DEFINE texts == {GivenText(x, i) : i \in Given(k, x)}
<1>1. k \notin Strings \cup Asking \cup Compares /\ k # "stringReplace"
  BY KindsDiffer DEF Strings
<1>2. y.out \notin {"error", "again", "left"}
  OBVIOUS
<1>3. y.out = "thrown" => \E c \in texts : Misread(c) \/ TooLarge(c)
  BY DEF Bad
<1>4. y.out = "killed" =>
           /\ k \in {"contDiv", "contDivInt", "contDivRem"}
           /\ \/ \E c \in texts : Form(c) # "int" /\ k \in Whole2
              \/ \E c \in texts : Form(c) = "integer" /\ NumberIn(c) \notin Number
              \/ \A n \in Number : ~Exact(k, n, NumberIn(GivenText(x, 2)), NumberIn(GivenText(x, 3)))
  BY DEF Excess
<1> HIDE DEF texts
<1> QED
  BY <1>1, <1>2, <1>3, <1>4 DEF Ending, texts, Compares

LEMMA EndingOfComparison ==
  ASSUME NEW k \in Compares, NEW x, NEW y, GivenLinks(k, x), Given(k, x) = {1, 2},
         QuestionEnds(k, GivenText(x, 1), GivenText(x, 2), y)
  PROVE  Ending(k, x, y)
<1> DEFINE texts == {GivenText(x, i) : i \in Given(k, x)}
<1>1. k \notin Strings \cup Asking /\ k # "stringReplace" /\ k \in {"ifEq", "ifGr"}
  BY KindsDiffer DEF Strings, Compares
<1>2. y.out \notin {"error", "again", "killed"}
  BY DEF QuestionEnds
<1>3. texts = {GivenText(x, 1), GivenText(x, 2)}
  OBVIOUS
<1>4. y.out = "thrown" => \E c \in texts : Misread(c) \/ TooLarge(c)
  BY <1>3 DEF QuestionEnds, Bad
<1>5. {Form(c) : c \in texts} = {Form(GivenText(x, 1)), Form(GivenText(x, 2))}
  BY <1>3
<1>6. y.out = "left" <=> {Form(c) : c \in texts} = {"integer", "real"}
  BY <1>5 DEF QuestionEnds, Mixed
<1> HIDE DEF texts
<1> QED
  BY <1>1, <1>2, <1>4, <1>6 DEF Ending, texts

\* An operator on texts, but for stringReplace.
LEMMA EndingOfTexts ==
  ASSUME NEW k \in Strings \cup Asking, k # "stringReplace", NEW x, NEW y, GivenLinks(k, x),
         \/ y.out \in {"success", "unsuccess"}
         \/ k \in Strings /\ y.out = "thrown" /\ ~IsNode(Want(x, 1))
  PROVE  Ending(k, x, y)
<1>1. k \notin {"ifEq", "ifGr"} /\ y.out \notin {"error", "again", "left", "killed"}
  BY KindsDiffer DEF Compares
<1> QED
  BY <1>1 DEF Ending

-----------------------------------------------------------------------------
\* What stands from one place of a text to another.
LEMMA SliceIs ==
  ASSUME NEW c \in Seq(STRING), NEW d \in Seq(STRING), NEW n \in Nat, NEW m \in Nat, n <= m, m <= Len(c)
  PROVE  /\ SubSeq(c, n + 1, m) \in Seq(STRING) /\ Len(SubSeq(c, n + 1, m)) = m - n
         /\ \A i \in 1 .. m - n : SubSeq(c, n + 1, m)[i] = c[n + i]
         /\ SubSeq(c, n + 1, m) = d <=> Len(d) = m - n /\ \A i \in 1 .. m - n : d[i] = c[n + i]
<1> DEFINE s == SubSeq(c, n + 1, m)
<1>1. Len(c) \in Nat /\ Len(d) \in Nat
  BY LenProperties
<1>2. s \in Seq(STRING)
  BY <1>1, Piece
<1>3. Len(s) = m - n
  <2>1. Len(s) = IF n + 1 <= m THEN m - (n + 1) + 1 ELSE 0
    <3>1. \A i \in n + 1 .. m : c[i] \in STRING
      BY <1>1, ElementOfSeq
    <3> QED
      BY <3>1, SubSeqProperties
  <2> QED
    BY <1>1, <2>1
<1>4. \A i \in 1 .. m - n : s[i] = c[n + i]
  <2>1. \A i \in 1 .. m - (n + 1) + 1 : s[i] = c[n + 1 + i - 1]
    <3>1. \A i \in n + 1 .. m : c[i] \in STRING
      BY <1>1, ElementOfSeq
    <3> QED
      BY <3>1, SubSeqProperties
  <2> QED
    BY <2>1
<1> HIDE DEF s
<1>5. ASSUME Len(d) = m - n, \A i \in 1 .. m - n : d[i] = c[n + i]
      PROVE  s = d
  <2>1. \A i \in 1 .. Len(s) : s[i] = d[i]
    BY <1>3, <1>4, <1>5
  <2> QED
    BY <1>2, <1>3, <1>5, <2>1, SeqEqual
<1> QED
  BY <1>2, <1>3, <1>4, <1>5 DEF s

\* Where a text stands in another one.
LEMMA OccursAt ==
  ASSUME NEW c \in Seq(STRING), NEW d \in Seq(STRING), NEW n \in Nat
  PROVE  n \in Occurrences(c, d) <=> n + Len(d) <= Len(c) /\ SubSeq(c, n + 1, n + Len(d)) = d
<1>1. Len(c) \in Nat /\ Len(d) \in Nat
  BY LenProperties
<1>2. ASSUME n > Len(c)
      PROVE  n \notin Occurrences(c, d) /\ ~(n + Len(d) <= Len(c))
  BY <1>1, <1>2 DEF Occurrences
<1>3. ASSUME n <= Len(c)
      PROVE  n \in Occurrences(c, d) <=> n + Len(d) <= Len(c) /\ SubSeq(c, n + 1, n + Len(d)) = d
  <2> DEFINE rest == SubSeq(c, n + 1, Len(c))
             p == Len(d)
  <2>1. rest \in Seq(STRING) /\ Len(rest) = Len(c) - n /\ \A i \in 1 .. Len(c) - n : rest[i] = c[n + i]
    BY <1>1, <1>3, SliceIs
  <2>2. n \in Occurrences(c, d) <=> IsPrefix(d, rest)
    BY <1>1, <1>3 DEF Occurrences
  <2>3. SubSeq(d, 1, p) = d
    BY <1>1, SliceIs
  <2> HIDE DEF rest
  <2>4. p <= Len(rest) <=> n + p <= Len(c)
    BY <1>1, <2>1
  <2>5. ASSUME n + p <= Len(c)
        PROVE  SubSeq(rest, 1, p) = d <=> SubSeq(c, n + 1, n + p) = d
    <3>1. SubSeq(rest, 0 + 1, p) = d <=> Len(d) = p - 0 /\ \A i \in 1 .. p - 0 : d[i] = rest[0 + i]
      <4>1. p <= Len(rest) /\ 0 <= p /\ p \in Nat /\ 0 \in Nat
        BY <1>1, <2>4, <2>5
      <4> QED
        BY <2>1, <4>1, SliceIs
    <3>2. SubSeq(c, n + 1, n + p) = d <=> Len(d) = (n + p) - n /\ \A i \in 1 .. (n + p) - n : d[i] = c[n + i]
      <4>1. n + p \in Nat /\ n <= n + p
        BY <1>1
      <4> QED
        BY <2>5, <4>1, SliceIs
    <3>3. \A i \in 1 .. p : rest[i] = c[n + i]
      BY <1>1, <2>1, <2>5
    <3> QED
      BY <1>1, <3>1, <3>2, <3>3
  <2> QED
    BY <2>2, <2>3, <2>4, <2>5 DEF IsPrefix
<1> QED
  BY <1>1, <1>2, <1>3

LEMMA Nowhere ==
  ASSUME NEW c \in Seq(STRING), NEW d \in Seq(STRING)
  PROVE  Occurrences(c, d) = {} <=>
           \A i \in 0 .. Len(c) : \A j \in i .. Len(c) : SubSeq(c, i + 1, j) # d
<1>1. Len(c) \in Nat /\ Len(d) \in Nat
  BY LenProperties
<1>2. ASSUME NEW n \in Occurrences(c, d)
      PROVE  \E i \in 0 .. Len(c) : \E j \in i .. Len(c) : SubSeq(c, i + 1, j) = d
  <2>1. n \in 0 .. Len(c)
    BY <1>2 DEF Occurrences
  <2>2. n + Len(d) <= Len(c) /\ SubSeq(c, n + 1, n + Len(d)) = d
    BY <1>1, <1>2, <2>1, OccursAt
  <2>3. n + Len(d) \in n .. Len(c)
    BY <1>1, <2>1, <2>2
  <2> QED
    BY <2>1, <2>2, <2>3
<1>3. ASSUME NEW i \in 0 .. Len(c), NEW j \in i .. Len(c), SubSeq(c, i + 1, j) = d
      PROVE  i \in Occurrences(c, d)
  <2>1. i \in Nat /\ j \in Nat /\ i <= j /\ j <= Len(c)
    BY <1>1
  <2>2. Len(d) = j - i
    BY <1>3, <2>1, SliceIs
  <2>3. j = i + Len(d)
    BY <2>1, <2>2
  <2> QED
    BY <1>1, <1>3, <2>1, <2>3, OccursAt
<1> QED
  BY <1>2, <1>3

\* A text whose beginning and whose end are two others is the two together.
LEMMA Joined ==
  ASSUME NEW c \in Seq(STRING), NEW s \in Seq(STRING), NEW t \in Seq(STRING), Len(c) = Len(s) + Len(t),
         \A i \in 1 .. Len(s) : s[i] = c[i], \A i \in 1 .. Len(t) : t[i] = c[Len(s) + i]
  PROVE  s \o t = c
<1>1. Len(s) \in Nat /\ Len(t) \in Nat
  BY LenProperties
<1>2. /\ s \o t \in Seq(STRING) /\ Len(s \o t) = Len(s) + Len(t)
      /\ \A i \in 1 .. Len(s) + Len(t) : (s \o t)[i] = IF i <= Len(s) THEN s[i] ELSE t[i - Len(s)]
  BY ConcatProperties
<1>3. \A i \in 1 .. Len(s) + Len(t) : (s \o t)[i] = c[i]
  <2> TAKE i \in 1 .. Len(s) + Len(t)
  <2>1. CASE i <= Len(s)
    BY <1>1, <1>2, <2>1
  <2>2. CASE i > Len(s)
    <3>1. i - Len(s) \in 1 .. Len(t) /\ Len(s) + (i - Len(s)) = i
      BY <1>1, <2>2
    <3>2. t[i - Len(s)] = c[i]
      BY <3>1
    <3> QED
      BY <1>1, <1>2, <2>2, <3>2
  <2> QED
    BY <1>1, <2>1, <2>2
<1> QED
  BY <1>2, <1>3, SeqEqual

LEMMA SliceJoin ==
  ASSUME NEW c \in Seq(STRING), NEW i \in Nat, NEW j \in Nat, NEW m \in Nat, i <= j, j <= m, m <= Len(c)
  PROVE  SubSeq(c, i + 1, j) \o SubSeq(c, j + 1, m) = SubSeq(c, i + 1, m)
<1> DEFINE s == SubSeq(c, i + 1, j)
           t == SubSeq(c, j + 1, m)
           u == SubSeq(c, i + 1, m)
<1>1. Len(c) \in Nat
  BY LenProperties
<1>2. s \in Seq(STRING) /\ Len(s) = j - i /\ \A z \in 1 .. j - i : s[z] = c[i + z]
  <2>1. j <= Len(c)
    BY <1>1
  <2> QED
    BY <2>1, SliceIs
<1>3. t \in Seq(STRING) /\ Len(t) = m - j /\ \A z \in 1 .. m - j : t[z] = c[j + z]
  BY SliceIs
<1>4. u \in Seq(STRING) /\ Len(u) = m - i /\ \A z \in 1 .. m - i : u[z] = c[i + z]
  BY SliceIs
<1> HIDE DEF s, t, u
<1>5. Len(u) = Len(s) + Len(t)
  BY <1>2, <1>3, <1>4
<1>6. \A z \in 1 .. Len(s) : s[z] = u[z]
  BY <1>2, <1>4
<1>7. \A z \in 1 .. Len(t) : t[z] = u[Len(s) + z]
  <2> TAKE z \in 1 .. Len(t)
  <2>1. z \in 1 .. m - j /\ (j - i) + z \in 1 .. m - i /\ i + ((j - i) + z) = j + z
    BY <1>3
  <2>2. t[z] = c[j + z]
    BY <1>3, <2>1
  <2>3. u[(j - i) + z] = c[i + ((j - i) + z)]
    BY <1>4, <2>1
  <2> QED
    BY <1>2, <2>1, <2>2, <2>3
<1> QED
  BY <1>2, <1>3, <1>4, <1>5, <1>6, <1>7, Joined DEF s, t, u

\* A text is made up of what stands before a place, between two and after them.
LEMMA Cut ==
  ASSUME NEW c \in Seq(STRING), NEW n \in Nat, NEW m \in Nat, n <= m, m <= Len(c)
  PROVE  c = SubSeq(c, 1, n) \o SubSeq(c, n + 1, m) \o SubSeq(c, m + 1, Len(c))
<1>1. Len(c) \in Nat /\ 0 \in Nat /\ 0 <= n /\ 0 <= m /\ Len(c) <= Len(c) /\ 0 + 1 = 1
  BY LenProperties
<1>2. SubSeq(c, 0 + 1, n) \o SubSeq(c, n + 1, m) = SubSeq(c, 0 + 1, m)
  BY <1>1, SliceJoin
<1>3. SubSeq(c, 0 + 1, m) \o SubSeq(c, m + 1, Len(c)) = SubSeq(c, 0 + 1, Len(c))
  BY <1>1, SliceJoin
<1>4. SubSeq(c, 0 + 1, Len(c)) = c
  <2>1. 0 <= Len(c) /\ Len(c) = Len(c) - 0 /\ \A z \in 1 .. Len(c) - 0 : c[z] = c[0 + z]
    BY <1>1
  <2> QED
    BY <1>1, <2>1, SliceIs
<1> QED
  BY <1>1, <1>2, <1>3, <1>4

-----------------------------------------------------------------------------
\* How accepted operators on numbers end.
LEMMA ArithmeticDid ==
  ASSUME NEW x, NEW k \in Binary, NEW op \in Operations, Computes(k, op), Runs(k, x), NEW y \in Arithmetic(x, op)
  PROVE  Refused(k, x, y) \/ (GivenLinks(k, x) /\ BinaryEnds(k, GivenText(x, 2), GivenText(x, 3), y))
<1> DEFINE r == ResetValues(x)
           c == Content(r, Value(r, 2))
           d == Content(r, Value(r, 3))
           body == ArithmeticBody(r, op, c, d)
<1>1. y \in Reads(x, {2, 3}, body)
  BY DEF Arithmetic, ArithmeticBody, Reading, Checked, Results, Reads, Error
<1>2. Given(k, x) = {2, 3} /\ 1 \in DOMAIN x.operand /\ LinkSound(x)
  BY GivenOf DEF Runs, NumberKinds
<1> HIDE DEF body
<1>3. Cleared(x, r) /\ c = GivenText(x, 2) /\ d = GivenText(x, 3)
  BY <1>1, <1>2, GivenCleared
<1>4. Refused(k, x, y) \/ (GivenLinks(k, x) /\ y \in body)
  BY <1>1, <1>2, ReadsOrRefuses
<1>5. c \in Seq(STRING) /\ d \in Seq(STRING)
  BY <1>2, <1>3, GivenTexts
<1> HIDE DEF r, c, d
<1>6. y \in body => BinaryEnds(k, c, d, y)
  BY <1>2, <1>3, <1>5, ArithmeticEnds DEF body, r
<1> QED
  BY <1>3, <1>4, <1>6

LEMMA WholeDivisionDid ==
  ASSUME NEW x, NEW k \in Whole2, NEW op \in Operations, Computes(k, op), Runs(k, x), NEW y \in WholeDivision(x, op)
  PROVE  Refused(k, x, y) \/ (GivenLinks(k, x) /\ WholeEnds(k, GivenText(x, 2), GivenText(x, 3), y))
<1> DEFINE r == ResetValues(x)
           c == Content(r, Value(r, 2))
           d == Content(r, Value(r, 3))
           body == Conclude(r, Computed(op, NumberRead(c), NumberRead(d)))
<1>1. y \in Reads(x, {2, 3}, body)
  BY DEF WholeDivision, Reading, Checked, Results, Reads, Error
<1>2. Given(k, x) = {2, 3} /\ 1 \in DOMAIN x.operand /\ LinkSound(x)
  BY GivenOf DEF Runs, NumberKinds
<1> HIDE DEF body
<1>3. Cleared(x, r) /\ c = GivenText(x, 2) /\ d = GivenText(x, 3)
  BY <1>1, <1>2, GivenCleared
<1>4. Refused(k, x, y) \/ (GivenLinks(k, x) /\ y \in body)
  BY <1>1, <1>2, ReadsOrRefuses
<1>5. c \in Seq(STRING) /\ d \in Seq(STRING)
  BY <1>2, <1>3, GivenTexts
<1> HIDE DEF r, c, d
<1>6. y \in body => WholeEnds(k, c, d, y)
  BY <1>2, <1>3, <1>5, WholeDivisionEnds DEF body, r
<1> QED
  BY <1>3, <1>4, <1>6

LEMMA FunctionDid ==
  ASSUME NEW x, NEW k \in Function1, NEW f, Runs(k, x), NEW y \in Function(x, f)
  PROVE  \/ Refused(k, x, y)
         \/ /\ GivenLinks(k, x) /\ y.out \in {"success", "unsuccess", "thrown"}
            /\ y.out = "thrown" => Bad(GivenText(x, 2))
<1> DEFINE r == ResetValues(x)
           c == Content(r, Value(r, 2))
           body == FunctionBody(r, f, c)
<1>1. y \in Reads(x, {2}, body)
  BY DEF Function, FunctionBody, Reading, Checked, Results, Reads, Error
<1>2. Given(k, x) = {2} /\ 1 \in DOMAIN x.operand /\ LinkSound(x)
  BY GivenOf DEF Runs, NumberKinds
<1> HIDE DEF body
<1>3. Cleared(x, r) /\ c = GivenText(x, 2)
  BY <1>1, <1>2, GivenCleared
<1>4. Refused(k, x, y) \/ (GivenLinks(k, x) /\ y \in body)
  BY <1>1, <1>2, ReadsOrRefuses
<1>5. c \in Seq(STRING)
  BY <1>2, <1>3, GivenTexts
<1> HIDE DEF r, c
<1>6. y \in body => y.out \in {"success", "unsuccess", "thrown"} /\ (y.out = "thrown" => Bad(c))
  BY <1>2, <1>3, <1>5, FunctionEnds DEF body, r
<1> QED
  BY <1>3, <1>4, <1>6

LEMMA CompareDid ==
  ASSUME NEW x, NEW k \in Compares, Runs(k, x), NEW y,
         \/ k = "ifEq" /\ y \in IfEq(x)
         \/ k = "ifGr" /\ y \in IfGr(x)
  PROVE  \/ Refused(k, x, y)
         \/ GivenLinks(k, x) /\ QuestionEnds(k, GivenText(x, 1), GivenText(x, 2), y)
<1> DEFINE r == ResetValues(x)
           c == Content(r, Value(r, 1))
           d == Content(r, Value(r, 2))
           body == CompareBody(k, r, c, d)
<1>1. y \in Reads(x, {1, 2}, body)
  <2>1. CASE k = "ifEq" /\ y \in IfEq(x)
    BY <2>1, ComparedBy
  <2>2. CASE k = "ifGr" /\ y \in IfGr(x)
    BY <2>2, ComparedBy
  <2> QED
    BY <2>1, <2>2
<1>2. Given(k, x) = {1, 2} /\ LinkSound(x)
  BY GivenOf DEF Runs, Questions, Compares
<1> HIDE DEF body
<1>3. Cleared(x, r) /\ c = GivenText(x, 1) /\ d = GivenText(x, 2)
  BY <1>1, <1>2, GivenCleared
<1>4. Refused(k, x, y) \/ (GivenLinks(k, x) /\ y \in body)
  BY <1>1, <1>2, ReadsOrRefuses
<1>5. c \in Seq(STRING) /\ d \in Seq(STRING)
  BY <1>2, <1>3, GivenTexts
<1> HIDE DEF r, c, d
<1>6. y \in body => QuestionEnds(k, c, d, y)
  BY <1>2, <1>3, <1>5, CompareEnds DEF body, r
<1> QED
  BY <1>3, <1>4, <1>6

\* What the operators on numbers come to.
LEMMA BinaryEnding ==
  ASSUME NEW k \in Binary, NEW x, NEW y, Runs(k, x), GivenLinks(k, x),
         BinaryEnds(k, GivenText(x, 2), GivenText(x, 3), y)
  PROVE  Ending(k, x, y) /\ Calculating(k, x, y)
<1>1. Given(k, x) = {2, 3}
  BY GivenOf DEF Runs
<1>2. k \notin {"ifEq", "ifGr"} /\ k \notin Whole2
  BY KindsDiffer DEF Compares
<1>3. Ending(k, x, y)
  <2>1. y.out \in {"success", "unsuccess", "thrown", "killed"}
    BY DEF BinaryEnds, Faultless
  <2>2. y.out = "thrown" => \E i \in Given(k, x) : Bad(GivenText(x, i))
    BY <1>1 DEF BinaryEnds, Faultless
  <2>3. y.out = "killed" =>
          /\ k \in {"contDiv", "contDivInt", "contDivRem"}
          /\ \/ k \in Whole2 /\ \E i \in Given(k, x) : Form(GivenText(x, i)) # "int"
             \/ \E i \in Given(k, x) : Excess(GivenText(x, i))
             \/ \A n \in Number : ~Exact(k, n, NumberIn(GivenText(x, 2)), NumberIn(GivenText(x, 3)))
    BY <1>1 DEF BinaryEnds
  <2> QED
    BY <2>1, <2>2, <2>3, EndingOfNumbers
<1>4. Calculating(k, x, y)
  <2> DEFINE c == GivenText(x, 2)
             d == GivenText(x, 3)
  <2> HIDE DEF c, d
  <2>1. RightAnswer(k, c, d, y)
    BY DEF BinaryEnds, c, d
  <2>2. ~Misread(c) /\ ~Misread(d) =>
          /\ y.out = "success" /\ AnswerOf(y) = <<>> <=> Mixed(c, d)
          /\ Form(c) # Form(d) /\ ~Mixed(c, d) => y.out = "unsuccess"
    BY DEF BinaryEnds, c, d
  <2>3. GivenText(x, 2) = c /\ GivenText(x, 2 + 1) = d
    BY DEF c, d
  <2>4. Calculating(k, x, y) <=>
          /\ RightAnswer(k, c, d, y)
          /\ ~Misread(c) /\ ~Misread(d) =>
               /\ y.out = "success" /\ AnswerOf(y) = <<>> <=> Mixed(c, d)
               /\ Form(c) # Form(d) /\ ~Mixed(c, d) => y.out = "unsuccess"
    BY <1>2, <2>3 DEF Calculating, RightAnswer
  <2> QED
    BY <2>1, <2>2, <2>4
<1> QED
  BY <1>3, <1>4

LEMMA WholeEnding ==
  ASSUME NEW k \in Whole2, NEW x, NEW y, Runs(k, x), GivenLinks(k, x),
         WholeEnds(k, GivenText(x, 2), GivenText(x, 3), y)
  PROVE  Ending(k, x, y) /\ Calculating(k, x, y)
<1>1. Given(k, x) = {2, 3}
  BY GivenOf DEF Runs
<1>2. k \notin {"ifEq", "ifGr"} /\ k \notin Binary
  BY KindsDiffer DEF Compares
<1>3. Ending(k, x, y)
  <2>1. y.out \in {"success", "unsuccess", "thrown", "killed"}
    BY DEF WholeEnds, Faultless
  <2>2. y.out = "thrown" => \E i \in Given(k, x) : Bad(GivenText(x, i))
    BY <1>1 DEF WholeEnds, Faultless
  <2>3. y.out = "killed" =>
          /\ k \in {"contDiv", "contDivInt", "contDivRem"}
          /\ \/ k \in Whole2 /\ \E i \in Given(k, x) : Form(GivenText(x, i)) # "int"
             \/ \E i \in Given(k, x) : Excess(GivenText(x, i))
             \/ \A n \in Number : ~Exact(k, n, NumberIn(GivenText(x, 2)), NumberIn(GivenText(x, 3)))
    BY <1>1 DEF WholeEnds, Whole2
  <2> QED
    BY <2>1, <2>2, <2>3, EndingOfNumbers
<1>4. Calculating(k, x, y)
  BY <1>2 DEF Calculating, WholeEnds, RightAnswer
<1> QED
  BY <1>3, <1>4

LEMMA ComparisonEnding ==
  ASSUME NEW k \in Compares, NEW x, NEW y, Runs(k, x), GivenLinks(k, x),
         QuestionEnds(k, GivenText(x, 1), GivenText(x, 2), y)
  PROVE  Ending(k, x, y) /\ Calculating(k, x, y)
<1>1. Given(k, x) = {1, 2}
  BY GivenOf DEF Runs, Questions, Compares
<1>2. k \notin Binary
  BY KindsDiffer
<1>3. Ending(k, x, y)
  BY <1>1, EndingOfComparison
<1>4. Calculating(k, x, y)
  BY <1>2 DEF Calculating, QuestionEnds, Truth, Compares
<1> QED
  BY <1>3, <1>4

-----------------------------------------------------------------------------
\* Beginnings and ends, place by place.
LEMMA PrefixIs ==
  ASSUME NEW c \in Seq(STRING), NEW d \in Seq(STRING)
  PROVE  IsPrefix(d, c) <=> Len(d) <= Len(c) /\ \A i \in 1 .. Len(d) : d[i] = c[i]
<1>1. Len(c) \in Nat /\ Len(d) \in Nat
  BY LenProperties
<1>2. \A e \in Seq(STRING) : Len(d) <= Len(e) =>
        /\ Len(SubSeq(e, 1, Len(d))) = Len(d) /\ SubSeq(e, 1, Len(d)) \in Seq(STRING)
        /\ \A i \in 1 .. Len(d) : SubSeq(e, 1, Len(d))[i] = e[i]
  <2> SUFFICES ASSUME NEW e \in Seq(STRING), Len(d) <= Len(e)
               PROVE  /\ Len(SubSeq(e, 1, Len(d))) = Len(d) /\ SubSeq(e, 1, Len(d)) \in Seq(STRING)
                      /\ \A i \in 1 .. Len(d) : SubSeq(e, 1, Len(d))[i] = e[i]
    OBVIOUS
  <2>1. 0 \in Nat /\ 0 <= Len(d) /\ 0 + 1 = 1
    BY <1>1
  <2>2. /\ Len(SubSeq(e, 0 + 1, Len(d))) = Len(d) - 0 /\ SubSeq(e, 0 + 1, Len(d)) \in Seq(STRING)
        /\ \A i \in 1 .. Len(d) - 0 : SubSeq(e, 0 + 1, Len(d))[i] = e[0 + i]
    BY <1>1, <2>1, SliceIs
  <2>3. Len(d) - 0 = Len(d) /\ \A i \in 1 .. Len(d) : 0 + i = i
    BY <1>1
  <2> QED
    BY <2>1, <2>2, <2>3
<1>3. SubSeq(d, 1, Len(d)) \in Seq(STRING) /\ Len(SubSeq(d, 1, Len(d))) = Len(d)
      /\ \A i \in 1 .. Len(d) : SubSeq(d, 1, Len(d))[i] = d[i]
  BY <1>1, <1>2
<1>4. ASSUME Len(d) <= Len(c), \A i \in 1 .. Len(d) : d[i] = c[i]
      PROVE  SubSeq(d, 1, Len(d)) = SubSeq(c, 1, Len(d))
  <2> DEFINE s == SubSeq(d, 1, Len(d))
             t == SubSeq(c, 1, Len(d))
  <2>1. t \in Seq(STRING) /\ Len(t) = Len(d) /\ \A i \in 1 .. Len(d) : t[i] = c[i]
    BY <1>2, <1>4
  <2>2. s \in Seq(STRING) /\ Len(s) = Len(d) /\ \A i \in 1 .. Len(d) : s[i] = d[i]
    BY <1>3
  <2> HIDE DEF s, t
  <2>3. Len(s) = Len(t) /\ \A i \in 1 .. Len(s) : s[i] = t[i]
    BY <1>4, <2>1, <2>2
  <2>4. s = t
    BY <2>1, <2>2, <2>3, SeqEqual
  <2> QED
    BY <2>4 DEF s, t
<1>5. ASSUME Len(d) <= Len(c), SubSeq(d, 1, Len(d)) = SubSeq(c, 1, Len(d))
      PROVE  \A i \in 1 .. Len(d) : d[i] = c[i]
  <2> DEFINE s == SubSeq(d, 1, Len(d))
             t == SubSeq(c, 1, Len(d))
  <2>1. \A i \in 1 .. Len(d) : t[i] = c[i]
    BY <1>2, <1>5
  <2>2. \A i \in 1 .. Len(d) : s[i] = d[i]
    BY <1>3
  <2>3. s = t
    BY <1>5
  <2> HIDE DEF s, t
  <2> QED
    BY <2>1, <2>2, <2>3
<1> QED
  BY <1>4, <1>5 DEF IsPrefix

LEMMA ConcatSides ==
  ASSUME NEW c \in Seq(STRING), NEW d \in Seq(STRING)
  PROVE  IsPrefix(c, c \o d) /\ IsSuffix(d, c \o d) /\ Len(c \o d) = Len(c) + Len(d)
<1> DEFINE s == c \o d
<1>1. Len(c) \in Nat /\ Len(d) \in Nat
  BY LenProperties
<1>2. /\ s \in Seq(STRING) /\ Len(s) = Len(c) + Len(d)
      /\ \A i \in 1 .. Len(c) + Len(d) : s[i] = IF i <= Len(c) THEN c[i] ELSE d[i - Len(c)]
  BY ConcatProperties
<1> HIDE DEF s
<1>3. IsPrefix(c, s)
  <2>1. Len(c) <= Len(s) /\ \A i \in 1 .. Len(c) : c[i] = s[i]
    BY <1>1, <1>2
  <2> QED
    BY <1>2, <2>1, PrefixIs
<1>4. ASSUME NEW t \in Seq(STRING)
      PROVE  /\ Reverse(t) \in Seq(STRING) /\ Len(Reverse(t)) = Len(t)
             /\ \A i \in 1 .. Len(t) : Reverse(t)[i] = t[(Len(t) - i) + 1]
  <2>1. Len(t) \in Nat
    BY <1>4, LenProperties
  <2>2. \A i \in 1 .. Len(t) : t[(Len(t) - i) + 1] \in STRING
    BY <1>4, <2>1, ElementOfSeq
  <2>3. Reverse(t) = [i \in 1 .. Len(t) |-> t[(Len(t) - i) + 1]]
    BY DEF Reverse
  <2>4. Reverse(t) \in [1 .. Len(t) -> STRING]
    BY <2>2, <2>3
  <2>5. Reverse(t) \in Seq(STRING)
    BY <2>1, <2>4, SeqDef
  <2>6. Len(Reverse(t)) = Len(t)
    BY <2>1, <2>4, <2>5, LenProperties
  <2> QED
    BY <2>3, <2>5, <2>6
<1>5. IsSuffix(d, s)
  <2>1. /\ Reverse(d) \in Seq(STRING) /\ Len(Reverse(d)) = Len(d)
        /\ \A i \in 1 .. Len(d) : Reverse(d)[i] = d[(Len(d) - i) + 1]
    BY <1>4
  <2>2. /\ Reverse(s) \in Seq(STRING) /\ Len(Reverse(s)) = Len(s)
        /\ \A i \in 1 .. Len(s) : Reverse(s)[i] = s[(Len(s) - i) + 1]
    BY <1>2, <1>4
  <2>3. \A i \in 1 .. Len(d) : s[(Len(s) - i) + 1] = d[(Len(d) - i) + 1]
    <3> TAKE i \in 1 .. Len(d)
    <3> DEFINE j == (Len(s) - i) + 1
    <3>1. j \in 1 .. Len(c) + Len(d) /\ ~(j <= Len(c)) /\ j - Len(c) = (Len(d) - i) + 1
      BY <1>1, <1>2
    <3> HIDE DEF j
    <3>2. s[j] = d[j - Len(c)]
      BY <1>2, <3>1
    <3> QED
      BY <3>1, <3>2 DEF j
  <2>4. Len(Reverse(d)) <= Len(Reverse(s)) /\ \A i \in 1 .. Len(Reverse(d)) : Reverse(d)[i] = Reverse(s)[i]
    BY <1>1, <1>2, <2>1, <2>2, <2>3
  <2> QED
    BY <2>1, <2>2, <2>4, PrefixIs DEF IsSuffix
<1> QED
  BY <1>2, <1>3, <1>5 DEF s

\* What is around an occurrence, and an occurrence from what is around it.
LEMMA OccurrenceAround ==
  ASSUME NEW s \in Seq(STRING), NEW t \in Seq(STRING), NEW n \in Nat,
         n + Len(s) <= Len(t), SubSeq(t, n + 1, n + Len(s)) = s
  PROVE  /\ <<SubSeq(t, 1, n), SubSeq(t, n + Len(s) + 1, Len(t))>> \in Around(s, t)
         /\ Len(SubSeq(t, 1, n)) = n
<1> DEFINE a == SubSeq(t, 1, n)
           b == SubSeq(t, n + Len(s) + 1, Len(t))
<1>1. Len(s) \in Nat /\ Len(t) \in Nat
  BY LenProperties
<1>2. n + Len(s) \in Nat /\ n <= n + Len(s) /\ n \in 0 .. Len(t) /\ n <= Len(t)
  BY <1>1
<1>3. t = a \o s \o b
  BY <1>2, Cut
<1>4. Len(a) = n
  <2>1. Len(SubSeq(t, 0 + 1, n)) = n - 0
    BY <1>1, <1>2, SliceIs
  <2> QED
    BY <2>1
<1>5. <<a, b>> \in {<<SubSeq(t, 1, m), SubSeq(t, m + Len(s) + 1, Len(t))>> : m \in 0 .. Len(t)}
  BY <1>2
<1> HIDE DEF a, b
<1>6. <<a, b>> \in Around(s, t)
  BY <1>3, <1>5 DEF Around
<1> QED
  BY <1>4, <1>6 DEF a, b

LEMMA AroundOccurrence ==
  ASSUME NEW s \in Seq(STRING), NEW t \in Seq(STRING), NEW p \in Around(s, t)
  PROVE  Len(p[1]) \in Occurrences(t, s)
<1>1. PICK n \in 0 .. Len(t) : p = <<SubSeq(t, 1, n), SubSeq(t, n + Len(s) + 1, Len(t))>>
  BY DEF Around
<1> DEFINE a == SubSeq(t, 1, n)
           b == SubSeq(t, n + Len(s) + 1, Len(t))
<1>2. Len(s) \in Nat /\ Len(t) \in Nat /\ n \in Nat
  BY LenProperties
<1>3. p[1] = a /\ a \o s \o b = t
  BY <1>1 DEF Around
<1>4. a \in Seq(STRING) /\ Len(a) = n
  <2>1. a \in Seq(STRING)
    BY <1>2, Piece
  <2>2. Len(SubSeq(t, 0 + 1, n)) = n - 0
    BY <1>2, SliceIs
  <2> QED
    BY <1>2, <2>1, <2>2
<1>5. b \in Seq(STRING)
  BY <1>2, Piece
<1> HIDE DEF a, b
<1>6. /\ a \o s \in Seq(STRING) /\ Len(a \o s) = n + Len(s)
      /\ \A i \in 1 .. n + Len(s) : (a \o s)[i] = IF i <= n THEN a[i] ELSE s[i - n]
  BY <1>4, ConcatProperties
<1> DEFINE u == a \o s
<1> HIDE DEF u
<1>7. u \in Seq(STRING) /\ Len(u) = n + Len(s) /\ \A i \in 1 .. n + Len(s) : u[i] = IF i <= n THEN a[i] ELSE s[i - n]
  BY <1>6 DEF u
<1>8. t = u \o b
  BY <1>3 DEF u
<1>9. /\ Len(t) = Len(u) + Len(b)
      /\ \A i \in 1 .. Len(u) + Len(b) : t[i] = IF i <= Len(u) THEN u[i] ELSE b[i - Len(u)]
  BY <1>5, <1>7, <1>8, ConcatProperties
<1>10. Len(b) \in Nat
  BY <1>5, LenProperties
<1>11. n + Len(s) <= Len(t)
  BY <1>2, <1>7, <1>9, <1>10
<1>12. \A i \in 1 .. Len(s) : s[i] = t[n + i]
  <2> TAKE i \in 1 .. Len(s)
  <2>1. n + i \in 1 .. n + Len(s) /\ ~(n + i <= n) /\ (n + i) - n = i /\ n + i \in 1 .. Len(u) + Len(b) /\ n + i <= Len(u)
    BY <1>2, <1>7, <1>10
  <2>2. u[n + i] = s[(n + i) - n]
    BY <1>7, <2>1
  <2>3. t[n + i] = u[n + i]
    BY <1>9, <2>1
  <2> QED
    BY <2>1, <2>2, <2>3
<1>13. SubSeq(t, n + 1, n + Len(s)) = s
  <2>1. (n + Len(s)) - n = Len(s) /\ n + Len(s) \in Nat /\ n <= n + Len(s)
    BY <1>2
  <2> QED
    BY <1>2, <1>11, <1>12, <2>1, SliceIs
<1> QED
  BY <1>2, <1>3, <1>4, <1>11, <1>13, OccursAt

\* The first of several occurrences.
LEMMA FirstAround ==
  ASSUME NEW c \in Seq(STRING), NEW d \in Seq(STRING), Occurrences(c, d) # {}
  PROVE  LET n == Min(Occurrences(c, d))
             p == <<SubSeq(c, 1, n), SubSeq(c, n + Len(d) + 1, Len(c))>>
         IN  /\ n \in 0 .. Len(c) /\ p \in Around(d, c) /\ Len(p[1]) = n
             /\ \A q \in Around(d, c) : Len(p[1]) <= Len(q[1])
<1> DEFINE n == Min(Occurrences(c, d))
           p == <<SubSeq(c, 1, n), SubSeq(c, n + Len(d) + 1, Len(c))>>
<1>1. Len(c) \in Nat
  BY LenProperties
<1>2. Occurrences(c, d) \in SUBSET Nat
  BY <1>1 DEF Occurrences
<1>3. n \in Occurrences(c, d) /\ \A m \in Occurrences(c, d) : n <= m
  BY <1>2, MinExists
<1>4. n \in 0 .. Len(c)
  BY FirstOccurrence
<1> HIDE DEF n
<1>5. n \in Nat /\ n + Len(d) <= Len(c) /\ SubSeq(c, n + 1, n + Len(d)) = d
  BY <1>1, <1>3, <1>4, OccursAt
<1>6. p \in Around(d, c) /\ Len(SubSeq(c, 1, n)) = n
  BY <1>5, OccurrenceAround
<1>7. p[1] = SubSeq(c, 1, n)
  OBVIOUS
<1> HIDE DEF p
<1>8. \A q \in Around(d, c) : n <= Len(q[1])
  BY <1>3, AroundOccurrence
<1> QED
  BY <1>4, <1>6, <1>7, <1>8 DEF n, p

-----------------------------------------------------------------------------
\* Where parts of c begin: with it, and after each separator.
Begins(c, separators) == {0} \cup {i \in DOMAIN c : c[i] \in separators}

\* p is what stands from b to the next separator, or to the end.
Fills(c, separators, p, b) ==
  /\ p = SubSeq(c, b + 1, b + Len(p))
  /\ b + Len(p) + 1 \in {i \in DOMAIN c : c[i] \in separators} \cup {Len(c) + 1}
  /\ Range(p) \cap separators = {}

LEMMA PartsFill ==
  ASSUME NEW c \in Seq(STRING), NEW separators
  PROVE  \E n \in Nat : \E starts \in Bijection(1 .. n, Begins(c, separators)) :
           /\ Len(Parts(c, separators)) = n
           /\ \A k \in 1 .. n : Fills(c, separators, Parts(c, separators)[k], starts[k])
<1> DEFINE at     == {i \in DOMAIN c : c[i] \in separators}
           starts == SetToSeq({0} \cup at)
           after(b) == {i \in at \cup {Len(c) + 1} : i > b}
           part(k) == SubSeq(c, starts[k] + 1, Min(after(starts[k])) - 1)
<1>1. Len(c) \in Nat /\ DOMAIN c = 1 .. Len(c)
  BY LenProperties
<1>2. at \subseteq 1 .. Len(c)
  BY <1>1
<1>3. IsFiniteSet({0} \cup at)
  <2>1. 0 \in Int /\ Len(c) \in Int /\ {0} \cup at \subseteq 0 .. Len(c)
    BY <1>1, <1>2
  <2> QED
    BY <2>1, FS_Interval, FS_Subset
<1>4. PICK n \in Nat : starts \in Bijection(1 .. n, {0} \cup at)
  BY <1>3, SetInOrder
<1>5. Parts(c, separators) = [k \in DOMAIN starts |-> part(k)]
  BY DEF Parts, at, starts
<1>6. \A i \in 1 .. Len(c) : i \in at <=> c[i] \in separators
  BY <1>1
<1> HIDE DEF at, starts
<1>7. DOMAIN starts = 1 .. n /\ \A k \in 1 .. n : starts[k] \in 0 .. Len(c)
  <2>1. starts \in [1 .. n -> {0} \cup at]
    BY <1>4 DEF Bijection, Injection
  <2>2. {0} \cup at \subseteq 0 .. Len(c)
    BY <1>1, <1>2
  <2> QED
    BY <2>1, <2>2
<1>8. Len(Parts(c, separators)) = n
  <2>1. Parts(c, separators) \in Seq(Seq(STRING))
    BY PartsAreTexts
  <2>2. DOMAIN Parts(c, separators) = 1 .. n
    BY <1>5, <1>7
  <2> HIDE DEF part
  <2> QED
    BY <1>4, <2>1, <2>2, LenProperties
<1>9. ASSUME NEW b \in 0 .. Len(c)
      PROVE  LET p == SubSeq(c, b + 1, Min(after(b)) - 1)
             IN  /\ p = SubSeq(c, b + 1, b + Len(p))
                 /\ b + Len(p) + 1 \in at \cup {Len(c) + 1}
                 /\ Range(p) \cap separators = {}
  <2> DEFINE e == Min(after(b))
             p == SubSeq(c, b + 1, e - 1)
  <2>1. after(b) \in SUBSET Nat /\ Len(c) + 1 \in after(b)
    <3>1. \A i \in after(b) : i \in 0 .. Len(c) + 1
      BY <1>1, <1>2
    <3>2. Len(c) + 1 \in after(b)
      BY <1>1
    <3>3. 0 .. Len(c) + 1 \subseteq Nat
      BY <1>1
    <3> QED
      BY <3>1, <3>2, <3>3
  <2>2. e \in after(b) /\ \A i \in after(b) : e <= i
    <3> HIDE DEF after
    <3> QED
      BY <2>1, MinExists
  <2>10. \A i : i \in after(b) <=> i \in at \cup {Len(c) + 1} /\ i > b
    OBVIOUS
  <2> HIDE DEF e, after
  <2>3. e \in at \cup {Len(c) + 1} /\ e \in b + 1 .. Len(c) + 1
    <3>1. e \in at \cup {Len(c) + 1} /\ e > b
      BY <2>2, <2>10
    <3> QED
      BY <1>1, <1>2, <3>1
  <2>4. \A i \in b + 1 .. e - 1 : i \notin at
    <3> SUFFICES ASSUME NEW i \in b + 1 .. e - 1, i \in at
                 PROVE  FALSE
      OBVIOUS
    <3>1. i > b /\ ~(e <= i) /\ e \in Nat
      BY <1>1, <2>3
    <3> QED
      BY <2>2, <2>10, <3>1
  <2>5. /\ b \in Nat /\ e \in Nat /\ e - 1 \in Nat /\ b <= e - 1 /\ e - 1 <= Len(c)
    BY <1>1, <2>3
  <2>6. p \in Seq(STRING) /\ Len(p) = (e - 1) - b /\ \A i \in 1 .. (e - 1) - b : p[i] = c[b + i]
    BY <2>5, SliceIs
  <2> HIDE DEF p
  <2>7. b + Len(p) = e - 1 /\ b + Len(p) + 1 = e
    BY <2>5, <2>6
  <2>8. Range(p) \cap separators = {}
    <3>1. DOMAIN p = 1 .. (e - 1) - b
      BY <2>6, LenProperties
    <3>2. \A i \in 1 .. (e - 1) - b : p[i] \notin separators
      <4> TAKE i \in 1 .. (e - 1) - b
      <4>1. b + i \in b + 1 .. e - 1 /\ b + i \in 1 .. Len(c)
        BY <1>1, <2>5
      <4> QED
        BY <1>6, <2>4, <2>6, <4>1
    <3> QED
      BY <3>1, <3>2 DEF Range
  <2>9. p = SubSeq(c, b + 1, b + Len(p))
    BY <2>7 DEF p
  <2> QED
    BY <2>3, <2>7, <2>8, <2>9 DEF p, e
<1> HIDE DEF after
<1>10. \A k \in 1 .. n :
         LET p == Parts(c, separators)[k]
             b == starts[k]
         IN  /\ p = SubSeq(c, b + 1, b + Len(p))
             /\ b + Len(p) + 1 \in at \cup {Len(c) + 1}
             /\ Range(p) \cap separators = {}
  <2> SUFFICES ASSUME NEW k \in 1 .. n
               PROVE  LET p == Parts(c, separators)[k]
                          b == starts[k]
                      IN  /\ p = SubSeq(c, b + 1, b + Len(p))
                          /\ b + Len(p) + 1 \in at \cup {Len(c) + 1}
                          /\ Range(p) \cap separators = {}
    OBVIOUS
  <2>1. Parts(c, separators)[k] = SubSeq(c, starts[k] + 1, Min(after(starts[k])) - 1)
    BY <1>5, <1>7
  <2> QED
    BY <1>7, <1>9, <2>1
<1>11. \A k \in 1 .. n : Fills(c, separators, Parts(c, separators)[k], starts[k])
  BY <1>10 DEF Fills, at
<1>12. starts \in Bijection(1 .. n, Begins(c, separators))
  BY <1>4 DEF Begins, at
<1> QED
  BY <1>8, <1>11, <1>12

\* Links one after the other, for what stands in order.
LEMMA InOrder ==
  ASSUME NEW S, NEW n \in Nat, NEW f \in Bijection(1 .. n, S), NEW first \in Nat
  PROVE  \E g \in Bijection(S, first .. first + n - 1) :
           \A b \in S : \E k \in 1 .. n : f[k] = b /\ g[b] = first + k - 1
<1> DEFINE inv == Inverse(f, 1 .. n, S)
           links == first .. first + n - 1
           shift == [i \in 1 .. n |-> first + i - 1]
           g == [b \in S |-> shift[inv[b]]]
<1>1. inv \in Bijection(S, 1 .. n) /\ \A k \in 1 .. n : inv[f[k]] = k
  BY Fun_BijInverse
<1>2. \A b \in S : \E k \in 1 .. n : f[k] = b
  BY Fun_BijectionProperties
<1>3. shift \in Bijection(1 .. n, links)
  <2>1. shift \in [1 .. n -> links]
    OBVIOUS
  <2>2. \A a, b \in 1 .. n : shift[a] = shift[b] => a = b
    OBVIOUS
  <2>3. \A t \in links : \E s \in 1 .. n : shift[s] = t
    <3> TAKE t \in links
    <3>1. t - first + 1 \in 1 .. n /\ first + (t - first + 1) - 1 = t
      OBVIOUS
    <3> QED
      BY <3>1
  <2> HIDE DEF shift, links
  <2> QED
    BY <2>1, <2>2, <2>3, Fun_IsBij
<1> HIDE DEF inv
<1>4. g \in Bijection(S, links)
  <2> HIDE DEF shift, links
  <2> QED
    BY <1>1, <1>3, Fun_BijTransitive
<1>5. \A b \in S : \E k \in 1 .. n : f[k] = b /\ g[b] = first + k - 1
  <2> TAKE b \in S
  <2>1. PICK k \in 1 .. n : f[k] = b
    BY <1>2
  <2>2. inv[b] = k
    BY <1>1, <2>1
  <2> QED
    BY <2>1, <2>2
<1> HIDE DEF g
<1> QED
  BY <1>4, <1>5

-----------------------------------------------------------------------------
\* The order of texts: the first difference decides.
LEMMA GreaterIs ==
  ASSUME NEW c \in Seq(STRING), NEW d \in Seq(STRING)
  PROVE  Greater(c, d) <=>
           \E i \in 1 .. Len(c) :
             /\ i - 1 <= Len(d) /\ \A z \in 1 .. i - 1 : c[z] = d[z]
             /\ i > Len(d) \/ Rank[c[i]] > Rank[d[i]]
<1>1. Len(c) \in Nat /\ Len(d) \in Nat /\ DOMAIN c = 1 .. Len(c)
  BY LenProperties
<1>2. ASSUME NEW i \in 1 .. Len(c)
      PROVE  IsPrefix(SubSeq(c, 1, i - 1), d) <=> i - 1 <= Len(d) /\ \A z \in 1 .. i - 1 : c[z] = d[z]
  <2> DEFINE s == SubSeq(c, 0 + 1, i - 1)
  <2>1. 0 \in Nat /\ i - 1 \in Nat /\ 0 <= i - 1 /\ i - 1 <= Len(c) /\ (i - 1) - 0 = i - 1
        /\ \A z \in 1 .. i - 1 : 0 + z = z
    BY <1>1
  <2>2. s \in Seq(STRING) /\ Len(s) = (i - 1) - 0 /\ \A z \in 1 .. (i - 1) - 0 : s[z] = c[0 + z]
    BY <2>1, SliceIs
  <2>3. s = SubSeq(c, 1, i - 1)
    OBVIOUS
  <2> HIDE DEF s
  <2>4. Len(s) = i - 1 /\ \A z \in 1 .. i - 1 : s[z] = c[z]
    BY <2>1, <2>2
  <2>5. IsPrefix(s, d) <=> Len(s) <= Len(d) /\ \A z \in 1 .. Len(s) : s[z] = d[z]
    BY <2>2, PrefixIs
  <2> QED
    BY <2>3, <2>4, <2>5
<1> QED
  BY <1>1, <1>2 DEF Greater

\* The first place at which two texts differ, or one ends, decides.
LEMMA Decided ==
  ASSUME NEW c \in Seq(STRING), NEW d \in Seq(STRING), Range(c) \cup Range(d) \subseteq DOMAIN Rank,
         NEW m \in Nat, 1 <= m, m <= Len(c) + 1, m <= Len(d) + 1,
         \A z \in 1 .. m - 1 : c[z] = d[z], m <= Len(c) /\ m <= Len(d) => c[m] # d[m]
  PROVE  Greater(c, d) <=> m <= Len(c) /\ (m > Len(d) \/ Rank[c[m]] > Rank[d[m]])
<1>1. Len(c) \in Nat /\ Len(d) \in Nat /\ DOMAIN c = 1 .. Len(c)
  BY LenProperties
<1>2. \A z \in 1 .. Len(c) : Rank[c[z]] \in Int
  BY <1>1, RankAssumption DEF Range
<1>3. ASSUME m <= Len(c), m > Len(d) \/ Rank[c[m]] > Rank[d[m]]
      PROVE  Greater(c, d)
  <2>1. m \in 1 .. Len(c) /\ m - 1 <= Len(d)
    BY <1>1, <1>3
  <2> QED
    BY <1>3, <2>1, GreaterIs
<1>4. ASSUME NEW i \in 1 .. Len(c), i - 1 <= Len(d), \A z \in 1 .. i - 1 : c[z] = d[z],
             i > Len(d) \/ Rank[c[i]] > Rank[d[i]]
      PROVE  i = m
  <2>1. CASE i < m
    <3>1. i \in 1 .. m - 1 /\ i <= Len(d)
      BY <1>1, <2>1
    <3>2. c[i] = d[i] /\ Rank[c[i]] \in Int
      BY <1>2, <3>1
    <3>3. ~(Rank[c[i]] > Rank[d[i]])
      <4>1. \A n \in Int : ~(n > n)
        OBVIOUS
      <4>2. ~(Rank[c[i]] > Rank[c[i]])
        BY <3>2, <4>1
      <4> QED
        BY <3>2, <4>2
    <3> QED
      BY <1>1, <1>4, <3>1, <3>3
  <2>2. CASE i > m
    <3>1. m \in 1 .. i - 1 /\ m <= Len(c) /\ m <= Len(d)
      BY <1>1, <1>4, <2>2
    <3> QED
      BY <1>4, <3>1
  <2> QED
    BY <1>1, <2>1, <2>2
<1>5. ASSUME Greater(c, d)
      PROVE  m <= Len(c) /\ (m > Len(d) \/ Rank[c[m]] > Rank[d[m]])
  <2>1. PICK i \in 1 .. Len(c) :
          /\ i - 1 <= Len(d) /\ \A z \in 1 .. i - 1 : c[z] = d[z]
          /\ i > Len(d) \/ Rank[c[i]] > Rank[d[i]]
    BY <1>5, GreaterIs
  <2>2. i = m
    BY <1>4, <2>1
  <2> QED
    BY <1>1, <2>1, <2>2
<1> QED
  BY <1>3, <1>5

LEMMA OneGreater ==
  ASSUME NEW c \in Seq(STRING), NEW d \in Seq(STRING), Range(c) \cup Range(d) \subseteq DOMAIN Rank
  PROVE  ~Greater(c, d) <=> c = d \/ Greater(d, c)
<1> DEFINE differ == {i \in Nat \ {0} : \/ i = Len(c) + 1 \/ i = Len(d) + 1
                                        \/ i <= Len(c) /\ i <= Len(d) /\ c[i] # d[i]}
           m == Min(differ)
<1>1. /\ Len(c) \in Nat /\ Len(d) \in Nat
      /\ DOMAIN c = 1 .. Len(c) /\ DOMAIN d = 1 .. Len(d)
  BY LenProperties
<1>2. differ \in SUBSET Nat /\ Len(c) + 1 \in differ /\ Len(d) + 1 \in differ
  BY <1>1
<1>3. \A i \in differ : /\ i \in Nat /\ i # 0
                        /\ \/ i = Len(c) + 1 \/ i = Len(d) + 1
                           \/ i <= Len(c) /\ i <= Len(d) /\ c[i] # d[i]
  OBVIOUS
<1>4. \A i \in Nat : i # 0 /\ i <= Len(c) /\ i <= Len(d) /\ c[i] # d[i] => i \in differ
  OBVIOUS
<1> HIDE DEF differ
<1>5. m \in differ /\ \A i \in differ : m <= i
  BY <1>2, MinExists
<1> HIDE DEF m
<1>6. m \in Nat /\ 1 <= m /\ m <= Len(c) + 1 /\ m <= Len(d) + 1
  BY <1>2, <1>3, <1>5
<1>7. \A z \in 1 .. m - 1 : c[z] = d[z]
  <2> SUFFICES ASSUME NEW z \in 1 .. m - 1, c[z] # d[z]
               PROVE  FALSE
    OBVIOUS
  <2>1. z \in Nat /\ z # 0 /\ z <= Len(c) /\ z <= Len(d) /\ ~(m <= z)
    BY <1>1, <1>6
  <2> QED
    BY <1>4, <1>5, <2>1
<1>8. m <= Len(c) /\ m <= Len(d) => c[m] # d[m]
  <2>1. m <= Len(c) /\ m <= Len(d) => m # Len(c) + 1 /\ m # Len(d) + 1
    BY <1>1, <1>6
  <2> QED
    BY <1>3, <1>5, <2>1
<1>9. Greater(c, d) <=> m <= Len(c) /\ (m > Len(d) \/ Rank[c[m]] > Rank[d[m]])
  BY <1>6, <1>7, <1>8, Decided
<1>10. Greater(d, c) <=> m <= Len(d) /\ (m > Len(c) \/ Rank[d[m]] > Rank[c[m]])
  <2>1. /\ Range(d) \cup Range(c) \subseteq DOMAIN Rank /\ \A z \in 1 .. m - 1 : d[z] = c[z]
        /\ m <= Len(d) /\ m <= Len(c) => d[m] # c[m]
    BY <1>7, <1>8
  <2> QED
    BY <1>6, <2>1, Decided
<1>11. CASE m > Len(c) /\ m > Len(d)
  <2>1. Len(c) = Len(d) /\ Len(c) = m - 1
    <3>1. \A p, q, z \in Nat : z <= p + 1 /\ z <= q + 1 /\ z > p /\ z > q => p = q /\ p = z - 1
      OBVIOUS
    <3> QED
      BY <1>1, <1>6, <1>11, <3>1
  <2>2. c = d
    BY <1>7, <2>1, SeqEqual
  <2> QED
    BY <1>1, <1>6, <1>9, <1>11, <2>2
<1>12. CASE m > Len(c) /\ m <= Len(d)
  <2>1. Greater(d, c) /\ ~Greater(c, d)
    BY <1>1, <1>6, <1>9, <1>10, <1>12
  <2> QED
    BY <2>1
<1>13. CASE m <= Len(c) /\ m > Len(d)
  <2>1. ~Greater(d, c) /\ Greater(c, d)
    BY <1>1, <1>6, <1>9, <1>10, <1>13
  <2>2. Len(c) # Len(d)
    <3>1. \A p, q, z \in Nat : z <= p /\ z > q => p # q
      OBVIOUS
    <3> QED
      BY <1>1, <1>6, <1>13, <3>1
  <2> QED
    BY <2>1, <2>2
<1>14. CASE m <= Len(c) /\ m <= Len(d)
  <2>1. c[m] # d[m] /\ m \in 1 .. Len(c) /\ m \in 1 .. Len(d)
    BY <1>1, <1>6, <1>8, <1>14
  <2>2. Rank[c[m]] \in Int /\ Rank[d[m]] \in Int /\ Rank[c[m]] # Rank[d[m]]
    <3>1. c[m] \in DOMAIN Rank /\ d[m] \in DOMAIN Rank
      BY <1>1, <2>1 DEF Range
    <3> QED
      BY <2>1, <3>1, RankAssumption
  <2>3. c # d
    BY <2>1
  <2>4. Greater(c, d) <=> Rank[c[m]] > Rank[d[m]]
    BY <1>1, <1>6, <1>9, <1>14
  <2>5. Greater(d, c) <=> Rank[d[m]] > Rank[c[m]]
    BY <1>1, <1>6, <1>10, <1>14
  <2>6. \A p, q \in Int : p # q => (~(p > q) <=> q > p)
    OBVIOUS
  <2>7. ~(Rank[c[m]] > Rank[d[m]]) <=> Rank[d[m]] > Rank[c[m]]
    BY <2>2, <2>6
  <2> QED
    BY <2>3, <2>4, <2>5, <2>7
<1> QED
  BY <1>1, <1>6, <1>11, <1>12, <1>13, <1>14

-----------------------------------------------------------------------------
\* The text that an operator answered with.
AnswerText(y) == Content(y, CHOOSE a \in AnswersOf(y, Value(y, 1)) : TRUE)

LEMMA TellsNothing ==
  ASSUME NEW k \in Strings \cup Asking, NEW x, NEW y, y.out # "success",
         k \in Strings \/ y.out # "unsuccess"
  PROVE  Telling(k, x, y)
<1>1. k = "stringIfGr" => k \notin Strings
  BY DEF Strings, OfText, OfTexts, OfFive
<1>2. k = "stringIfGr" => y.out \notin {"success", "unsuccess"}
  BY <1>1
<1> QED
  BY <1>2 DEF Telling

LEMMA RefusedTells ==
  ASSUME NEW k \in Strings \cup Asking, NEW x, NEW y, Refused(k, x, y)
  PROVE  Ending(k, x, y) /\ Telling(k, x, y)
<1>1. y.out = "thrown"
  BY DEF Refused
<1> QED
  BY <1>1, EndingOfRefused, TellsNothing

\* How an operator ends that answers with a text when it may.
LEMMA ToldEnding ==
  ASSUME NEW k \in Strings, k # "stringReplace", NEW x, NEW y, NEW t, GivenLinks(k, x), ToldText(x, y, t)
  PROVE  Ending(k, x, y)
<1>1. y.out = "success" \/ (y.out = "thrown" /\ ~IsNode(Want(x, 1)))
  BY DEF ToldText
<1> QED
  BY <1>1, EndingOfTexts

LEMMA UnsuccessTells ==
  ASSUME NEW k \in Strings, k # "stringReplace", NEW x, NEW y, GivenLinks(k, x), y.out = "unsuccess"
  PROVE  Ending(k, x, y) /\ Telling(k, x, y)
BY EndingOfTexts, TellsNothing

LEMMA ConcatTells ==
  ASSUME NEW x, NEW k, k = "contStringConcat", Runs(k, x), NEW y \in ContStringConcat(x)
  PROVE  Ending(k, x, y) /\ Telling(k, x, y)
<1> DEFINE c == GivenText(x, 2)
           d == GivenText(x, 3)
<1>1. k \in OfTexts /\ k \in Strings /\ k # "stringReplace"
  BY DEF OfTexts, Strings
<1>2. c \in Seq(STRING) /\ d \in Seq(STRING)
  BY GivenTexts DEF Runs
<1>3. Refused(k, x, y) \/ (GivenLinks(k, x) /\ ToldText(x, y, c \o d))
  BY <1>1, ConcatDid
<1>4. CASE Refused(k, x, y)
  BY <1>1, <1>4, RefusedTells
<1>5. CASE GivenLinks(k, x) /\ ToldText(x, y, c \o d)
  <2>1. Ending(k, x, y)
    BY <1>1, <1>5, ToldEnding
  <2>2. y.out = "success" => AnswerText(y) = c \o d
    BY <1>5 DEF ToldText, AnswerText
  <2>3. IsPrefix(c, c \o d) /\ IsSuffix(d, c \o d) /\ Len(c \o d) = Len(c) + Len(d)
    BY <1>2, ConcatSides
  <2>4. Telling(k, x, y)
    BY <2>2, <2>3 DEF Telling, AnswerText
  <2> QED
    BY <2>1, <2>4
<1> QED
  BY <1>3, <1>4, <1>5

LEMMA LenTells ==
  ASSUME NEW x, NEW k, k = "stringLen", Runs(k, x), NEW y \in StringLen(x)
  PROVE  Ending(k, x, y) /\ Telling(k, x, y)
<1> DEFINE c == GivenText(x, 2)
<1>1. k \in OfText /\ k \in Strings /\ k # "stringReplace"
  BY DEF OfText, Strings
<1>2. c \in Seq(STRING)
  BY GivenTexts DEF Runs
<1>3. Refused(k, x, y) \/ (GivenLinks(k, x) /\ ToldText(x, y, Decimal(Len(c))))
  BY <1>1, LenDid
<1>4. CASE Refused(k, x, y)
  BY <1>1, <1>4, RefusedTells
<1>5. CASE GivenLinks(k, x) /\ ToldText(x, y, Decimal(Len(c)))
  <2>1. Ending(k, x, y)
    BY <1>1, <1>5, ToldEnding
  <2>2. y.out = "success" => AnswerText(y) = Decimal(Len(c))
    BY <1>5 DEF ToldText, AnswerText
  <2>3. Short(c) => Decimal(Len(c)) = <<ToString(Len(c))>>
    <3>1. Short(c) => Len(c) < Size
      BY NumberAssumption, TextsAssumption DEF Short, AsSize
    <3>2. Len(c) \in Nat
      BY <1>2, LenProperties
    <3>3. Short(c) => Len(c) % Size = Len(c)
      BY <3>1, <3>2, TextsAssumption
    <3> QED
      BY <3>3 DEF Decimal
  <2>4. Telling(k, x, y)
    BY <2>2, <2>3 DEF Telling, AnswerText
  <2> QED
    BY <2>1, <2>4
<1> QED
  BY <1>3, <1>4, <1>5

LEMMA CaseTells ==
  ASSUME NEW x, NEW k \in {"stringToUpperCase", "stringToLowerCase"}, NEW case \in {Lower, Upper}, Runs(k, x), NEW y \in ToCase(x, case)
  PROVE  Ending(k, x, y) /\ Telling(k, x, y)
<1> DEFINE c == GivenText(x, 2)
<1>1. k \in OfText /\ k \in Strings /\ k # "stringReplace"
  BY DEF OfText, Strings
<1>2. \/ Refused(k, x, y)
      \/ GivenLinks(k, x) /\ y.out = "unsuccess"
      \/ GivenLinks(k, x) /\ \E a \in Seq(STRING) : Len(a) = Len(c) /\ ToldText(x, y, a)
  BY <1>1, CaseDid
<1>3. CASE Refused(k, x, y)
  BY <1>1, <1>3, RefusedTells
<1>4. CASE GivenLinks(k, x) /\ y.out = "unsuccess"
  BY <1>1, <1>4, UnsuccessTells
<1>5. CASE GivenLinks(k, x) /\ \E a \in Seq(STRING) : Len(a) = Len(c) /\ ToldText(x, y, a)
  <2>1. PICK a \in Seq(STRING) : Len(a) = Len(c) /\ ToldText(x, y, a)
    BY <1>5
  <2>2. Ending(k, x, y)
    BY <1>1, <1>5, <2>1, ToldEnding
  <2>3. y.out = "success" => Len(AnswerText(y)) = Len(c)
    BY <2>1 DEF ToldText, AnswerText
  <2>4. Telling(k, x, y)
    BY <2>3 DEF Telling, AnswerText
  <2> QED
    BY <2>2, <2>4
<1> QED
  BY <1>2, <1>3, <1>4, <1>5

LEMMA SubTells ==
  ASSUME NEW x, NEW k, k = "stringSub", Runs(k, x), NEW y \in StringSub(x)
  PROVE  Ending(k, x, y) /\ Telling(k, x, y)
<1> DEFINE c == GivenText(x, 2)
           d == GivenText(x, 3)
           found == Occurrences(c, d)
           n == Min(found)
           first == <<SubSeq(c, 1, n), SubSeq(c, n + Len(d) + 1, Len(c))>>
<1>1. k \in OfTexts /\ k \in Strings /\ k # "stringReplace"
  BY DEF OfTexts, Strings
<1>2. c \in Seq(STRING) /\ d \in Seq(STRING)
  BY GivenTexts DEF Runs
<1>3. \/ Refused(k, x, y)
      \/ GivenLinks(k, x) /\ y.out = "unsuccess"
      \/ GivenLinks(k, x) /\ found # {} /\ ToldText(x, y, Decimal(n))
  BY <1>1, SubDid
<1>4. CASE Refused(k, x, y)
  BY <1>1, <1>4, RefusedTells
<1>5. CASE GivenLinks(k, x) /\ y.out = "unsuccess"
  BY <1>1, <1>5, UnsuccessTells
<1>6. CASE GivenLinks(k, x) /\ found # {} /\ ToldText(x, y, Decimal(n))
  <2>1. Ending(k, x, y)
    BY <1>1, <1>6, ToldEnding
  <2>2. y.out = "success" => AnswerText(y) = Decimal(n)
    BY <1>6 DEF ToldText, AnswerText
  <2>3. /\ n \in 0 .. Len(c) /\ first \in Around(d, c) /\ Len(first[1]) = n
        /\ \A q \in Around(d, c) : Len(first[1]) <= Len(q[1])
    BY <1>2, <1>6, FirstAround
  <2>4. Short(c) => Decimal(n) = <<ToString(n)>>
    <3>1. Short(c) => Len(c) < Size
      BY NumberAssumption, TextsAssumption DEF Short, AsSize
    <3>2. Len(c) \in Nat
      BY <1>2, LenProperties
    <3> HIDE DEF n, first
    <3>3. Short(c) => n % Size = n
      BY <2>3, <3>1, <3>2, TextsAssumption
    <3> QED
      BY <3>3 DEF Decimal
  <2> HIDE DEF first, n
  <2>5. y.out = "success" /\ Short(c) =>
          \E p \in Around(d, c) : /\ p \in Around(d, c) /\ \A q \in Around(d, c) : Len(p[1]) <= Len(q[1])
                                  /\ AnswerText(y) = <<ToString(Len(p[1]))>>
    BY <2>2, <2>3, <2>4
  <2>6. Telling(k, x, y)
    BY <2>5 DEF Telling, AnswerText
  <2> QED
    BY <2>1, <2>6
<1> QED
  BY <1>3, <1>4, <1>5, <1>6

LEMMA ReplaceTells ==
  ASSUME NEW x, NEW k, k = "stringReplace", Runs(k, x), NEW y \in StringReplace(x)
  PROVE  Ending(k, x, y) /\ Telling(k, x, y)
<1> DEFINE c == GivenText(x, 2)
           d == GivenText(x, 3)
           f == GivenText(x, 4)
           found == Occurrences(c, d)
           n == Min(found)
           first == <<SubSeq(c, 1, n), SubSeq(c, n + Len(d) + 1, Len(c))>>
           answer == SubSeq(c, 1, n) \o f \o SubSeq(c, n + Len(d) + 1, Len(c))
           nowhere == \A i \in 0 .. Len(c) : \A j \in i .. Len(c) : SubSeq(c, i + 1, j) # d
<1>1. k \in OfFive /\ k \in Strings /\ k \notin {"ifEq", "ifGr"}
  BY KindsDiffer DEF OfFive, Strings, Compares
<1>2. c \in Seq(STRING) /\ d \in Seq(STRING)
  BY GivenTexts DEF Runs
<1>3. found = {} <=> nowhere
  BY <1>2, Nowhere
<1>4. \/ Refused(k, x, y)
      \/ GivenLinks(k, x) /\ found = {} /\ y.out = "again"
      \/ GivenLinks(k, x) /\ found # {} /\ ToldText(x, y, answer)
  BY <1>1, ReplaceDid
<1>5. CASE Refused(k, x, y)
  BY <1>1, <1>5, RefusedTells
<1>6. CASE GivenLinks(k, x) /\ found = {} /\ y.out = "again"
  <2>1. Ending(k, x, y)
    BY <1>1, <1>3, <1>6 DEF Ending
  <2>2. Telling(k, x, y)
    BY <1>1, <1>6, TellsNothing
  <2> QED
    BY <2>1, <2>2
<1>7. CASE GivenLinks(k, x) /\ found # {} /\ ToldText(x, y, answer)
  <2>1. y.out = "success" \/ (y.out = "thrown" /\ ~IsNode(Want(x, 1)))
    BY <1>7 DEF ToldText
  <2>2. ~nowhere
    BY <1>3, <1>7
  <2>3. Ending(k, x, y)
    BY <1>1, <1>7, <2>1, <2>2 DEF Ending
  <2>4. y.out = "success" => AnswerText(y) = answer
    BY <1>7 DEF ToldText, AnswerText
  <2>5. first \in Around(d, c) /\ \A q \in Around(d, c) : Len(first[1]) <= Len(q[1])
    BY <1>2, <1>7, FirstAround
  <2>6. answer = first[1] \o f \o first[2]
    OBVIOUS
  <2> HIDE DEF first, answer
  <2>7. y.out = "success" =>
          \E p \in Around(d, c) : /\ p \in Around(d, c) /\ \A q \in Around(d, c) : Len(p[1]) <= Len(q[1])
                                  /\ AnswerText(y) = p[1] \o f \o p[2]
    BY <2>4, <2>5, <2>6
  <2>8. Telling(k, x, y)
    BY <2>7 DEF Telling, AnswerText
  <2> QED
    BY <2>3, <2>8
<1> QED
  BY <1>4, <1>5, <1>6, <1>7

LEMMA SliceTells ==
  ASSUME NEW x, NEW k, k = "stringSlice", Runs(k, x), NEW y \in StringSlice(x)
  PROVE  Ending(k, x, y) /\ Telling(k, x, y)
<1> DEFINE c == GivenText(x, 2)
           d == GivenText(x, 3)
           f == GivenText(x, 4)
<1>1. k \in OfFive /\ k \in Strings /\ k # "stringReplace"
  BY DEF OfFive, Strings
<1>2. c \in Seq(STRING) /\ d \in Seq(STRING) /\ f \in Seq(STRING)
  BY GivenTexts DEF Runs
<1>3. \/ Refused(k, x, y)
      \/ GivenLinks(k, x) /\ y.out = "unsuccess"
      \/ /\ GivenLinks(k, x)
         /\ \E i \in IndexIn(d), j \in IndexIn(f) : i <= j /\ j <= Len(c) /\ ToldText(x, y, SubSeq(c, i + 1, j))
  BY <1>1, SliceDid
<1>4. CASE Refused(k, x, y)
  BY <1>1, <1>4, RefusedTells
<1>5. CASE GivenLinks(k, x) /\ y.out = "unsuccess"
  BY <1>1, <1>5, UnsuccessTells
<1>6. CASE /\ GivenLinks(k, x)
           /\ \E i \in IndexIn(d), j \in IndexIn(f) : i <= j /\ j <= Len(c) /\ ToldText(x, y, SubSeq(c, i + 1, j))
  <2>1. PICK i \in IndexIn(d), j \in IndexIn(f) : i <= j /\ j <= Len(c) /\ ToldText(x, y, SubSeq(c, i + 1, j))
    BY <1>6
  <2>2. Ending(k, x, y)
    BY <1>1, <1>6, <2>1, ToldEnding
  <2>3. i \in Nat /\ j \in Nat /\ i <= Len(c)
    <3>1. i \in Nat /\ j \in Nat /\ Len(c) \in Nat
      BY <1>2, IndexNat, LenProperties
    <3> QED
      BY <2>1, <3>1
  <2>4. ASSUME NEW t \in Seq(STRING), NEW z \in IndexIn(t), z <= Len(c), Short(c)
        PROVE  z = NumberIn(t)
    <3>1. PICK n \in StoI(CutInt(t)) : z = AsSize(n)
      BY <2>4 DEF IndexIn
    <3>2. n \in Number /\ n = NumberIn(t)
      BY <2>4, <3>1, IntCut DEF StoI
    <3>3. ~(n < 0)
      <4>1. n < 0 => Len(c) < AsSize(n)
        BY <2>4, <3>2 DEF Short
      <4>2. Len(c) \in Nat /\ z \in Nat
        BY <1>2, <2>4, IndexNat, LenProperties
      <4> QED
        BY <2>4, <3>1, <4>1, <4>2
    <3> QED
      BY <3>1, <3>2, <3>3 DEF AsSize
  <2>5. Short(c) => i = NumberIn(d) /\ j = NumberIn(f)
    BY <1>2, <2>1, <2>3, <2>4
  <2> DEFINE answer == SubSeq(c, i + 1, j)
  <2>6. <<SubSeq(c, 1, i), SubSeq(c, j + 1, Len(c))>> \in Around(answer, c)
    <3>1. answer \in Seq(STRING) /\ Len(answer) = j - i
      BY <1>2, <2>1, <2>3, SliceIs
    <3>2. i + Len(answer) = j
      BY <2>3, <3>1
    <3> HIDE DEF answer
    <3>3. SubSeq(c, i + 1, i + Len(answer)) = answer
      BY <3>2 DEF answer
    <3> QED
      BY <1>2, <2>1, <2>3, <3>1, <3>2, <3>3, OccurrenceAround
  <2>7. y.out = "success" => AnswerText(y) = answer
    BY <2>1 DEF ToldText, AnswerText
  <2> HIDE DEF answer
  <2>8. y.out = "success" /\ Short(c) =>
          <<SubSeq(c, 1, NumberIn(d)), SubSeq(c, NumberIn(f) + 1, Len(c))>> \in Around(AnswerText(y), c)
    BY <2>5, <2>6, <2>7
  <2>9. Telling(k, x, y)
    BY <2>8 DEF Telling, AnswerText
  <2> QED
    BY <2>2, <2>9
<1> QED
  BY <1>3, <1>4, <1>5, <1>6

LEMMA SplitTells ==
  ASSUME NEW x, NEW k, k = "stringSplit", Runs(k, x), NEW y \in StringSplit(x)
  PROVE  Ending(k, x, y) /\ Telling(k, x, y)
<1> DEFINE c == GivenText(x, 2)
           d == GivenText(x, 3)
           parts == Parts(c, Range(d))
           e == CHOOSE a \in AnswersOf(y, Value(y, 1)) : TRUE
           links == {Target(y, a) : a \in {b \in Connectors(y) : Source(y, b) = e}}
           begins == Begins(c, Range(d))
           Filled(p, b) == Fills(c, Range(d), p, b)
<1>1. k \in OfTexts /\ k \in Strings /\ k # "stringReplace"
  BY DEF OfTexts, Strings
<1>2. c \in Seq(STRING)
  BY GivenTexts DEF Runs
<1>3. Refused(k, x, y) \/ (GivenLinks(k, x) /\ ToldParts(x, y, parts))
  BY <1>1, SplitDid
<1>4. CASE Refused(k, x, y)
  BY <1>1, <1>4, RefusedTells
<1>5. CASE GivenLinks(k, x) /\ ToldParts(x, y, parts)
  <2>1. y.out = "success" \/ (y.out = "thrown" /\ ~IsNode(Want(x, 1)))
    BY <1>5 DEF ToldParts
  <2>2. Ending(k, x, y)
    BY <1>1, <1>5, <2>1, EndingOfTexts
  <2>3. ASSUME y.out = "success"
        PROVE  \E part \in Bijection(begins, links) : \A b \in begins : Filled(Content(y, part[b]), b)
    <3>1. PICK z, first \in Nat :
            /\ AnswersOf(y, Value(y, 1)) = {z}
            /\ {Target(y, a) : a \in {b \in Connectors(y) : Source(y, b) = z}} = first .. first + Len(parts) - 1
            /\ \A i \in 1 .. Len(parts) : Content(y, first + i - 1) = parts[i]
      BY <1>5, <2>3 DEF ToldParts
    <3>2. e = z
      BY <3>1
    <3>3. links = first .. first + Len(parts) - 1
      BY <3>1, <3>2
    <3>4. PICK n \in Nat :
            \E starts \in Bijection(1 .. n, begins) :
              Len(parts) = n /\ \A i \in 1 .. n : Filled(parts[i], starts[i])
      <4> HIDE DEF c, d
      <4> QED
        BY <1>2, PartsFill
    <3> HIDE DEF begins, links, parts, Filled
    <3>5. PICK starts \in Bijection(1 .. n, begins) :
            Len(parts) = n /\ \A i \in 1 .. n : Filled(parts[i], starts[i])
      BY <3>4
    <3>6. PICK part \in Bijection(begins, first .. first + n - 1) :
            \A b \in begins : \E i \in 1 .. n : starts[i] = b /\ part[b] = first + i - 1
      BY InOrder
    <3>7. \A b \in begins : Filled(Content(y, part[b]), b)
      <4> TAKE b \in begins
      <4>1. PICK i \in 1 .. n : starts[i] = b /\ part[b] = first + i - 1
        BY <3>6
      <4>2. Content(y, part[b]) = parts[i]
        BY <3>1, <3>5, <4>1
      <4> QED
        BY <3>5, <4>1, <4>2
    <3> QED
      BY <3>3, <3>5, <3>6, <3>7
  <2>4. Telling(k, x, y)
    BY <2>3 DEF Telling, Begins, Fills
  <2> QED
    BY <2>2, <2>4
<1> QED
  BY <1>3, <1>4, <1>5

LEMMA GreaterTells ==
  ASSUME NEW x, NEW k, k = "stringIfGr", Runs(k, x), NEW y \in StringIfGr(x)
  PROVE  Ending(k, x, y) /\ Telling(k, x, y)
<1> DEFINE c == GivenText(x, 1)
           d == GivenText(x, 2)
<1>1. k \in Asking /\ k # "stringReplace" /\ k \notin Strings
  BY DEF Asking, Strings, OfText, OfTexts, OfFive
<1>2. c \in Seq(STRING) /\ d \in Seq(STRING)
  BY GivenTexts DEF Runs
<1>3. Refused(k, x, y) \/ (GivenLinks(k, x) /\ y.out = IF Greater(c, d) THEN "success" ELSE "unsuccess")
  BY <1>1, GreaterDid
<1>4. CASE Refused(k, x, y)
  BY <1>1, <1>4, RefusedTells
<1>5. CASE GivenLinks(k, x) /\ y.out = IF Greater(c, d) THEN "success" ELSE "unsuccess"
  <2>1. Ending(k, x, y)
    BY <1>1, <1>5, EndingOfTexts
  <2>2. y.out = "unsuccess" <=> ~Greater(c, d)
    BY <1>5
  <2>3. Range(c) \cup Range(d) \subseteq DOMAIN Rank => (y.out = "unsuccess" <=> c = d \/ Greater(d, c))
    BY <1>2, <2>2, OneGreater
  <2>4. Telling(k, x, y)
    BY <1>1, <2>3 DEF Telling
  <2> QED
    BY <2>1, <2>4
<1> QED
  BY <1>3, <1>4, <1>5

LEMMA OthersTell ==
  ASSUME NEW x, NEW k \in Asking, k # "stringIfGr", Runs(k, x),
         NEW y \in StringIfEq(x) \cup StringStartsWith(x) \cup StringEndsWith(x)
  PROVE  Ending(k, x, y) /\ Telling(k, x, y)
<1>1. k # "stringReplace" /\ k \notin Strings
  BY DEF Asking, Strings, OfText, OfTexts, OfFive
<1>2. Refused(k, x, y) \/ (GivenLinks(k, x) /\ y.out \in {"success", "unsuccess"})
  BY OthersDid
<1>3. Telling(k, x, y)
  BY <1>1 DEF Telling
<1>4. Ending(k, x, y)
  BY <1>1, <1>2, EndingOfRefused, EndingOfTexts
<1> QED
  BY <1>3, <1>4

-----------------------------------------------------------------------------
\* What is said of an accepted operator.
Outcomes(k, x, y) ==
  /\ Ending(k, x, y)
  /\ GivenLinks(k, x) /\ k \in Binary \cup Whole2 \cup Compares => Calculating(k, x, y)
  /\ k \in Strings \cup Asking => Telling(k, x, y)

LEMMA RefusedOutcomes ==
  ASSUME NEW k, NEW x, NEW y, Refused(k, x, y), k \notin Strings \cup Asking
  PROVE  Outcomes(k, x, y)
BY EndingOfRefused DEF Refused, Outcomes

LEMMA ArithmeticOutcomes ==
  ASSUME NEW x, NEW k \in Binary, NEW op \in Operations, Computes(k, op), Runs(k, x), NEW y \in Arithmetic(x, op)
  PROVE  Outcomes(k, x, y)
<1>1. k \notin Strings \cup Asking
  BY KindsDiffer
<1>2. Refused(k, x, y) \/ (GivenLinks(k, x) /\ BinaryEnds(k, GivenText(x, 2), GivenText(x, 3), y))
  BY ArithmeticDid
<1>3. CASE Refused(k, x, y)
  BY <1>1, <1>3, RefusedOutcomes
<1>4. CASE GivenLinks(k, x) /\ BinaryEnds(k, GivenText(x, 2), GivenText(x, 3), y)
  BY <1>1, <1>4, BinaryEnding DEF Outcomes
<1> QED
  BY <1>2, <1>3, <1>4

LEMMA WholeDivisionOutcomes ==
  ASSUME NEW x, NEW k \in Whole2, NEW op \in Operations, Computes(k, op), Runs(k, x), NEW y \in WholeDivision(x, op)
  PROVE  Outcomes(k, x, y)
<1>1. k \notin Strings \cup Asking
  BY KindsDiffer
<1>2. Refused(k, x, y) \/ (GivenLinks(k, x) /\ WholeEnds(k, GivenText(x, 2), GivenText(x, 3), y))
  BY WholeDivisionDid
<1>3. CASE Refused(k, x, y)
  BY <1>1, <1>3, RefusedOutcomes
<1>4. CASE GivenLinks(k, x) /\ WholeEnds(k, GivenText(x, 2), GivenText(x, 3), y)
  BY <1>1, <1>4, WholeEnding DEF Outcomes
<1> QED
  BY <1>2, <1>3, <1>4

LEMMA CompareOutcomes ==
  ASSUME NEW x, NEW k \in Compares, Runs(k, x), NEW y,
         \/ k = "ifEq" /\ y \in IfEq(x)
         \/ k = "ifGr" /\ y \in IfGr(x)
  PROVE  Outcomes(k, x, y)
<1>1. k \notin Strings \cup Asking
  BY KindsDiffer
<1>2. Refused(k, x, y) \/ (GivenLinks(k, x) /\ QuestionEnds(k, GivenText(x, 1), GivenText(x, 2), y))
  BY CompareDid
<1>3. CASE Refused(k, x, y)
  BY <1>1, <1>3, RefusedOutcomes
<1>4. CASE GivenLinks(k, x) /\ QuestionEnds(k, GivenText(x, 1), GivenText(x, 2), y)
  BY <1>1, <1>4, ComparisonEnding DEF Outcomes
<1> QED
  BY <1>2, <1>3, <1>4

LEMMA FunctionOutcomes ==
  ASSUME NEW x, NEW k \in Function1, NEW f, Runs(k, x), NEW y \in Function(x, f)
  PROVE  Outcomes(k, x, y)
<1>1. k \notin Strings \cup Asking \cup Compares /\ k \notin Binary \cup Whole2
  BY KindsDiffer
<1>2. \/ Refused(k, x, y)
      \/ /\ GivenLinks(k, x) /\ y.out \in {"success", "unsuccess", "thrown"}
         /\ y.out = "thrown" => Bad(GivenText(x, 2))
  BY FunctionDid
<1>3. CASE Refused(k, x, y)
  BY <1>1, <1>3, RefusedOutcomes
<1>4. CASE /\ GivenLinks(k, x) /\ y.out \in {"success", "unsuccess", "thrown"}
           /\ y.out = "thrown" => Bad(GivenText(x, 2))
  <2>1. Given(k, x) = {2}
    BY GivenOf DEF Runs
  <2>2. y.out = "thrown" => \E i \in Given(k, x) : Bad(GivenText(x, i))
    BY <1>4, <2>1
  <2>3. Ending(k, x, y)
    BY <1>4, <2>2, EndingOfNumbers
  <2> QED
    BY <1>1, <2>3 DEF Outcomes
<1> QED
  BY <1>2, <1>3, <1>4

LEMMA MathOutcomes ==
  ASSUME MathOperator, LinkSound(world), Arity(kind, world), Accepted(kind, world)
  PROVE  Outcomes(kind, world, world')
<1> DEFINE x == world
           y == world'
           k == kind
<1>1. Runs(k, x)
  BY DEF Runs, MathOperator, Run
<1> HIDE DEF x, y, k
<1>2. CASE \/ Run("contSin", Sin(world)) \/ Run("contCos", Cos(world)) \/ Run("contTg", Tg(world))
           \/ Run("contASin", ASin(world)) \/ Run("contACos", ACos(world)) \/ Run("contATg", ATg(world))
           \/ Run("contLn", ContLn(world))
  <2>1. k \in Function1 /\ \E f : y \in Function(x, f)
    BY <1>2 DEF Run, Sin, Cos, Tg, ASin, ACos, ATg, ContLn, Function1, x, y, k
  <2> QED
    BY <1>1, <2>1, FunctionOutcomes DEF x, y, k
<1>3. CASE Run("contDivInt", DivInt(world)) \/ Run("contDivRem", DivRem(world))
  <2>1. k \in Whole2 /\ \E op \in Operations : Computes(k, op) /\ y \in WholeDivision(x, op)
    BY <1>3 DEF Run, DivInt, DivRem, Operations, Whole2, Computes, x, y, k
  <2> QED
    BY <1>1, <2>1, WholeDivisionOutcomes DEF x, y, k
<1>4. CASE \/ Run("contAdd", ContAdd(world)) \/ Run("contSub", ContSub(world)) \/ Run("contMult", ContMult(world))
           \/ Run("contDiv", ContDiv(world)) \/ Run("contPow", ContPow(world))
  <2>1. k \in Binary /\ \E op \in Operations : Computes(k, op) /\ y \in Arithmetic(x, op)
    BY <1>4 DEF Run, ContAdd, ContSub, ContMult, ContDiv, ContPow, Operations, Binary, Computes, x, y, k
  <2> QED
    BY <1>1, <2>1, ArithmeticOutcomes DEF x, y, k
<1>5. CASE Run("ifEq", IfEq(world)) \/ Run("ifGr", IfGr(world))
  <2>1. k \in Compares /\ ((k = "ifEq" /\ y \in IfEq(x)) \/ (k = "ifGr" /\ y \in IfGr(x)))
    BY <1>5 DEF Run, Compares, x, y, k
  <2> QED
    BY <1>1, <2>1, CompareOutcomes DEF x, y, k
<1> QED
  BY <1>2, <1>3, <1>4, <1>5 DEF MathOperator

LEMMA TextOutcomes ==
  ASSUME StringOperator, LinkSound(world), Arity(kind, world), Accepted(kind, world)
  PROVE  Outcomes(kind, world, world')
<1> DEFINE x == world
           y == world'
           k == kind
<1>1. Runs(k, x)
  BY DEF Runs, StringOperator, Run
<1>2. \/ k = "stringSplit" /\ y \in StringSplit(x)
      \/ k = "stringSlice" /\ y \in StringSlice(x)
      \/ k = "stringReplace" /\ y \in StringReplace(x)
      \/ k = "contStringConcat" /\ y \in ContStringConcat(x)
      \/ k = "stringLen" /\ y \in StringLen(x)
      \/ k = "stringSub" /\ y \in StringSub(x)
      \/ k \in {"stringToUpperCase", "stringToLowerCase"} /\ \E case \in {Lower, Upper} : y \in ToCase(x, case)
      \/ k = "stringIfGr" /\ y \in StringIfGr(x)
      \/ k \in Asking \ {"stringIfGr"} /\ y \in StringIfEq(x) \cup StringStartsWith(x) \cup StringEndsWith(x)
  BY DEF StringOperator, Run, StringToUpperCase, StringToLowerCase, Asking
<1>3. k \in Strings \cup Asking /\ k \notin Binary \cup Whole2 \cup Compares
  <2>1. k \in Strings \cup Asking
    BY <1>2 DEF Strings, Asking, OfText, OfTexts, OfFive
  <2> QED
    BY <2>1, KindsDiffer
<1> HIDE DEF x, y, k
<1>4. Ending(k, x, y) /\ Telling(k, x, y)
  BY <1>1, <1>2, SplitTells, SliceTells, ReplaceTells, ConcatTells, LenTells, SubTells, CaseTells,
     GreaterTells, OthersTell
<1> QED
  BY <1>3, <1>4 DEF Outcomes, x, y, k

-----------------------------------------------------------------------------
\* What the theorems on outcomes need: an operator has the operands it needs.
EndInv ==
  /\ LinkInv
  /\ world.out = "run" => Arity(kind, world)
  /\ world.out # "run" /\ kind # "none" /\ Accepted(kind, before) => Outcomes(kind, before, world)

LEMMA EndInit == Init => EndInv
BY LinkInit, WorldsAssumption DEF Init, EndInv

LEMMA EndParsed ==
  ASSUME EndInv, ParseLink
  PROVE  EndInv'
<1>1. LinkInv'
  BY LinkParsed DEF EndInv
<1>2. PICK job \in Jobs, values \in ValuesRead(world) :
        /\ kind' = job.kind
        /\ world' = [Parsed(world, job, values) EXCEPT !.steps = @ - 1]
  BY DEF ParseLink
<1>3. world'.out = "run" /\ DOMAIN world'.operand = DOMAIN job.operand
  <2>1. LinkSound(world) /\ world.steps > 0
    BY DEF EndInv, LinkInv, ParseLink
  <2> DEFINE y == [Parsed(world, job, values) EXCEPT !.steps = @ - 1]
  <2>2. LinkSound(y) /\ y.out = "run" /\ DOMAIN y.operand = DOMAIN job.operand
    BY <2>1, ParsedSound
  <2>3. world' = y
    BY <1>2
  <2> HIDE DEF y
  <2> QED
    BY <2>2, <2>3
<1>4. Arity(job.kind, world')
  BY <1>3, LinkJobsAssumption DEF Arity, Questions
<1> QED
  BY <1>1, <1>2, <1>3, <1>4 DEF EndInv

LEMMA EndRun ==
  ASSUME EndInv, MathOperator \/ StringOperator
  PROVE  EndInv'
<1>1. LinkInv'
  BY MathKept, StringKept DEF EndInv
<1>2. world.out = "run" /\ UNCHANGED <<kind, before>> /\ before = world /\ LinkSound(world) /\ Arity(kind, world)
  BY DEF MathOperator, StringOperator, Run, EndInv, LinkInv
<1>3. world'.out = "run" => world' = world
  BY <1>1, <1>2 DEF LinkInv
<1>4. Accepted(kind, world) => Outcomes(kind, world, world')
  BY <1>2, MathOutcomes, TextOutcomes
<1> QED
  BY <1>1, <1>2, <1>3, <1>4 DEF EndInv

LEMMA EndInvariant == LinkSpec => []EndInv
<1>1. EndInv /\ [LinkNext]_vars => EndInv'
  <2>1. EndInv /\ UNCHANGED vars => EndInv'
    BY DEF EndInv, LinkInv, vars
  <2> QED
    BY <2>1, EndParsed, EndRun DEF LinkNext
<1> QED
  BY <1>1, EndInit, PTL DEF LinkSpec

-----------------------------------------------------------------------------
\* Links, and only they, have texts for contents, elements are numbered without
\* gaps and arcs and variables lead to elements that exist, after any number of
\* operators on numbers and texts, whatever they read and however they end
\* (Execute of every operator of both kinds).
THEOREM LinksTyped == LinkSpec => []LinkTypeOK
<1>1. LinkInv => LinkTypeOK
  <2> SUFFICES ASSUME LinkInv
               PROVE  LinkTypeOK
    OBVIOUS
  <2>1. LinkSound(world) /\ Typed(world)
    BY DEF LinkInv, LinkSound
  <2>2. \A a \in Connectors(world) : {Source(world, a), Target(world, a)} \subseteq Exists(world)
    BY <2>1 DEF Typed, IsMemory, Source, Target
  <2>3. \A v \in Variable : world.value[v] \subseteq Exists(world)
    BY <2>1 DEF Typed
  <2> QED
    BY <2>1, <2>2, <2>3 DEF LinkInv, LinkSound, LinkTypeOK
<1> QED
  BY <1>1, LinkInvariant, PTL

\* An operator on numbers or texts erases nothing and changes no content.  Where
\* it succeeds its answer is new and goes to the variable of its first operand
\* and to no other, on texts by an element between them; where it asks or fails
\* to find, it leaves no trace (Execute of every operator, printOperatorAnswer).
THEOREM AnswersCorrect == LinkSpec => []AnswerOutcome
<1>1. LinkInv => AnswerOutcome
  BY DEF LinkInv, AnswerOutcome, Accepted
<1> QED
  BY <1>1, LinkInvariant, PTL

\* However an operator on numbers or texts ends, it is for its reason: it is
\* finished twice only where stringReplace finds nothing, never finished only
\* where ifEq or ifGr compare an integer with a real, throws only at what can
\* not be read or assigned, and ends everything only at a division that has no
\* result, or whose operands it does not read (Execute of every operator).
THEOREM EndsCorrect == LinkSpec => []EndOutcome
<1>1. EndInv => EndOutcome
  BY DEF EndInv, Outcomes, EndOutcome
<1> QED
  BY <1>1, EndInvariant, PTL

\* What an operator on two integers answers is the sum, difference, product,
\* quotient, remainder or power of those numbers whenever an `int' holds it, and
\* what ifEq and ifGr say of two numbers of one form is true, whatever else the
\* contents hold (ContAdd .. DivRem, IfEq, IfGr, the conversions they call).
THEOREM ArithmeticCorrect == LinkSpec => []ArithmeticOutcome
<1>1. EndInv => ArithmeticOutcome
  <2>1. "none" \notin Binary \cup Whole2 \cup {"ifEq", "ifGr"}
    BY DEF Binary, Whole2
  <2> QED
    BY <2>1 DEF EndInv, Outcomes, ArithmeticOutcome, Compares
<1> QED
  BY <1>1, EndInvariant, PTL

\* What an operator on texts answers is related to the texts it was given as its
\* name says: a slice is cut at its indices, what is replaced or found is the
\* first occurrence, parts are what stands between separators, none lost, and of
\* two different texts one is greater (Execute of every operator on strings).
THEOREM TextsCorrect == LinkSpec => []StringOutcome
<1>1. EndInv => StringOutcome
  <2>1. "none" \notin Strings \cup Asking
    BY DEF Strings, Asking, OfText, OfTexts, OfFive
  <2> QED
    BY <2>1 DEF EndInv, Outcomes, StringOutcome
<1> QED
  BY <1>1, EndInvariant, PTL
=============================================================================
