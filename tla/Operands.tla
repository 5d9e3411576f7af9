------------------------------ MODULE Operands ------------------------------
(***************************************************************************)
(* An operator is parsed: for each of its operands, in the order sc-memory *)
(* yields them, the role relations of the operand are read, in the order   *)
(* sc-memory yields those, and the operand is put at the position its      *)
(* order or its set order asks for.  Then it is checked that all are there *)
(* and that set operands stand over operands to be assigned.               *)
(*                                                                         *)
(* "crash": a position without an operand is looked at.                    *)
(***************************************************************************)
EXTENDS Naturals

CONSTANTS
  Arc,         \* arcs from an operator to its operands
  None,        \* nullptr
  Structures   \* operators considered, of each kind: the roles of their arcs

Kind     == {"ElStr1", "ElStr2", "ElStr3", "ElStr5", "SetStr3", "SetStr5", "sys"}
SetKind  == {"SetStr3", "SetStr5"}
TypeRole == {"const", "var", "node", "link", "class", "connector", "arc", "pos_const_perm"}
Role ==
  ({"order"} \X (1 .. 10)) \cup ({"set_order"} \X (1 .. 5))
    \cup ({"fixed", "assign", "scp_const", "scp_var", "set", "erase"} \X {0})
    \cup ({"type"} \X TypeRole)

ASSUME NoneAssumption == None \notin Arc
ASSUME StructuresAssumption ==
  \A k \in Kind : \A s \in Structures[k] :
    DOMAIN s \subseteq Arc /\ \A a \in DOMAIN s : s[a] \subseteq Role

VARIABLES
  kind,      \* whose Parse it is
  roles,     \* the operator: roles of its arcs
  unread,    \* arcs the iterator has not yielded yet
  current,   \* the arc whose operand is being made, or None
  left,      \* its roles not yet read
  operand,   \* what has been read of each operand
  operands,  \* the arc at each position
  sets,      \* the arc of the set operand at each position
  result     \* "parsing", then how Parse ended

vars == <<kind, roles, unread, current, left, operand, operands, sets, result>>

Position == 1 .. 5
Size(k) ==
  CASE k = "ElStr1" -> 1 [] k = "ElStr2" -> 2 [] k = "sys" -> 4
    [] k \in {"ElStr3", "SetStr3"} -> 3 [] k \in {"ElStr5", "SetStr5"} -> 5

\* sys_gen and sys_search can do without the fourth; SetStr5 does not look.
Required(k) == IF k = "SetStr5" THEN {} ELSE IF k = "sys" THEN 1 .. 3 ELSE 1 .. Size(k)

\* The flags a type role stands for: of a node, of a connector, of both.
Flags(t) ==
  CASE t = "link" -> {"node", "link"} [] t = "class" -> {"node", "class"}
    [] t = "arc" -> {"connector", "arc"}
    [] t = "pos_const_perm" -> {"const", "connector", "arc", "membership", "pos", "perm"}
    [] OTHER -> {t}
Flag == UNION {Flags(t) : t \in TypeRole}

\* A new SCPOperand.
NewOperand ==
  [ order |-> 0, set_order |-> 0, param |-> "fixed", scp |-> "scp_const",
    set |-> FALSE, erase |-> FALSE, type |-> {} ]

Init ==
  /\ kind \in Kind /\ roles \in Structures[kind]
  /\ unread = DOMAIN roles
  /\ current = None /\ left = {}
  /\ operand = [a \in Arc |-> NewOperand]
  /\ operands = [i \in Position |-> None]
  /\ sets = [i \in Position |-> None]
  /\ result = "parsing"

\* Mutant: the iterator yields the operand again.
TakeOperand_Again ==
  /\ result = "parsing" /\ current = None
  /\ \E a \in unread :
       /\ current' = a
       /\ left' = roles[a]
  /\ UNCHANGED <<kind, roles, unread, operand, operands, sets, result>>

TakeOperand ==
  /\ result = "parsing" /\ current = None
  /\ \E a \in unread :
       /\ unread' = unread \ {a}
       /\ current' = a
       /\ left' = roles[a]
  /\ UNCHANGED <<kind, roles, operand, operands, sets, result>>

\* One role of the operand at hand has been read, and nothing else done.
Reading(r) ==
  /\ result = "parsing"
  /\ r \in left
  /\ left' = left \ {r}
  /\ UNCHANGED <<kind, roles, unread, current, operands, sets, result>>

ResolveOrder(r) ==
  /\ r[1] = "order"
  /\ Reading(r)
  /\ operand' = [operand EXCEPT ![current].order = r[2]]

\* A set order counts only if it is read before any order.
ResolveSetOrder(r) ==
  /\ r[1] = "set_order"
  /\ Reading(r)
  /\ operand' = IF operand[current].order = 0 /\ operand[current].set_order = 0
                THEN [operand EXCEPT ![current].set_order = r[2]]
                ELSE operand

ResolveScpType(r) ==
  /\ r[1] \in {"scp_const", "scp_var"}
  /\ Reading(r)
  /\ operand' = [operand EXCEPT ![current].scp = r[1]]

ResolveParamType(r) ==
  /\ r[1] \in {"fixed", "assign"}
  /\ Reading(r)
  /\ operand' = [operand EXCEPT ![current].param = r[1]]

ResolveSet(r) ==
  /\ r[1] = "set"
  /\ Reading(r)
  /\ operand' = [operand EXCEPT ![current].set = TRUE]

ResolveErase(r) ==
  /\ r[1] = "erase"
  /\ Reading(r)
  /\ operand' = [operand EXCEPT ![current].erase = TRUE]

\* Mutant: the type asked for last is the only one.
ResolveElementType_Last(r) ==
  /\ r[1] = "type"
  /\ Reading(r)
  /\ operand' = [operand EXCEPT ![current].type = Flags(r[2])]

ResolveElementType(r) ==
  /\ r[1] = "type"
  /\ Reading(r)
  /\ operand' = [operand EXCEPT ![current].type = @ \cup Flags(r[2])]

ResolveModifiers ==
  \E r \in left :
    \/ ResolveOrder(r) \/ ResolveSetOrder(r) \/ ResolveScpType(r) \/ ResolveParamType(r)
    \/ ResolveSet(r) \/ ResolveErase(r) \/ ResolveElementType(r)

\* The constructor is through with the operand at hand.
Resolved == result = "parsing" /\ current # None /\ left = {}

IsSetOperand(a) == kind \in SetKind /\ operand[a].set_order > 0

PlaceSetOperand ==
  LET i == operand[current].set_order
  IN  /\ Resolved /\ IsSetOperand(current)
      /\ i <= Size(kind) /\ sets[i] = None
      /\ sets' = [sets EXCEPT ![i] = current]
      /\ current' = None
      /\ UNCHANGED <<kind, roles, unread, left, operand, operands, result>>

PlaceOperand ==
  LET i == operand[current].order
  IN  /\ Resolved /\ ~IsSetOperand(current)
      /\ 0 < i /\ i <= Size(kind) /\ operands[i] = None
      /\ operands' = [operands EXCEPT ![i] = current]
      /\ current' = None
      /\ UNCHANGED <<kind, roles, unread, left, operand, sets, result>>

Finish(r) == result' = r /\ UNCHANGED <<kind, roles, unread, current, left, operand, operands, sets>>

RejectSetOperand ==
  LET i == operand[current].set_order
  IN  /\ Resolved /\ IsSetOperand(current)
      /\ ~(i <= Size(kind) /\ sets[i] = None)
      /\ Finish("error")

RejectOperand ==
  LET i == operand[current].order
  IN  /\ Resolved /\ ~IsSetOperand(current)
      /\ ~(0 < i /\ i <= Size(kind) /\ operands[i] = None)
      /\ Finish("error")

\* The iterator is at its end.
AllPlaced == result = "parsing" /\ current = None /\ unread = {}
Missing   == \E i \in Required(kind) : operands[i] = None

CheckNullValues ==
  /\ AllPlaced
  /\ Missing
  /\ Finish("error")

\* Set operands are looked at one after the other, up to the first that is not
\* over an operand to be assigned.
Unfit(i) == sets[i] # None /\ (operands[i] # None => operand[operands[i]].param = "fixed")

CheckSets ==
  /\ AllPlaced /\ ~Missing /\ kind \in SetKind
  /\ \E i \in Position :
       /\ Unfit(i)
       /\ \A j \in Position : j < i => ~Unfit(j)
       /\ Finish(IF operands[i] = None THEN "crash" ELSE "error")

\* Mutant: an operator of sets need not have one.
Accept_NoSet ==
  /\ AllPlaced /\ ~Missing
  /\ \A i \in Position : ~Unfit(i)
  /\ Finish("parsed")

Accept ==
  /\ AllPlaced /\ ~Missing
  /\ \A i \in Position : ~Unfit(i)
  /\ Finish(IF kind \in SetKind /\ (\A i \in Position : sets[i] = None) THEN "error" ELSE "parsed")

Next ==
  \/ TakeOperand \/ ResolveModifiers
  \/ PlaceSetOperand \/ PlaceOperand \/ RejectSetOperand \/ RejectOperand
  \/ CheckNullValues \/ CheckSets \/ Accept

Spec == Init /\ [][Next]_vars

-----------------------------------------------------------------------------
\* Properties

\* The shape of what has been read; operands are made of the operator's arcs.
TypeOK ==
  /\ kind \in Kind /\ roles \in Structures[kind]
  /\ unread \subseteq DOMAIN roles
  /\ current \in (DOMAIN roles \ unread) \cup {None}
  /\ left \subseteq Role /\ (current = None => left = {})
  /\ operand \in [Arc -> [ order : 0 .. 10, set_order : 0 .. 5, param : {"fixed", "assign"},
                           scp : {"scp_const", "scp_var"}, set : BOOLEAN, erase : BOOLEAN,
                           type : SUBSET Flag ]]
  /\ operands \in [Position -> (DOMAIN roles \ unread) \cup {None}]
  /\ sets \in [Position -> (DOMAIN roles \ unread) \cup {None}]
  /\ result \in {"parsing", "parsed", "error", "crash"}

\* An operator that has been parsed has what its Execute will use without
\* looking: an operand at each required position, the one that has that order,
\* and, if it forms sets, a set operand over an operand to be assigned.  Only
\* SetStr5, which does not look for its operands, can meet one that is missing.
ParsedComplete ==
  /\ result = "parsed" =>
       /\ \A i \in Required(kind) : operands[i] # None /\ operand[operands[i]].order = i
       /\ \A i \in Position : sets[i] # None =>
            operands[i] # None /\ operands[i] # sets[i] /\ operand[operands[i]].param = "assign"
       /\ kind \in SetKind => \E i \in Position : sets[i] # None
  /\ result = "crash" => kind = "SetStr5"

\* Arcs that have the role r, among those of the operator.
With(r) == {a \in DOMAIN roles : r \in roles[a]}

\* No operand has two roles that exclude each other.
Alternatives == { {"order", "set_order"}, {"fixed", "assign"}, {"scp_const", "scp_var"} }
Unambiguous ==
  \A a \in DOMAIN roles, s \in Alternatives : \A r, q \in roles[a] :
    r[1] \in s /\ q[1] \in s => r = q

\* The sets an operator of its kind looks for.
Wanted(i) == IF kind \in SetKind THEN With(<<"set_order", i>>) ELSE {}
Assigned(i) == \E a \in With(<<"order", i>>) : <<"assign", 0>> \in roles[a]

IsUnique(S) == \A a, b \in S : a = b

\* What parsing should come to, said of the roles alone.
Spoilt ==
  \/ \E a \in DOMAIN roles :
       \A i \in 1 .. Size(kind) : a \notin With(<<"order", i>>) \cup Wanted(i)
  \/ \E i \in Position : ~IsUnique(With(<<"order", i>>)) \/ ~IsUnique(Wanted(i))
  \/ \E i \in Required(kind) : With(<<"order", i>>) = {}
  \/ kind \in SetKind /\ \A i \in Position : Wanted(i) = {}

\* The result does not depend on the order in which sc-memory yields operands
\* and roles, as long as no operand has roles that exclude each other.
OrderFree ==
  Unambiguous /\ result # "parsing" =>
    /\ result = "parsed" <=> ~Spoilt /\ (\A i \in Position : Wanted(i) # {} => Assigned(i))
    /\ result = "parsed" =>
         \A i \in 1 .. Size(kind) :
           /\ With(<<"order", i>>) = {operands[i]} \ {None}
           /\ Wanted(i) = {sets[i]} \ {None}
    /\ result = "parsed" =>
         \A a \in DOMAIN roles :
           operand[a].type = UNION {Flags(r[2]) : r \in {q \in roles[a] : q[1] = "type"}}
=============================================================================
