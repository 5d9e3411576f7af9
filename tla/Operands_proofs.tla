--------------------------- MODULE Operands_proofs ---------------------------
(***************************************************************************)
(* Proofs about Operands, for any operator with any arcs and roles: what   *)
(* has been read and placed is well formed, a parsed operator has all that *)
(* its Execute uses, and parsing comes to the same in whatever order       *)
(* operands and roles are read.                                            *)
(***************************************************************************)
EXTENDS Operands, TLAPS

\* What has been placed stands where its order, or its set order, says, and is
\* not read any further.
Placed ==
  /\ \A i \in Position : operands[i] # None =>
       /\ operands[i] # current
       /\ operand[operands[i]].order = i
       /\ ~IsSetOperand(operands[i])
  /\ \A i \in Position : sets[i] # None =>
       /\ sets[i] # current
       /\ operand[sets[i]].set_order = i
       /\ i <= Size(kind)
       /\ IsSetOperand(sets[i])

IInv == TypeOK /\ Placed /\ ParsedComplete

OperandRecord ==
  [ order : 0 .. 10, set_order : 0 .. 5, param : {"fixed", "assign"},
    scp : {"scp_const", "scp_var"}, set : BOOLEAN, erase : BOOLEAN, type : SUBSET Flag ]

\* Roles of a sort have the values of that sort: an order is a number from 1 to
\* 10, a set order one from 1 to 5, a type one of the types.
LEMMA RoleValues ==
  ASSUME NEW r \in Role
  PROVE  /\ r[1] = "order" => r[2] \in 1 .. 10
         /\ r[1] = "set_order" => r[2] \in 1 .. 5
         /\ r[1] = "type" => r[2] \in TypeRole
<1>1. CASE r \in {"order"} \X (1 .. 10)
  BY <1>1
<1>2. CASE r \in {"set_order"} \X (1 .. 5)
  BY <1>2
<1>3. CASE r \in {"fixed", "assign", "scp_const", "scp_var", "set", "erase"} \X {0}
  BY <1>3
<1>4. CASE r \in {"type"} \X TypeRole
  BY <1>4
<1> QED  BY <1>1, <1>2, <1>3, <1>4 DEF Role

\* A role is a pair.
LEMMA RolePair ==
  ASSUME NEW r \in Role
  PROVE  r = <<r[1], r[2]>>
BY DEF Role

\* Positions an operator has, and those it must have taken.
LEMMA Sizes ==
  ASSUME NEW k \in Kind
  PROVE  Size(k) \in Position /\ Required(k) \subseteq Position
<1>1. CASE k = "ElStr1" \/ k = "ElStr2" \/ k = "sys"
  BY <1>1 DEF Size, Required, Position
<1>2. CASE k = "ElStr3" \/ k = "SetStr3"
  BY <1>2 DEF Size, Required, Position
<1>3. CASE k = "ElStr5" \/ k = "SetStr5"
  BY <1>3 DEF Size, Required, Position
<1> QED  BY <1>1, <1>2, <1>3 DEF Kind

\* Reading one role leaves a record of an operand.
LEMMA ReadingTyped ==
  ASSUME TypeOK, NEW r \in left, current \in Arc,
         ResolveOrder(r) \/ ResolveSetOrder(r) \/ ResolveScpType(r) \/ ResolveParamType(r)
           \/ ResolveSet(r) \/ ResolveErase(r) \/ ResolveElementType(r)
  PROVE  operand' \in [Arc -> OperandRecord]
<1> DEFINE o == operand[current]
<1>1. r \in Role /\ operand \in [Arc -> OperandRecord] /\ o \in OperandRecord
  BY DEF TypeOK, OperandRecord
<1>2. CASE ResolveOrder(r)
  <2>1. r[2] \in 0 .. 10
    BY <1>1, <1>2, RoleValues DEF ResolveOrder
  <2>2. [o EXCEPT !.order = r[2]] \in OperandRecord
    BY <1>1, <2>1 DEF OperandRecord
  <2> QED  BY <1>1, <1>2, <2>2 DEF ResolveOrder
<1>3. CASE ResolveSetOrder(r)
  <2>1. r[2] \in 0 .. 5
    BY <1>1, <1>3, RoleValues DEF ResolveSetOrder
  <2>2. [o EXCEPT !.set_order = r[2]] \in OperandRecord
    BY <1>1, <2>1 DEF OperandRecord
  <2> QED  BY <1>1, <1>3, <2>2 DEF ResolveSetOrder
<1>4. CASE ResolveScpType(r)
  <2>1. [o EXCEPT !.scp = r[1]] \in OperandRecord
    BY <1>1, <1>4 DEF OperandRecord, ResolveScpType
  <2> QED  BY <1>1, <1>4, <2>1 DEF ResolveScpType
<1>5. CASE ResolveParamType(r)
  <2>1. [o EXCEPT !.param = r[1]] \in OperandRecord
    BY <1>1, <1>5 DEF OperandRecord, ResolveParamType
  <2> QED  BY <1>1, <1>5, <2>1 DEF ResolveParamType
<1>6. CASE ResolveSet(r)
  <2>1. [o EXCEPT !.set = TRUE] \in OperandRecord
    BY <1>1 DEF OperandRecord
  <2> QED  BY <1>1, <1>6, <2>1 DEF ResolveSet
<1>7. CASE ResolveErase(r)
  <2>1. [o EXCEPT !.erase = TRUE] \in OperandRecord
    BY <1>1 DEF OperandRecord
  <2> QED  BY <1>1, <1>7, <2>1 DEF ResolveErase
<1>8. CASE ResolveElementType(r)
  <2>1. Flags(r[2]) \subseteq Flag
    BY <1>1, <1>8, RoleValues DEF ResolveElementType, Flag
  <2>2. [o EXCEPT !.type = o.type \cup Flags(r[2])] \in OperandRecord
    BY <1>1, <2>1 DEF OperandRecord
  <2>3. operand' = [operand EXCEPT ![current] = [o EXCEPT !.type = o.type \cup Flags(r[2])]]
    BY <1>8 DEF ResolveElementType
  <2> QED  BY <1>1, <2>2, <2>3
<1> QED  BY <1>2, <1>3, <1>4, <1>5, <1>6, <1>7, <1>8

\* Reading one role changes the operand at hand alone.
LEMMA ReadingLocal ==
  ASSUME TypeOK, NEW r \in left,
         ResolveOrder(r) \/ ResolveSetOrder(r) \/ ResolveScpType(r) \/ ResolveParamType(r)
           \/ ResolveSet(r) \/ ResolveErase(r) \/ ResolveElementType(r)
  PROVE  \A a \in Arc : a # current => operand'[a] = operand[a]
BY DEF TypeOK, ResolveOrder, ResolveSetOrder, ResolveScpType, ResolveParamType,
       ResolveSet, ResolveErase, ResolveElementType

\* What one role leaves as it is.
LEMMA ReadingReads ==
  ASSUME NEW r \in left,
         ResolveOrder(r) \/ ResolveSetOrder(r) \/ ResolveScpType(r) \/ ResolveParamType(r)
           \/ ResolveSet(r) \/ ResolveErase(r) \/ ResolveElementType(r)
  PROVE  Reading(r)
BY DEF ResolveOrder, ResolveSetOrder, ResolveScpType, ResolveParamType,
       ResolveSet, ResolveErase, ResolveElementType

-----------------------------------------------------------------------------
\* At first nothing has been read and no position is taken.
LEMMA InitInv == Init => IInv
<1> SUFFICES ASSUME Init PROVE IInv
  OBVIOUS
<1>1. NewOperand \in OperandRecord
  BY DEF NewOperand, OperandRecord
<1>2. TypeOK
  BY <1>1, StructuresAssumption DEF Init, TypeOK, OperandRecord
<1>3. Placed /\ ParsedComplete
  BY DEF Init, Placed, ParsedComplete
<1> QED  BY <1>2, <1>3 DEF IInv

\* An arc that is at a position is one of the operator's.
LEMMA PlacedArcs ==
  ASSUME TypeOK, NEW i \in Position
  PROVE  /\ operands[i] # None => operands[i] \in Arc
         /\ sets[i] # None => sets[i] \in Arc
BY StructuresAssumption DEF TypeOK

\* The next operand is taken: it stands at no position yet.
LEMMA TakeInv == IInv /\ TakeOperand => IInv'
<1> SUFFICES ASSUME IInv, TakeOperand PROVE IInv'
  OBVIOUS
<1> USE NoneAssumption
<1>1. PICK a \in unread : unread' = unread \ {a} /\ current' = a /\ left' = roles[a]
  BY DEF TakeOperand
<1>2. a \in DOMAIN roles /\ a \in Arc /\ roles[a] \subseteq Role
  BY <1>1, StructuresAssumption DEF IInv, TypeOK
<1>3. \A i \in Position : operands[i] # a /\ sets[i] # a
  BY <1>1, <1>2 DEF IInv, TypeOK
<1>4. DOMAIN roles \ unread \subseteq DOMAIN roles' \ unread'
  BY <1>1 DEF TakeOperand
<1>5. TypeOK'
  BY <1>1, <1>2, <1>4 DEF IInv, TypeOK, TakeOperand
<1>6. Placed'
  BY <1>1, <1>3 DEF IInv, Placed, TakeOperand, IsSetOperand
<1>7. ParsedComplete'
  BY DEF ParsedComplete, TakeOperand
<1> QED  BY <1>5, <1>6, <1>7 DEF IInv

\* A role is read: those already placed are not touched.
LEMMA ResolveInv == IInv /\ ResolveModifiers => IInv'
<1> SUFFICES ASSUME IInv, ResolveModifiers PROVE IInv'
  OBVIOUS
<1>1. PICK r \in left :
        ResolveOrder(r) \/ ResolveSetOrder(r) \/ ResolveScpType(r) \/ ResolveParamType(r)
          \/ ResolveSet(r) \/ ResolveErase(r) \/ ResolveElementType(r)
  BY DEF ResolveModifiers
<1>2. Reading(r)
  BY <1>1, ReadingReads
<1>3. TypeOK /\ current # None /\ current \in Arc
  BY StructuresAssumption DEF IInv, TypeOK
<1>4. operand' \in [Arc -> OperandRecord]
  BY <1>1, <1>3, ReadingTyped
<1>5. \A a \in Arc : a # current => operand'[a] = operand[a]
  BY <1>1, <1>3, ReadingLocal
<1>6. TypeOK'
  BY <1>2, <1>3, <1>4 DEF TypeOK, Reading, OperandRecord
<1>7. Placed'
  <2> SUFFICES ASSUME NEW i \in Position
               PROVE  /\ operands'[i] # None =>
                           /\ operands'[i] # current'
                           /\ operand'[operands'[i]].order = i
                           /\ ~IsSetOperand(operands[i])'
                      /\ sets'[i] # None =>
                           /\ sets'[i] # current'
                           /\ operand'[sets'[i]].set_order = i
                           /\ i <= Size(kind')
                           /\ IsSetOperand(sets[i])'
    BY DEF Placed
  <2>1. operands' = operands /\ sets' = sets /\ current' = current /\ kind' = kind
    BY <1>2 DEF Reading
  <2>2. operands[i] # None => operands[i] \in Arc /\ operands[i] # current
    BY <1>3, PlacedArcs DEF IInv, Placed
  <2>3. sets[i] # None => sets[i] \in Arc /\ sets[i] # current
    BY <1>3, PlacedArcs DEF IInv, Placed
  <2> QED  BY <2>1, <2>2, <2>3, <1>5 DEF IInv, Placed, IsSetOperand
<1>8. ParsedComplete'
  BY <1>2 DEF ParsedComplete, Reading
<1> QED  BY <1>6, <1>7, <1>8 DEF IInv

\* An operand gets a position of its own.
LEMMA PlaceInv == IInv /\ (PlaceOperand \/ PlaceSetOperand) => IInv'
<1>1. ASSUME IInv, PlaceOperand PROVE IInv'
  <2>1. current \in DOMAIN roles \ unread /\ current # None
    BY <1>1 DEF PlaceOperand, Resolved, IInv, TypeOK
  <2>p. operand[current].order \in Position
    <3>1. Size(kind) \in 1 .. 5 /\ current \in Arc
      BY <2>1, Sizes, StructuresAssumption, <1>1 DEF IInv, TypeOK, Position
    <3>2. operand[current].order \in 0 .. 10
      BY <1>1, <3>1 DEF IInv, TypeOK
    <3> QED  BY <1>1, <3>1, <3>2 DEF PlaceOperand, Position
  <2>s. operands' = [operands EXCEPT ![operand[current].order] = current] /\ left = {} /\ current' = None
    BY <1>1 DEF PlaceOperand, Resolved
  <2>u. UNCHANGED <<kind, roles, unread, left, operand, sets, result>>
    BY <1>1 DEF PlaceOperand
  <2>f. operands' \in [Position -> (DOMAIN roles \ unread) \cup {None}]
    BY <1>1, <2>1, <2>p, <2>s DEF IInv, TypeOK
  <2>2. TypeOK'
    BY <1>1, <2>s, <2>u, <2>f DEF IInv, TypeOK
  <2>3. Placed'
    BY <1>1, <2>1 DEF PlaceOperand, IInv, TypeOK, Placed, IsSetOperand
  <2>4. ParsedComplete'
    BY <1>1 DEF PlaceOperand, Resolved, ParsedComplete
  <2> QED  BY <2>2, <2>3, <2>4 DEF IInv
<1>2. ASSUME IInv, PlaceSetOperand PROVE IInv'
  <2>1. current \in DOMAIN roles \ unread /\ current # None
    BY <1>2 DEF PlaceSetOperand, Resolved, IInv, TypeOK
  <2>p. operand[current].set_order \in Position
    <3>1. Size(kind) \in 1 .. 5 /\ current \in Arc
      BY <2>1, Sizes, StructuresAssumption, <1>2 DEF IInv, TypeOK, Position
    <3>2. operand[current].set_order \in 0 .. 5
      BY <1>2, <3>1 DEF IInv, TypeOK
    <3> QED  BY <1>2, <3>1, <3>2 DEF PlaceSetOperand, IsSetOperand, Position
  <2>s. sets' = [sets EXCEPT ![operand[current].set_order] = current] /\ left = {} /\ current' = None
    BY <1>2 DEF PlaceSetOperand, Resolved
  <2>u. UNCHANGED <<kind, roles, unread, left, operand, operands, result>>
    BY <1>2 DEF PlaceSetOperand
  <2>f. sets' \in [Position -> (DOMAIN roles \ unread) \cup {None}]
    BY <1>2, <2>1, <2>p, <2>s DEF IInv, TypeOK
  <2>2. TypeOK'
    BY <1>2, <2>s, <2>u, <2>f DEF IInv, TypeOK
  <2>3. Placed'
    BY <1>2, <2>1 DEF PlaceSetOperand, IInv, TypeOK, Placed, IsSetOperand
  <2>4. ParsedComplete'
    BY <1>2 DEF PlaceSetOperand, Resolved, ParsedComplete
  <2> QED  BY <2>2, <2>3, <2>4 DEF IInv
<1> QED  BY <1>1, <1>2

\* Parsing ends, and nothing but its result changes.
LEMMA FinishInv ==
  ASSUME IInv, NEW r \in {"parsed", "error", "crash"}, Finish(r),
         r = "parsed" => AllPlaced /\ ~Missing /\ (\A i \in Position : ~Unfit(i))
                           /\ (kind \in SetKind => \E i \in Position : sets[i] # None),
         r = "crash" => kind = "SetStr5"
  PROVE  IInv'
<1>1. TypeOK'
  BY DEF IInv, TypeOK, Finish
<1>2. Placed'
  BY DEF IInv, Placed, Finish, IsSetOperand
<1>3. ParsedComplete'
  <2>1. CASE r = "parsed"
    <3>1. Required(kind) \subseteq Position
      BY Sizes DEF IInv, TypeOK
    <3>2. \A i \in Required(kind) : operands[i] # None /\ operand[operands[i]].order = i
      BY <2>1, <3>1 DEF Missing, IInv, Placed
    <3>3. \A i \in Position : sets[i] # None =>
             operands[i] # None /\ operands[i] # sets[i] /\ operand[operands[i]].param = "assign"
      <4> SUFFICES ASSUME NEW i \in Position, sets[i] # None
                   PROVE  operands[i] # None /\ operands[i] # sets[i]
                            /\ operand[operands[i]].param = "assign"
        OBVIOUS
      <4>1. operands[i] # None /\ operand[operands[i]].param # "fixed"
        BY <2>1 DEF Unfit
      <4>2. operands[i] \in Arc
        BY <4>1, PlacedArcs DEF IInv
      <4>3. operand[operands[i]].param \in {"fixed", "assign"}
        BY <4>2 DEF IInv, TypeOK
      <4>4. operands[i] # sets[i]
        BY <4>1 DEF IInv, Placed
      <4> QED  BY <4>1, <4>3, <4>4
    <3> QED  BY <2>1, <3>2, <3>3 DEF ParsedComplete, Finish
  <2>2. CASE r # "parsed"
    BY <2>2 DEF ParsedComplete, Finish
  <2> QED  BY <2>1, <2>2
<1> QED  BY <1>1, <1>2, <1>3 DEF IInv

\* A set operand over a position that is required is over an operand.
LEMMA CrashOnlySetStr5 ==
  ASSUME IInv, ~Missing, kind \in SetKind, NEW i \in Position, Unfit(i), operands[i] = None
  PROVE  kind = "SetStr5"
<1> SUFFICES ASSUME kind = "SetStr3" PROVE FALSE
  BY DEF SetKind
<1>1. Size(kind) = 3 /\ Required(kind) = 1 .. 3
  BY DEF Size, Required
<1>2. i \in Required(kind)
  BY <1>1 DEF Position, Unfit, IInv, Placed
<1> QED  BY <1>2 DEF Missing

\* Every step keeps the invariant.
LEMMA NextInv == IInv /\ [Next]_vars => IInv'
<1> SUFFICES ASSUME IInv, [Next]_vars PROVE IInv'
  OBVIOUS
<1>1. CASE TakeOperand
  BY <1>1, TakeInv
<1>2. CASE ResolveModifiers
  BY <1>2, ResolveInv
<1>3. CASE PlaceOperand \/ PlaceSetOperand
  BY <1>3, PlaceInv
<1>4. CASE RejectSetOperand \/ RejectOperand \/ CheckNullValues
  BY <1>4, FinishInv DEF RejectSetOperand, RejectOperand, CheckNullValues
<1>5. CASE CheckSets
  <2>1. PICK i \in Position :
          Unfit(i) /\ Finish(IF operands[i] = None THEN "crash" ELSE "error")
    BY <1>5 DEF CheckSets
  <2>2. CASE operands[i] = None
    <3>1. kind = "SetStr5" /\ Finish("crash")
      BY <1>5, <2>1, <2>2, CrashOnlySetStr5 DEF CheckSets
    <3> QED  BY <3>1, FinishInv
  <2>3. CASE operands[i] # None
    BY <2>1, <2>3, FinishInv
  <2> QED  BY <2>2, <2>3
<1>6. CASE Accept
  <2>1. CASE kind \in SetKind /\ \A i \in Position : sets[i] = None
    BY <1>6, <2>1, FinishInv DEF Accept
  <2>2. CASE ~(kind \in SetKind /\ \A i \in Position : sets[i] = None)
    BY <1>6, <2>2, FinishInv DEF Accept
  <2> QED  BY <2>1, <2>2
<1>7. CASE UNCHANGED vars
  BY <1>7 DEF vars, IInv, TypeOK, Placed, ParsedComplete, IsSetOperand
<1> QED  BY <1>1, <1>2, <1>3, <1>4, <1>5, <1>6, <1>7 DEF Next

\* What has been read and placed is well formed, whatever arcs and roles the
\* operator has and in whatever order they come.
THEOREM TypeCorrect == Spec => []TypeOK
<1>1. IInv => TypeOK
  BY DEF IInv
<1> QED  BY InitInv, NextInv, <1>1, PTL DEF Spec

\* A parsed operator has all that its Execute uses without looking, and only
\* SetStr5 can meet a position without an operand, for every operator.
THEOREM ParsingCorrect == Spec => []ParsedComplete
<1>1. IInv => ParsedComplete
  BY DEF IInv
<1> QED  BY InitInv, NextInv, <1>1, PTL DEF Spec

-----------------------------------------------------------------------------
\* The order in which operands and roles are yielded

\* The roles of an operand that have been read.
Seen(a) == IF a \in unread THEN {} ELSE IF a = current THEN roles[a] \ left ELSE roles[a]

TypesOf(S) == UNION {Flags(r[2]) : r \in {q \in S : q[1] = "type"}}

\* p is what the roles in S say, in whatever order they came.
Says(p, S) ==
  /\ \A i \in 1 .. 10 : p.order = i <=> <<"order", i>> \in S
  /\ \A i \in Position : p.set_order = i <=> <<"set_order", i>> \in S
  /\ p.param = "assign" <=> <<"assign", 0>> \in S
  /\ p.type = TypesOf(S)

ReadSoFar ==
  /\ current # None => left \subseteq roles[current]
  /\ \A a \in DOMAIN roles : Says(operand[a], Seen(a))

\* An operand that has been read stands where its order, or set order, says.
AllPut ==
  \A a \in DOMAIN roles \ unread : a # current =>
    IF IsSetOperand(a)
    THEN operand[a].set_order <= Size(kind) /\ sets[operand[a].set_order] = a
    ELSE operand[a].order \in 1 .. Size(kind) /\ operands[operand[a].order] = a

\* Why an operator should be rejected, said of the roles alone.
Rejectable == Spoilt \/ \E i \in Position : Wanted(i) # {} /\ ~Assigned(i)

EndedRightly ==
  /\ result \in {"error", "crash"} => Rejectable
  /\ result = "parsed" => unread = {} /\ current = None

OrderInv == Unambiguous => ReadSoFar /\ AllPut /\ EndedRightly

\* Two roles that exclude each other are not both an operand's.
LEMMA OneOfAlternatives ==
  ASSUME Unambiguous, NEW a \in DOMAIN roles, NEW r \in roles[a], NEW q \in roles[a],
         \/ {r[1], q[1]} \subseteq {"order", "set_order"}
         \/ {r[1], q[1]} \subseteq {"fixed", "assign"}
  PROVE  r = q
BY DEF Unambiguous, Alternatives

\* The flags of one more type.
LEMMA TypesGrow ==
  ASSUME NEW S, NEW r
  PROVE  TypesOf(S \cup {r}) = IF r[1] = "type" THEN TypesOf(S) \cup Flags(r[2]) ELSE TypesOf(S)
BY DEF TypesOf

\* Nothing is seen of an operand when parsing begins.
LEMMA OrderInit == Init => OrderInv
<1> SUFFICES ASSUME Init PROVE ReadSoFar /\ AllPut /\ EndedRightly
  BY DEF OrderInv
<1>1. \A a \in DOMAIN roles : a \in Arc /\ operand[a] = NewOperand /\ Seen(a) = {}
  BY StructuresAssumption DEF Init, Seen
<1>2. TypesOf({}) = {}
  BY DEF TypesOf
<1>3. /\ NewOperand.order = 0 /\ NewOperand.set_order = 0
      /\ NewOperand.param = "fixed" /\ NewOperand.type = {}
  BY DEF NewOperand
<1>4. ReadSoFar
  BY <1>1, <1>2, <1>3 DEF Init, ReadSoFar, Says, Position
<1> QED  BY <1>4 DEF Init, AllPut, EndedRightly

\* A role is one of those read, or the one read last.
LEMMA OneMoreRole ==
  ASSUME NEW S, NEW r \in Role
  PROVE  /\ \A i : <<"order", i>> \in S \cup {r} <=> <<"order", i>> \in S \/ (r[1] = "order" /\ r[2] = i)
         /\ \A i : <<"set_order", i>> \in S \cup {r}
                     <=> <<"set_order", i>> \in S \/ (r[1] = "set_order" /\ r[2] = i)
         /\ <<"assign", 0>> \in S \cup {r} <=> <<"assign", 0>> \in S \/ r[1] = "assign"
<1>1. r = <<r[1], r[2]>>
  BY RolePair
<1>2. r[1] = "assign" => r[2] = 0
  BY DEF Role
<1> QED  BY <1>1, <1>2

\* A role that is read is recorded, and what was recorded stays.
LEMMA SaysMore ==
  ASSUME NEW S, NEW r \in Role, NEW o \in OperandRecord, NEW p \in OperandRecord, Says(o, S),
         \A q \in S : /\ ~({r[1], q[1]} \subseteq {"order", "set_order"})
                      /\ ~({r[1], q[1]} \subseteq {"fixed", "assign"}),
         p.order = IF r[1] = "order" THEN r[2] ELSE o.order,
         p.set_order = IF r[1] = "set_order" /\ o.order = 0 /\ o.set_order = 0 THEN r[2] ELSE o.set_order,
         p.param = IF r[1] \in {"fixed", "assign"} THEN r[1] ELSE o.param,
         p.type = IF r[1] = "type" THEN o.type \cup Flags(r[2]) ELSE o.type
  PROVE  Says(p, S \cup {r})
<1>1. r[1] \in {"order", "set_order"} => \A i : <<"order", i>> \notin S /\ <<"set_order", i>> \notin S
  OBVIOUS
<1>2. r[1] \in {"fixed", "assign"} => <<"assign", 0>> \notin S
  OBVIOUS
<1>3. \A i \in 1 .. 10 : p.order = i <=> <<"order", i>> \in S \/ (r[1] = "order" /\ r[2] = i)
  BY <1>1, RoleValues DEF Says, OperandRecord
<1>4. r[1] = "set_order" => o.order = 0 /\ o.set_order = 0
  <2> SUFFICES ASSUME r[1] = "set_order" PROVE o.order = 0 /\ o.set_order = 0
    OBVIOUS
  <2>1. \A i \in 1 .. 10 : o.order # i
    BY <1>1 DEF Says
  <2>2. \A i \in 1 .. 5 : o.set_order # i
    BY <1>1 DEF Says, Position
  <2>3. o.order \in 0 .. 10 /\ o.set_order \in 0 .. 5
    BY DEF OperandRecord
  <2> QED  BY <2>1, <2>2, <2>3
<1>5. \A i \in Position : p.set_order = i <=> <<"set_order", i>> \in S \/ (r[1] = "set_order" /\ r[2] = i)
  BY <1>1, <1>4, RoleValues DEF Says, OperandRecord
<1>6. p.param = "assign" <=> <<"assign", 0>> \in S \/ r[1] = "assign"
  BY <1>2 DEF Says
<1>7. p.type = TypesOf(S \cup {r})
  BY TypesGrow DEF Says
<1> QED  BY <1>3, <1>5, <1>6, <1>7, OneMoreRole DEF Says

\* So it is of the operand at hand, and the others stay as they are.
LEMMA ReadingSeen ==
  ASSUME IInv, ReadSoFar, Unambiguous, current # None, NEW r \in left,
         ResolveOrder(r) \/ ResolveSetOrder(r) \/ ResolveScpType(r) \/ ResolveParamType(r)
           \/ ResolveSet(r) \/ ResolveErase(r) \/ ResolveElementType(r)
  PROVE  ReadSoFar'
<1>1. Reading(r) /\ TypeOK
  BY ReadingReads DEF IInv
<1>2. /\ current \in DOMAIN roles /\ current \in Arc /\ current \notin unread
      /\ r \in roles[current] /\ r \in Role
  BY <1>1, StructuresAssumption DEF TypeOK, ReadSoFar
<1>3. /\ Seen(current)' = Seen(current) \cup {r} /\ Seen(current) \subseteq roles[current]
      /\ r \notin Seen(current)
      /\ \A a \in DOMAIN roles : a # current => Seen(a)' = Seen(a)
  BY <1>1, <1>2 DEF Reading, Seen, ReadSoFar
<1>4. \A a \in DOMAIN roles : a # current => operand'[a] = operand[a]
  BY <1>1, StructuresAssumption, ReadingLocal DEF TypeOK
<1> DEFINE o == operand[current]
           p == operand'[current]
           S == Seen(current)
<1>5. /\ operand \in [Arc -> OperandRecord] /\ o \in OperandRecord
      /\ p \in OperandRecord /\ Says(o, S)
  BY <1>1, <1>2, ReadingTyped DEF TypeOK, ReadSoFar, OperandRecord
<1>6. \A q \in S : /\ ~({r[1], q[1]} \subseteq {"order", "set_order"})
                   /\ ~({r[1], q[1]} \subseteq {"fixed", "assign"})
  BY <1>2, <1>3, OneOfAlternatives
<1>7. /\ p.order = IF r[1] = "order" THEN r[2] ELSE o.order
      /\ p.set_order = IF r[1] = "set_order" /\ o.order = 0 /\ o.set_order = 0 THEN r[2] ELSE o.set_order
      /\ p.param = IF r[1] \in {"fixed", "assign"} THEN r[1] ELSE o.param
      /\ p.type = IF r[1] = "type" THEN o.type \cup Flags(r[2]) ELSE o.type
  <2>1. CASE ResolveOrder(r)
    BY <1>2, <1>5, <2>1 DEF ResolveOrder, OperandRecord
  <2>2. CASE ResolveSetOrder(r)
    BY <1>2, <1>5, <2>2 DEF ResolveSetOrder, OperandRecord
  <2>3. CASE ResolveParamType(r)
    BY <1>2, <1>5, <2>3 DEF ResolveParamType, OperandRecord
  <2>4. CASE ResolveElementType(r)
    BY <1>2, <1>5, <2>4 DEF ResolveElementType, OperandRecord
  <2>5. CASE ResolveScpType(r)
    BY <1>2, <1>5, <2>5 DEF ResolveScpType, OperandRecord
  <2>6. CASE ResolveSet(r) \/ ResolveErase(r)
    BY <1>2, <1>5, <2>6 DEF ResolveSet, ResolveErase, OperandRecord
  <2> QED  BY <2>1, <2>2, <2>3, <2>4, <2>5, <2>6
<1>8. Says(p, S \cup {r})
  BY <1>2, <1>5, <1>6, <1>7, SaysMore
<1>9. ASSUME NEW a \in DOMAIN roles PROVE Says(operand'[a], Seen(a)')
  <2>1. CASE a = current
    <3>1. Seen(a)' = Seen(current) \cup {r}
      BY <1>1, <1>3, <2>1 DEF Reading, Seen
    <3> QED  BY <1>8, <2>1, <3>1
  <2>2. CASE a # current
    <3>1. Seen(a)' = Seen(a) /\ operand'[a] = operand[a] /\ Says(operand[a], Seen(a))
      BY <1>3, <1>4, <2>2 DEF ReadSoFar
    <3> QED  BY <3>1
  <2> QED  BY <2>1, <2>2
<1>10. UNCHANGED <<roles, current>> /\ left' \subseteq left
  BY <1>1 DEF Reading
<1>11. \A a \in DOMAIN roles : Says(operand[a], Seen(a))'
  BY <1>9
<1> QED  BY <1>10, <1>11 DEF ReadSoFar

\* Whatever is done next, an operand is what the roles read of it say.
LEMMA ReadNext == IInv /\ Unambiguous /\ ReadSoFar /\ [Next]_vars => ReadSoFar'
<1> SUFFICES ASSUME IInv, Unambiguous, ReadSoFar, [Next]_vars PROVE ReadSoFar'
  OBVIOUS
<1>0. \A a \in DOMAIN roles : a # None
  BY NoneAssumption, StructuresAssumption DEF IInv, TypeOK
<1>1. CASE ResolveModifiers
  BY <1>1, ReadingSeen DEF ResolveModifiers, IInv, TypeOK
<1>2. ASSUME UNCHANGED <<roles, operand>>, current' # None => left' \subseteq roles[current'],
             \A a \in DOMAIN roles : Seen(a)' = Seen(a)
      PROVE  ReadSoFar'
  <2>1. \A a \in DOMAIN roles : Says(operand[a], Seen(a))'
    BY <1>2 DEF ReadSoFar
  <2> QED  BY <1>2, <2>1 DEF ReadSoFar
<1>3. CASE TakeOperand
  BY <1>0, <1>2, <1>3 DEF TakeOperand, Seen, IInv, TypeOK
<1>4. CASE PlaceOperand \/ PlaceSetOperand
  BY <1>2, <1>4 DEF PlaceOperand, PlaceSetOperand, Resolved, Seen
<1>5. ASSUME NEW r, Finish(r) PROVE ReadSoFar'
  BY <1>2, <1>5 DEF Finish, Seen, ReadSoFar
<1>6. CASE RejectSetOperand \/ RejectOperand \/ CheckNullValues \/ CheckSets \/ Accept
  BY <1>5, <1>6 DEF RejectSetOperand, RejectOperand, CheckNullValues, CheckSets, Accept
<1>7. CASE UNCHANGED vars
  BY <1>2, <1>7 DEF vars, Seen, ReadSoFar
<1> QED  BY <1>1, <1>3, <1>4, <1>6, <1>7 DEF Next

\* Whatever is done next, an operand that has been read stands where it should.
LEMMA PutNext == IInv /\ AllPut /\ [Next]_vars => AllPut'
<1> SUFFICES ASSUME IInv, AllPut, [Next]_vars PROVE AllPut'
  OBVIOUS
<1>0. /\ \A a \in DOMAIN roles : a # None /\ a \in Arc
      /\ operands \in [Position -> (DOMAIN roles \ unread) \cup {None}]
      /\ sets \in [Position -> (DOMAIN roles \ unread) \cup {None}]
  BY NoneAssumption, StructuresAssumption DEF IInv, TypeOK
<1>1. CASE TakeOperand
  BY <1>0, <1>1 DEF TakeOperand, AllPut, IsSetOperand
<1>2. CASE ResolveModifiers
  <2>1. PICK r \in left :
          ResolveOrder(r) \/ ResolveSetOrder(r) \/ ResolveScpType(r) \/ ResolveParamType(r)
            \/ ResolveSet(r) \/ ResolveErase(r) \/ ResolveElementType(r)
    BY <1>2 DEF ResolveModifiers
  <2>2. Reading(r) /\ \A a \in Arc : a # current => operand'[a] = operand[a]
    BY <2>1, ReadingReads, ReadingLocal DEF IInv
  <2> QED  BY <1>0, <2>2 DEF Reading, AllPut, IsSetOperand
<1>3. CASE PlaceOperand
  <2> DEFINE i == operand[current].order
  <2>1. /\ current \in DOMAIN roles \ unread /\ i \in 1 .. Size(kind) /\ i \in Position
        /\ ~IsSetOperand(current) /\ operands[i] = None
        /\ operands' = [operands EXCEPT ![i] = current] /\ current' = None
        /\ UNCHANGED <<kind, roles, unread, operand, sets>>
    <3>1. Size(kind) \in 1 .. 5
      BY Sizes DEF IInv, TypeOK, Position
    <3>2. current \in DOMAIN roles \ unread /\ i \in 0 .. 10
      BY <1>0, <1>3 DEF PlaceOperand, Resolved, IInv, TypeOK
    <3> QED  BY <1>3, <3>1, <3>2 DEF PlaceOperand, Position
  <2>2. operands'[i] = current /\ \A j \in Position : j # i => operands'[j] = operands[j]
    BY <1>0, <2>1
  <2> SUFFICES ASSUME NEW a \in DOMAIN roles \ unread
               PROVE  IF IsSetOperand(a)
                      THEN operand[a].set_order <= Size(kind) /\ sets[operand[a].set_order] = a
                      ELSE operand[a].order \in 1 .. Size(kind) /\ operands'[operand[a].order] = a
    BY <2>1 DEF AllPut, IsSetOperand
  <2>3. CASE a = current
    BY <2>1, <2>2, <2>3
  <2>4. CASE a # current /\ ~IsSetOperand(a)
    <3>1. operand[a].order \in 1 .. Size(kind) /\ operands[operand[a].order] = a
      BY <2>4 DEF AllPut
    <3>2. operand[a].order # i /\ operand[a].order \in Position
      BY <1>0, <2>1, <3>1, Sizes DEF IInv, TypeOK, Position
    <3> QED  BY <2>2, <2>4, <3>1, <3>2
  <2>5. CASE a # current /\ IsSetOperand(a)
    BY <2>5 DEF AllPut
  <2> QED  BY <2>3, <2>4, <2>5
<1>4. CASE PlaceSetOperand
  <2> DEFINE i == operand[current].set_order
  <2>1. /\ current \in DOMAIN roles \ unread /\ i \in 1 .. Size(kind) /\ i \in Position
        /\ IsSetOperand(current) /\ sets[i] = None
        /\ sets' = [sets EXCEPT ![i] = current] /\ current' = None
        /\ UNCHANGED <<kind, roles, unread, operand, operands>>
    <3>1. Size(kind) \in 1 .. 5
      BY Sizes DEF IInv, TypeOK, Position
    <3>2. current \in DOMAIN roles \ unread /\ i \in 0 .. 5
      BY <1>0, <1>4 DEF PlaceSetOperand, Resolved, IInv, TypeOK
    <3> QED  BY <1>4, <3>1, <3>2 DEF PlaceSetOperand, Position, IsSetOperand
  <2>2. sets'[i] = current /\ \A j \in Position : j # i => sets'[j] = sets[j]
    BY <1>0, <2>1
  <2> SUFFICES ASSUME NEW a \in DOMAIN roles \ unread
               PROVE  IF IsSetOperand(a)
                      THEN operand[a].set_order <= Size(kind) /\ sets'[operand[a].set_order] = a
                      ELSE operand[a].order \in 1 .. Size(kind) /\ operands[operand[a].order] = a
    BY <2>1 DEF AllPut, IsSetOperand
  <2>3. CASE a = current
    BY <2>1, <2>2, <2>3
  <2>4. CASE a # current /\ IsSetOperand(a)
    <3>1. operand[a].set_order <= Size(kind) /\ sets[operand[a].set_order] = a
      BY <2>4 DEF AllPut
    <3>2. operand[a].set_order \in 1 .. 5
      BY <1>0, <2>4 DEF IInv, TypeOK, IsSetOperand
    <3>3. operand[a].set_order # i
      BY <1>0, <2>1, <3>1
    <3> QED  BY <2>2, <2>4, <3>1, <3>2, <3>3 DEF Position
  <2>5. CASE a # current /\ ~IsSetOperand(a)
    BY <2>5 DEF AllPut
  <2> QED  BY <2>3, <2>4, <2>5
<1>5. ASSUME NEW r, Finish(r) PROVE AllPut'
  BY <1>5 DEF Finish, AllPut, IsSetOperand
<1>6. CASE RejectSetOperand \/ RejectOperand \/ CheckNullValues \/ CheckSets \/ Accept
  BY <1>5, <1>6 DEF RejectSetOperand, RejectOperand, CheckNullValues, CheckSets, Accept
<1>7. CASE UNCHANGED vars
  BY <1>7 DEF vars, AllPut, IsSetOperand
<1> QED  BY <1>1, <1>2, <1>3, <1>4, <1>5, <1>6, <1>7 DEF Next

\* Why an operator should be rejected does not change.
LEMMA RejectableStays ==
  ASSUME UNCHANGED <<kind, roles>>
  PROVE  Rejectable' <=> Rejectable
<1>1. \A r : With(r)' = With(r)
  BY DEF With
<1>2. \A i : Wanted(i)' = Wanted(i)
  BY <1>1 DEF Wanted
<1>3. \A i : Assigned(i)' <=> Assigned(i)
  BY <1>1 DEF Assigned
<1>4. Spoilt' <=> Spoilt
  BY <1>1, <1>2 DEF Spoilt, IsUnique
<1> QED  BY <1>2, <1>3, <1>4 DEF Rejectable

\* What is said of the roles alone does not change.
LEMMA RolesStay ==
  ASSUME UNCHANGED <<kind, roles>>, EndedRightly, result' = result,
         result = "parsed" => UNCHANGED <<unread, current>>
  PROVE  EndedRightly'
BY RejectableStays DEF EndedRightly

\* An operand with all its roles read is what they say.
LEMMA WhollyRead ==
  ASSUME ReadSoFar, NEW a \in DOMAIN roles \ unread, a = current => left = {}
  PROVE  /\ \A i \in 1 .. 10 : operand[a].order = i <=> a \in With(<<"order", i>>)
         /\ \A i \in Position : operand[a].set_order = i <=> a \in With(<<"set_order", i>>)
         /\ operand[a].param = "assign" <=> <<"assign", 0>> \in roles[a]
         /\ operand[a].type = TypesOf(roles[a])
<1>1. Seen(a) = roles[a]
  BY DEF Seen
<1> QED  BY <1>1 DEF ReadSoFar, Says, With

\* The operand at hand has no position, or not one of its own.
LEMMA RejectedRightly ==
  ASSUME IInv, Unambiguous, ReadSoFar, RejectOperand \/ RejectSetOperand
  PROVE  Spoilt
<1>1. /\ current \in DOMAIN roles \ unread /\ current \in Arc /\ left = {} /\ kind \in Kind
      /\ operands \in [Position -> (DOMAIN roles \ unread) \cup {None}]
      /\ sets \in [Position -> (DOMAIN roles \ unread) \cup {None}]
      /\ operand[current].order \in 0 .. 10 /\ operand[current].set_order \in 0 .. 5
  BY StructuresAssumption DEF RejectOperand, RejectSetOperand, Resolved, IInv, TypeOK
<1>2. Size(kind) \in 1 .. 5
  BY <1>1, Sizes DEF Position
<1>3. /\ \A i \in 1 .. 10 : operand[current].order = i <=> current \in With(<<"order", i>>)
      /\ \A i \in Position : operand[current].set_order = i <=> current \in With(<<"set_order", i>>)
  BY <1>1, WhollyRead
<1>4. (\A i \in 1 .. Size(kind) : current \notin With(<<"order", i>>) \cup Wanted(i)) => Spoilt
  BY <1>1 DEF Spoilt
<1>5. ASSUME RejectOperand PROVE Spoilt
  <2> DEFINE i == operand[current].order
  <2>1. CASE ~(0 < i /\ i <= Size(kind))
    <3>1. \A j \in 1 .. Size(kind) : current \notin With(<<"order", j>>)
      BY <1>1, <1>2, <1>3, <2>1
    <3>2. \A j \in 1 .. Size(kind) : current \notin Wanted(j)
      BY <1>1, <1>2, <1>3, <1>5 DEF RejectOperand, IsSetOperand, Wanted, Position
    <3> QED  BY <1>4, <3>1, <3>2
  <2>2. CASE 0 < i /\ i <= Size(kind) /\ operands[i] # None
    <3>1. i \in Position /\ i \in 1 .. 10
      BY <1>1, <1>2, <2>2 DEF Position
    <3>2. operands[i] \in DOMAIN roles \ unread /\ operands[i] # current /\ operand[operands[i]].order = i
      BY <1>1, <2>2, <3>1 DEF IInv, Placed
    <3>3. operands[i] \in With(<<"order", i>>) /\ current \in With(<<"order", i>>)
      BY <1>3, <3>1, <3>2, WhollyRead
    <3>4. ~IsUnique(With(<<"order", i>>))
      BY <3>2, <3>3 DEF IsUnique
    <3> QED  BY <3>1, <3>4 DEF Spoilt
  <2> QED  BY <1>5, <2>1, <2>2 DEF RejectOperand
<1>6. ASSUME RejectSetOperand PROVE Spoilt
  <2> DEFINE i == operand[current].set_order
  <2>1. kind \in SetKind /\ i \in Position /\ current \in With(<<"set_order", i>>)
    BY <1>1, <1>3, <1>6 DEF RejectSetOperand, IsSetOperand, Position
  <2>2. CASE ~(i <= Size(kind))
    <3>1. \A j : current \notin With(<<"order", j>>)
      BY <1>1, <2>1, OneOfAlternatives DEF With
    <3>2. \A j \in 1 .. Size(kind) : current \notin Wanted(j)
      BY <1>1, <1>2, <1>3, <2>2 DEF Wanted, Position
    <3> QED  BY <1>4, <3>1, <3>2
  <2>3. CASE sets[i] # None
    <3>1. sets[i] \in DOMAIN roles \ unread /\ sets[i] # current /\ operand[sets[i]].set_order = i
      BY <1>1, <2>1, <2>3 DEF IInv, Placed
    <3>2. sets[i] \in Wanted(i) /\ current \in Wanted(i)
      BY <2>1, <3>1, WhollyRead DEF Wanted
    <3> QED  BY <2>1, <3>1, <3>2 DEF Spoilt, IsUnique
  <2> QED  BY <1>6, <2>2, <2>3 DEF RejectSetOperand
<1> QED  BY <1>5, <1>6

\* When all operands are placed, the positions hold what the roles ask for.
LEMMA PlacedRightly ==
  ASSUME IInv, Unambiguous, ReadSoFar, AllPut, unread = {}, current = None
  PROVE  /\ \A i \in Position : With(<<"order", i>>) = {operands[i]} \ {None}
         /\ \A i \in Position : Wanted(i) = {sets[i]} \ {None}
         /\ \A a \in DOMAIN roles : \E i \in 1 .. Size(kind) : a \in With(<<"order", i>>) \cup Wanted(i)
         /\ \A i \in Position : operands[i] # None =>
              operand[operands[i]].param = "fixed" <=> ~Assigned(i)
<1>1. /\ \A a \in DOMAIN roles : a # None /\ a \in Arc
      /\ kind \in Kind
      /\ operands \in [Position -> DOMAIN roles \cup {None}]
      /\ sets \in [Position -> DOMAIN roles \cup {None}]
      /\ operand \in [Arc -> OperandRecord]
  BY NoneAssumption, StructuresAssumption DEF IInv, TypeOK, OperandRecord
<1>2. Size(kind) \in 1 .. 5
  BY <1>1, Sizes DEF Position
<1>3. ASSUME NEW a \in DOMAIN roles
      PROVE  /\ \A i \in 1 .. 10 : operand[a].order = i <=> a \in With(<<"order", i>>)
             /\ \A i \in Position : operand[a].set_order = i <=> a \in With(<<"set_order", i>>)
             /\ operand[a].param = "assign" <=> <<"assign", 0>> \in roles[a]
  BY <1>1, WhollyRead
<1>4. \A a \in DOMAIN roles : /\ operand[a].order \in 0 .. 10 /\ operand[a].set_order \in 0 .. 5
                              /\ operand[a].param \in {"fixed", "assign"}
  BY <1>1 DEF OperandRecord
<1>5. ASSUME NEW a \in DOMAIN roles
      PROVE  IF IsSetOperand(a)
             THEN operand[a].set_order <= Size(kind) /\ sets[operand[a].set_order] = a
             ELSE operand[a].order \in 1 .. Size(kind) /\ operands[operand[a].order] = a
  BY <1>1 DEF AllPut
<1>6. ASSUME NEW i \in Position PROVE With(<<"order", i>>) = {operands[i]} \ {None}
  <2>1. ASSUME NEW a \in With(<<"order", i>>) PROVE a = operands[i] /\ a # None
    <3>1. a \in DOMAIN roles /\ operand[a].order = i
      BY <1>3 DEF With, Position
    <3>2. ~IsSetOperand(a)
      <4>1. ASSUME IsSetOperand(a) PROVE a \in With(<<"set_order", operand[a].set_order>>)
        BY <1>3, <1>4, <3>1, <4>1 DEF IsSetOperand, Position
      <4> QED  BY <2>1, <4>1, OneOfAlternatives DEF With
    <3> QED  BY <1>1, <1>5, <3>1, <3>2
  <2>2. ASSUME operands[i] # None PROVE operands[i] \in With(<<"order", i>>)
    <3>1. operands[i] \in DOMAIN roles /\ operand[operands[i]].order = i /\ i \in 1 .. 10
      BY <1>1, <2>2 DEF IInv, Placed, Position
    <3> QED  BY <1>3, <3>1
  <2> QED  BY <2>1, <2>2
<1>7. ASSUME NEW i \in Position PROVE Wanted(i) = {sets[i]} \ {None}
  <2>1. ASSUME NEW a \in Wanted(i) PROVE a = sets[i] /\ a # None
    <3>1. a \in DOMAIN roles /\ operand[a].set_order = i /\ kind \in SetKind
      BY <1>3, <2>1 DEF With, Wanted
    <3>2. IsSetOperand(a)
      BY <3>1 DEF IsSetOperand, Position
    <3> QED  BY <1>1, <1>5, <3>1, <3>2
  <2>2. ASSUME sets[i] # None PROVE sets[i] \in Wanted(i)
    <3>1. sets[i] \in DOMAIN roles /\ operand[sets[i]].set_order = i /\ kind \in SetKind
      BY <1>1, <2>2 DEF IInv, Placed, IsSetOperand
    <3> QED  BY <1>3, <3>1 DEF Wanted
  <2> QED  BY <2>1, <2>2
<1>8. ASSUME NEW a \in DOMAIN roles
      PROVE  \E i \in 1 .. Size(kind) : a \in With(<<"order", i>>) \cup Wanted(i)
  <2>1. CASE IsSetOperand(a)
    <3> DEFINE i == operand[a].set_order
    <3>1. i \in 1 .. Size(kind) /\ i \in Position /\ kind \in SetKind
      BY <1>2, <1>4, <1>5, <2>1 DEF IsSetOperand, Position
    <3>2. a \in Wanted(i)
      BY <1>3, <3>1 DEF Wanted
    <3> QED  BY <3>1, <3>2
  <2>2. CASE ~IsSetOperand(a)
    <3> DEFINE i == operand[a].order
    <3>1. i \in 1 .. Size(kind) /\ i \in 1 .. 10
      BY <1>4, <1>5, <2>2
    <3>2. a \in With(<<"order", i>>)
      BY <1>3, <3>1
    <3> QED  BY <3>1, <3>2
  <2> QED  BY <2>1, <2>2
<1>9. ASSUME NEW i \in Position, operands[i] # None
      PROVE  operand[operands[i]].param = "fixed" <=> ~Assigned(i)
  <2>1. operands[i] \in DOMAIN roles /\ With(<<"order", i>>) = {operands[i]}
    BY <1>1, <1>6, <1>9
  <2> QED  BY <1>3, <1>4, <2>1 DEF Assigned
<1> QED  BY <1>6, <1>7, <1>8, <1>9

\* A rejection has its reason in the roles, at every step.
LEMMA EndedNext ==
  ASSUME IInv, Unambiguous, ReadSoFar, AllPut, EndedRightly, [Next]_vars
  PROVE  EndedRightly'
<1>0. \A i \in Required(kind) : i \in Position
  BY Sizes DEF IInv, TypeOK
<1>1. CASE TakeOperand \/ PlaceOperand \/ PlaceSetOperand
  BY <1>1, RolesStay DEF TakeOperand, PlaceOperand, PlaceSetOperand, Resolved
<1>2. CASE ResolveModifiers
  BY <1>2, ReadingReads, RolesStay DEF ResolveModifiers, Reading
<1>3. ASSUME NEW r, Finish(r), r = "parsed" => unread = {} /\ current = None,
             r # "parsed" => Rejectable
      PROVE  EndedRightly'
  BY <1>3, RejectableStays DEF Finish, EndedRightly
<1>4. CASE RejectSetOperand \/ RejectOperand
  BY <1>3, <1>4, RejectedRightly DEF RejectSetOperand, RejectOperand, Rejectable
<1>5. CASE CheckNullValues
  <2>1. PICK i \in Required(kind) : operands[i] = None
    BY <1>5 DEF CheckNullValues, Missing
  <2>2. With(<<"order", i>>) = {}
    BY <1>0, <1>5, <2>1, PlacedRightly DEF CheckNullValues, AllPlaced
  <2> QED  BY <1>3, <1>5, <2>2 DEF CheckNullValues, Spoilt, Rejectable
<1>6. CASE CheckSets
  <2>1. PICK i \in Position : Unfit(i)
    BY <1>6 DEF CheckSets
  <2>2. Wanted(i) # {} /\ ~Assigned(i)
    <3>1. /\ With(<<"order", i>>) = {operands[i]} \ {None} /\ Wanted(i) = {sets[i]} \ {None}
          /\ operands[i] # None => operand[operands[i]].param = "fixed" <=> ~Assigned(i)
      BY <1>6, PlacedRightly DEF CheckSets, AllPlaced
    <3> QED  BY <2>1, <3>1 DEF Unfit, Assigned
  <2> QED  BY <1>3, <1>6, <2>2 DEF CheckSets, Rejectable
<1>7. CASE Accept
  <2>1. CASE kind \in SetKind /\ \A i \in Position : sets[i] = None
    <3>1. \A i \in Position : Wanted(i) = {}
      BY <1>7, <2>1, PlacedRightly DEF Accept, AllPlaced
    <3> QED  BY <1>3, <1>7, <2>1, <3>1 DEF Accept, Spoilt, Rejectable
  <2>2. CASE ~(kind \in SetKind /\ \A i \in Position : sets[i] = None)
    BY <1>3, <1>7, <2>2 DEF Accept, AllPlaced
  <2> QED  BY <2>1, <2>2
<1>8. CASE UNCHANGED vars
  BY <1>8, RolesStay DEF vars
<1> QED  BY <1>1, <1>2, <1>4, <1>5, <1>6, <1>7, <1>8 DEF Next

LEMMA OrderNext == IInv /\ OrderInv /\ [Next]_vars => OrderInv'
<1> SUFFICES ASSUME IInv, OrderInv, [Next]_vars, Unambiguous' PROVE OrderInv'
  BY DEF OrderInv
<1>1. roles' = roles
  BY ReadingReads DEF Next, vars, TakeOperand, ResolveModifiers, Reading, PlaceSetOperand, PlaceOperand,
       RejectSetOperand, RejectOperand, CheckNullValues, CheckSets, Accept, Finish
<1>2. Unambiguous /\ ReadSoFar /\ AllPut /\ EndedRightly
  BY <1>1 DEF OrderInv, Unambiguous
<1> QED  BY <1>2, ReadNext, PutNext, EndedNext DEF OrderInv

\* A parsed operator is not spoilt: the positions taken are those required.
LEMMA ParsedRightly ==
  ASSUME IInv, OrderInv, Unambiguous, result = "parsed"
  PROVE  ~Spoilt /\ \A i \in Position : Wanted(i) # {} => Assigned(i)
<1>1. ReadSoFar /\ AllPut /\ unread = {} /\ current = None
  BY DEF OrderInv, EndedRightly
<1>2. \A i \in Required(kind) : i \in Position
  BY Sizes DEF IInv, TypeOK
<1>3. /\ \A i \in Position : With(<<"order", i>>) = {operands[i]} \ {None}
      /\ \A i \in Position : Wanted(i) = {sets[i]} \ {None}
      /\ \A a \in DOMAIN roles : \E i \in 1 .. Size(kind) : a \in With(<<"order", i>>) \cup Wanted(i)
      /\ \A i \in Position : operands[i] # None =>
           operand[operands[i]].param = "fixed" <=> ~Assigned(i)
  BY <1>1, PlacedRightly
<1>4. /\ \A i \in Required(kind) : operands[i] # None
      /\ \A i \in Position : sets[i] # None => operands[i] # None /\ operand[operands[i]].param = "assign"
      /\ kind \in SetKind => \E i \in Position : sets[i] # None
  BY DEF IInv, ParsedComplete
<1>5. ~Spoilt
  <2>1. \A i \in Position : IsUnique(With(<<"order", i>>)) /\ IsUnique(Wanted(i))
    BY <1>3 DEF IsUnique
  <2>2. \A i \in Required(kind) : With(<<"order", i>>) # {}
    BY <1>2, <1>3, <1>4
  <2>3. kind \in SetKind => \E i \in Position : Wanted(i) # {}
    BY <1>3, <1>4
  <2> QED  BY <1>3, <2>1, <2>2, <2>3 DEF Spoilt
<1>6. ASSUME NEW i \in Position, Wanted(i) # {} PROVE Assigned(i)
  BY <1>3, <1>4, <1>6
<1> QED  BY <1>5, <1>6

\* What parsing comes to does not depend on the order in which sc-memory yields
\* operands and roles, for every operator whose operands have no roles that
\* exclude each other: it is said of the roles alone.
THEOREM ParsingOrderFree == Spec => []OrderFree
<1>1. IInv /\ OrderInv => OrderFree
  <2> SUFFICES ASSUME IInv, OrderInv, Unambiguous, result # "parsing" PROVE OrderFree
    BY DEF OrderFree
  <2>1. result \in {"parsed", "error", "crash"}
    BY DEF IInv, TypeOK
  <2>2. result = "parsed" <=> ~Spoilt /\ (\A i \in Position : Wanted(i) # {} => Assigned(i))
    BY <2>1, ParsedRightly DEF OrderInv, EndedRightly, Rejectable
  <2>3. ASSUME result = "parsed", NEW i \in 1 .. Size(kind)
        PROVE  With(<<"order", i>>) = {operands[i]} \ {None} /\ Wanted(i) = {sets[i]} \ {None}
    <3>1. i \in Position
      BY <2>3, Sizes DEF IInv, TypeOK, Position
    <3> QED  BY <2>3, <3>1, PlacedRightly DEF OrderInv, EndedRightly
  <2>4. ASSUME result = "parsed", NEW a \in DOMAIN roles PROVE operand[a].type = TypesOf(roles[a])
    <3>1. a # None /\ unread = {} /\ current = None /\ ReadSoFar
      BY <2>4, NoneAssumption, StructuresAssumption DEF IInv, TypeOK, OrderInv, EndedRightly
    <3> QED  BY <3>1, WhollyRead
  <2> QED  BY <2>2, <2>3, <2>4 DEF OrderFree, TypesOf
<1> QED  BY InitInv, NextInv, OrderInit, OrderNext, <1>1, PTL DEF Spec
=============================================================================
