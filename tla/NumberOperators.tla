--------------------------- MODULE NumberOperators ---------------------------
(***************************************************************************)
(* The operators on numbers written in links.  A content is a sequence of  *)
(* pieces: a tag, a numeral, ".", or any other text; a numeral is one      *)
(* piece, and what stands after the point of a real is left out.  Numbers  *)
(* are read by looking for tags and by converting what is left; the answer *)
(* is a numeral without a tag.                                             *)
(*                                                                         *)
(* A world has two more fields:                                            *)
(*    content  the contents of links,                                      *)
(*    steps    operators that may still be executed, a bound.              *)
(* An operator may also be "left", never finished though its Execute has   *)
(* returned; be finished "again"; or have "killed" the machine.            *)
(*                                                                         *)
(* A set of numbers says what a conversion may return; none: it throws.    *)
(***************************************************************************)
EXTENDS ElementOperators, Integers

CONSTANTS
  Number,    \* what an `int' can hold
  Written,   \* numbers whose numerals occur, some of them too large
  Reals      \* contents that may stand for what the C library computes

\* Numerals are texts, and so is what stands for real numbers.
ASSUME NumberAssumption ==
  /\ {-1, 0, 1} \subseteq Number /\ Number \subseteq Written /\ Written \subseteq Int
  /\ \A n \in Written : ToString(n) \in STRING
  /\ Reals \subseteq Seq(STRING)

\* Different numbers have different numerals, which are no tags; something stands
\* for each real number.
ASSUME NumeralsAssumption ==
  /\ \A m, n \in Written : ToString(m) = ToString(n) => m = n
  /\ \A n \in Written : ToString(n) \notin {"int: ", "uint: ", "float: ", "double: ", ".", "u"}
  /\ <<>> \notin Reals

ConstLink  == {"node", "link"}
LinkResult == Outcome \cup {"left", "again", "killed"}

Content(x, e) == IF e \in DOMAIN x.content THEN x.content[e] ELSE <<>>

\* sc-memory answers with an exception when asked for the content of another
\* element than a link.
Unreadable(x, positions) == \E i \in positions : ~IsLink(x.type[Value(x, i)])

\* Mutant: the content is set of a node.
GenerateLink_Node(x, c) ==
  [GenerateNode(x, ConstNode) EXCEPT !.content = With(@, {x.fresh}, LAMBDA e : c)]

GenerateLink(x, c) ==
  [GenerateNode(x, ConstLink) EXCEPT !.content = With(@, {x.fresh}, LAMBDA e : c)]

-----------------------------------------------------------------------------
\* Conversions

Numeral == [n \in Written |-> ToString(n)]
Leading(c) == {n \in Written : c # <<>> /\ Numeral[n] = Head(c)}
IsNumeral(p) == \E n \in Written : Numeral[n] = p

\* `uint:' holds `int:'.
IntTags == {"int: ", "uint: "}

ScLinkContentIsInt(c)    == Range(c) \cap IntTags # {}
ScLinkContentIsUint(c)   == "uint: " \in Range(c)
ScLinkContentIsFloat(c)  == "float: " \in Range(c)
ScLinkContentIsDouble(c) == "double: " \in Range(c)

\* std::stoi: of what a text begins with; none when it is no number or too
\* large.
StoI(c) == Leading(c) \cap Number

\* The first `int: ', also that of a `uint: '.
CutInt(c) ==
  LET at == {i \in DOMAIN c : c[i] \in IntTags}
      i  == Min(at)
  IN  IF at = {} THEN c
      ELSE IF c[i] = "int: " THEN RemoveAt(c, i) ELSE ReplaceAt(c, i, "u")

ScLinkGetContentInt(c)    == StoI(CutInt(c))
ScLinkGetContentUint(c)   == StoI(RemoveFirst(c, "uint: "))
ScLinkGetContentFloat(c)  == Leading(RemoveFirst(c, "float: "))
ScLinkGetContentDouble(c) == Leading(RemoveFirst(c, "double: "))

\* Plain numbers, by their regular expressions.
PlainInt(c)    == Len(c) = 1 /\ IsNumeral(c[1])
PlainDouble(c) == Len(c) = 2 /\ IsNumeral(c[1]) /\ c[2] = "."
Plain(c)       == PlainInt(c) \/ PlainDouble(c)

\* Of a number too large: undefined.
Fit(n)  == IF n \in Number THEN {n} ELSE Number
AtoI(c) == UNION {Fit(n) : n \in Leading(c)}

-----------------------------------------------------------------------------
\* Arithmetic on `int'

Magnitude(n)   == IF n < 0 THEN -n ELSE n
Quotient(a, b) ==
  LET q == Magnitude(a) \div Magnitude(b) IN IF (a < 0) = (b < 0) THEN q ELSE -q

\* pow, and the conversion of what it returns.
Power(a, b) ==
  CASE b = 0           -> {1}
    [] b > 0           -> Fit(a ^ b)
    [] b < 0 /\ a = 0  -> Number
    [] b < 0 /\ a = 1  -> {1}
    [] b < 0 /\ a = -1 -> {IF b % 2 = 0 THEN 1 ELSE -1}
    [] OTHER           -> {0}

\* What a computation comes to.
Text(c) == [out |-> "run", text |-> c]
Thrown  == [out |-> "thrown", text |-> <<>>]
Killed  == [out |-> "killed", text |-> <<>>]
Whole(numbers) == {Text(<<ToString(n)>>) : n \in numbers}
RealTexts      == {Text(c) : c \in Reals}

\* Division by zero, and of the least number by -1, kills the machine.
Compute(op, a, b) ==
  CASE op = "add"  -> Whole(Fit(a + b))
    [] op = "sub"  -> Whole(Fit(a - b))
    [] op = "mult" -> Whole(Fit(a * b))
    [] op = "pow"  -> Whole(Power(a, b))
    [] op \in {"div", "rem"} ->
         IF b = 0 \/ Quotient(a, b) \notin Number THEN {Killed}
         ELSE Whole(Fit(IF op = "div" THEN Quotient(a, b) ELSE a - b * Quotient(a, b)))

Computed(op, numbers1, numbers2) ==
  IF numbers1 = {} \/ numbers2 = {}
  THEN {Thrown}
  ELSE UNION {Compute(op, a, b) : a \in numbers1, b \in numbers2}

OnReals(numbers1, numbers2) == IF numbers1 = {} \/ numbers2 = {} THEN {Thrown} ELSE RealTexts

\* Branches come one after the other, each with an answer in place of the one
\* before, unless there is no one to answer any more.
Override(answers, branch) ==
  LET going == {a \in answers : a.out = "run"}
  IN  IF branch = {} \/ going = {} THEN answers ELSE (answers \ going) \cup branch

NoAnswer == {Text(<<>>)}
Answered(int, uint, float, double) ==
  Override(Override(Override(Override(NoAnswer, int), uint), float), double)

Tagged(op, c, d) ==
  Answered(
    IF ScLinkContentIsInt(c) /\ ScLinkContentIsInt(d)
    THEN Computed(op, ScLinkGetContentInt(c), ScLinkGetContentInt(d)) ELSE {},
    IF ScLinkContentIsUint(c) /\ ScLinkContentIsUint(d)
    THEN Computed(IF op = "pow" THEN "mult" ELSE op, ScLinkGetContentUint(c), ScLinkGetContentUint(d)) ELSE {},
    IF ScLinkContentIsFloat(c) /\ ScLinkContentIsFloat(d)
    THEN OnReals(ScLinkGetContentFloat(c), ScLinkGetContentFloat(d)) ELSE {},
    IF ScLinkContentIsDouble(c) /\ ScLinkContentIsDouble(d)
    THEN OnReals(ScLinkGetContentDouble(c), ScLinkGetContentDouble(d)) ELSE {})

\* An integer and a real: no answer, and yet not a failure.
Untagged(op, c, d) ==
  CASE PlainInt(c) /\ PlainInt(d)       -> Computed(op, AtoI(c), AtoI(d))
    [] PlainDouble(c) /\ PlainDouble(d) -> RealTexts
    [] OTHER                            -> NoAnswer

-----------------------------------------------------------------------------
\* contAdd, contSub, contMult, contDiv, contPow

ResetValue(x, i) ==
  [x EXCEPT !.operand[i].value = Nothing, !.value[x.operand[i].addr] = {}]

\* The first operand gets a new link, also when it is FIXED.
Give(x, c) == SetValue(ResetValue(GenerateLink(x, c), 1), 1, x.fresh)

Conclude(x, answers) ==
  {IF a.out = "run" THEN Finish(Give(x, a.text), "success") ELSE Finish(x, a.out) : a \in answers}

RejectsReading(r, positions) == positions \cap Assigned(r) # {} \/ Valueless(r, positions)

\* Of operands that are there and FIXED, with a body for readable ones.
Reading(x, positions, Body(_)) ==
  Checked(x, LAMBDA r : RejectsReading(r, positions),
             LAMBDA r : IF Unreadable(r, positions) THEN {Finish(r, "thrown")} ELSE Body(r))

Arithmetic(x, op) ==
  Reading(x, {2, 3}, LAMBDA r :
    LET c == Content(r, Value(r, 2))
        d == Content(r, Value(r, 3))
        tagged == Tagged(op, c, d)
    IN  IF tagged # NoAnswer THEN Conclude(r, tagged)
        ELSE IF Plain(c) /\ Plain(d) THEN Conclude(r, Untagged(op, c, d))
        ELSE Unsuccess(r))

ContAdd(x)  == Arithmetic(x, "add")
\* Mutant: the operands are swapped.
ContSub_Swapped(x) == Arithmetic([x EXCEPT !.operand[2] = x.operand[3], !.operand[3] = x.operand[2]], "sub")
ContSub(x)  == Arithmetic(x, "sub")
ContMult(x) == Arithmetic(x, "mult")
ContDiv(x)  == Arithmetic(x, "div")
ContPow(x)  == Arithmetic(x, "pow")

-----------------------------------------------------------------------------
\* contDivInt, contDivRem

Convert(numbers) == UNION {Fit(n) : n \in numbers}

\* What is in the variable an operand is read into: the last branch that
\* applies; what happened to be there when none does, as for plain numbers.
NumberRead(c) ==
  LET holds   == <<ScLinkContentIsInt(c), ScLinkContentIsUint(c),
                   ScLinkContentIsFloat(c), ScLinkContentIsDouble(c)>>
      numbers == <<ScLinkGetContentInt(c), ScLinkGetContentUint(c),
                   Convert(ScLinkGetContentFloat(c)), Convert(ScLinkGetContentDouble(c))>>
      taken   == {i \in 1 .. 4 : holds[i]}
  IN  IF \E i \in taken : numbers[i] = {} THEN {}
      ELSE IF taken = {} THEN Number ELSE numbers[Max(taken)]

WholeDivision(x, op) ==
  Reading(x, {2, 3}, LAMBDA r :
    Conclude(r, Computed(op, NumberRead(Content(r, Value(r, 2))), NumberRead(Content(r, Value(r, 3))))))

DivInt(x) == WholeDivision(x, "div")
DivRem(x) == WholeDivision(x, "rem")

-----------------------------------------------------------------------------
\* contSin, contCos, contTg, contASin, contACos, contATg, contLn: what the
\* functions compute is left open, but for the range of sine and cosine.

OfFunction(f, numbers) ==
  IF numbers = {} THEN {Thrown}
  ELSE IF f = "ln" THEN RealTexts
  ELSE Whole(IF f \in {"sin", "cos"} THEN {-1, 0, 1} ELSE Number)

\* The one in ACos for `uint' names a variable of its own.
UintAnswer(f, numbers) ==
  IF f = "acos" /\ numbers # {} THEN {} ELSE OfFunction(f, numbers)

OnReal(numbers) == IF numbers = {} THEN {Thrown} ELSE RealTexts

Function(x, f) ==
  Reading(x, {2}, LAMBDA r :
    LET c == Content(r, Value(r, 2))
        tagged == Answered(
          IF ScLinkContentIsInt(c) THEN OfFunction(f, ScLinkGetContentInt(c)) ELSE {},
          IF ScLinkContentIsUint(c) THEN UintAnswer(f, ScLinkGetContentUint(c)) ELSE {},
          IF ScLinkContentIsFloat(c) THEN OnReal(ScLinkGetContentFloat(c)) ELSE {},
          IF ScLinkContentIsDouble(c) THEN OnReal(ScLinkGetContentDouble(c)) ELSE {})
    IN  CASE tagged # NoAnswer -> Conclude(r, tagged)
          [] tagged = NoAnswer /\ PlainInt(c)    -> Conclude(r, OfFunction(f, AtoI(c)))
          [] tagged = NoAnswer /\ PlainDouble(c) -> Conclude(r, RealTexts)
          [] OTHER -> Unsuccess(r))

Sin(x)    == Function(x, "sin")
Cos(x)    == Function(x, "cos")
Tg(x)     == Function(x, "tg")
ASin(x)   == Function(x, "asin")
ACos(x)   == Function(x, "acos")
ATg(x)    == Function(x, "atg")
ContLn(x) == Function(x, "ln")

-----------------------------------------------------------------------------
\* ifEq, ifGr

\* Of a pair of numbers none of which was thrown at.
Judge(x, numbers1, numbers2, Holds(_, _)) ==
  IF numbers1 = {} \/ numbers2 = {}
  THEN {Finish(x, "thrown")}
  ELSE UNION {Answer(x, Holds(a, b)) : a \in numbers1, b \in numbers2}

\* The first branch that applies decides; an integer and a real are compared
\* by none, and the operator is not finished.
Compare(x, Holds(_, _)) ==
  Reading(x, {1, 2}, LAMBDA r :
    LET c == Content(r, Value(r, 1))
        d == Content(r, Value(r, 2))
    IN  IF ScLinkContentIsInt(c) /\ ScLinkContentIsInt(d)
        THEN Judge(r, ScLinkGetContentInt(c), ScLinkGetContentInt(d), Holds)
        ELSE IF ScLinkContentIsUint(c) /\ ScLinkContentIsUint(d)
        THEN Judge(r, ScLinkGetContentUint(c), ScLinkGetContentUint(d), Holds)
        ELSE IF ScLinkContentIsFloat(c) /\ ScLinkContentIsFloat(d)
        THEN Judge(r, ScLinkGetContentFloat(c), ScLinkGetContentFloat(d), Holds)
        ELSE IF ScLinkContentIsDouble(c) /\ ScLinkContentIsDouble(d)
        THEN Judge(r, ScLinkGetContentDouble(c), ScLinkGetContentDouble(d), Holds)
        ELSE CASE PlainInt(c) /\ PlainInt(d) -> Judge(r, AtoI(c), AtoI(d), Holds)
               [] PlainDouble(c) /\ PlainDouble(d) -> Judge(r, Leading(c), Leading(d), Holds)
               [] Plain(c) /\ Plain(d) /\ PlainInt(c) # PlainInt(d) -> {Finish(r, "left")}
               [] OTHER -> Unsuccess(r))

IfEq(x) == Compare(x, LAMBDA a, b : a = b)
IfGr(x) == Compare(x, LAMBDA a, b : a > b)

Binary   == {"contAdd", "contSub", "contMult", "contDiv", "contPow"}
Whole2   == {"contDivInt", "contDivRem"}
Function1 == {"contSin", "contCos", "contTg", "contASin", "contACos", "contATg", "contLn"}

\* The table of the interpreter.
MathOperator ==
  \/ Run("contSin", Sin(world)) \/ Run("contCos", Cos(world)) \/ Run("contTg", Tg(world))
  \/ Run("contASin", ASin(world)) \/ Run("contACos", ACos(world)) \/ Run("contATg", ATg(world))
  \/ Run("contLn", ContLn(world))
  \/ Run("contDivInt", DivInt(world)) \/ Run("contDivRem", DivRem(world))
  \/ Run("ifEq", IfEq(world)) \/ Run("ifGr", IfGr(world))
  \/ Run("contAdd", ContAdd(world)) \/ Run("contSub", ContSub(world))
  \/ Run("contMult", ContMult(world)) \/ Run("contDiv", ContDiv(world))
  \/ Run("contPow", ContPow(world))
=============================================================================
