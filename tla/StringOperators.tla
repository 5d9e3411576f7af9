--------------------------- MODULE StringOperators ---------------------------
(***************************************************************************)
(* The operators on texts in links, which are sequences of pieces (module  *)
(* NumberOperators) that count as one character each.  An answer is a new  *)
(* link, or a set of links, that a new element leads to; that element is   *)
(* the value of the first operand, so that an operator that reads the      *)
(* variable does not read the answer.                                      *)
(***************************************************************************)
EXTENDS NumberOperators

CONSTANTS
  Rank,      \* of each piece, in the order of strcmp
  Lower,     \* in lower case, the pieces that have another one,
  Upper,     \* and in upper case
  Size,      \* one more than the greatest size_t
  Relation   \* the element nrel_scp_var_value

\* Operators by the number of their operands; the answer of all but the last,
\* which ask, is an element that the first operand is to be given.
OfText    == {"stringLen", "stringToUpperCase", "stringToLowerCase"}
OfTexts   == {"contStringConcat", "stringSub", "stringSplit"}
OfFive    == {"stringSlice", "stringReplace"}
Strings   == OfText \cup OfTexts \cup OfFive
Asking    == {"stringIfEq", "stringIfGr", "stringStartsWith", "stringEndsWith"}

\* Links, and only they, have texts for contents.
HasContents(m) ==
  /\ m.content \in [DOMAIN m.content -> Seq(STRING)]
  /\ \A e \in DOMAIN m.content : e \in Exists(m) /\ IsLink(m.type[e])

\* What an operator finds besides; elements are numbered without gaps.
ASSUME LinksAssumption ==
  \A w \in Worlds :
    /\ {"content", "steps"} \subseteq DOMAIN w
    /\ HasContents(w) /\ w.steps \in Nat
    /\ Exists(w) = 1 .. w.fresh - 1 /\ Relation \in Exists(w)

ASSUME TextsAssumption ==
  /\ Size \in Nat \ {0} /\ \A n \in 0 .. Size - 1 : ToString(n) \in STRING
  /\ \A n \in Number : n + Size >= 0
  /\ \A case \in {Lower, Upper} : \A p \in DOMAIN case : case[p] \in STRING

ASSUME RankAssumption ==
  \A p, q \in DOMAIN Rank : Rank[p] \in Int /\ (Rank[p] = Rank[q] => p = q)

ASSUME LinkJobsAssumption ==
  \A j \in Jobs :
    /\ j.kind \in Function1 \cup OfText \cup Asking \cup {"ifEq", "ifGr"} => DOMAIN j.operand = 1 .. 2
    /\ j.kind \in Binary \cup Whole2 \cup OfTexts => DOMAIN j.operand = 1 .. 3
    /\ j.kind \in OfFive => DOMAIN j.operand = 1 .. 5

ConstCommonArc == {"arc"}

\* Mutant: the answer becomes the value, as it does for numbers.
PrintOperatorAnswer_Value(x, answer) ==
  LET given == CreateNodeOrLink(x, 1)
      assigned == SetValue(given, 1, answer)
  IN  Results(given, Success(assigned))

\* The new element is made a value twice, of the variable and of the operand.
PrintOperatorAnswer(x, answer) ==
  LET given == CreateNodeOrLink(x, 1)
      e     == Value(given, 1)
      arc   == GenerateConnector(given, ConstCommonArc, e, answer)
      named == GenerateConnector(arc, ConstPermPosArc, Relation, given.fresh)
  IN  Results(given, Success(SetValue(named, 1, e)))

AnswerWith(x, c) == PrintOperatorAnswer(GenerateLink(x, c), x.fresh)

\* Operators on the texts of two operands, and of one.
OnTexts(x, i, j, Body(_, _, _)) ==
  Reading(x, {i, j}, LAMBDA r : Body(r, Content(r, Value(r, i)), Content(r, Value(r, j))))

OnText(x, Body(_, _)) ==
  Reading(x, {2}, LAMBDA r : Body(r, Content(r, Value(r, 2))))

\* Where d stands in c: the number of pieces before it.
Occurrences(c, d) == {n \in 0 .. Len(c) : IsPrefix(d, SubSeq(c, n + 1, Len(c)))}

ContStringConcat(x) == OnTexts(x, 2, 3, LAMBDA r, c, d : AnswerWith(r, c \o d))

Decimal(n) == <<ToString(n % Size)>>

StringLen(x) == OnText(x, LAMBDA r, c : AnswerWith(r, Decimal(Len(c))))

StringSub(x) ==
  OnTexts(x, 2, 3, LAMBDA r, c, d :
    IF Occurrences(c, d) = {} THEN Unsuccess(r)
    ELSE AnswerWith(r, Decimal(Min(Occurrences(c, d)))))

\* A text that is not found finishes the operator twice.  The fifth operand
\* is not looked at.
StringReplace(x) ==
  Reading(x, {2, 3, 4}, LAMBDA r :
    LET c == Content(r, Value(r, 2))
        d == Content(r, Value(r, 3))
        n == Min(Occurrences(c, d))
    IN  IF Occurrences(c, d) = {}
        THEN {Finish(r, "again")}
        ELSE AnswerWith(r, SubSeq(c, 1, n) \o Content(r, Value(r, 4))
                             \o SubSeq(c, n + Len(d) + 1, Len(c))))

\* A negative index becomes a very large one.
AsSize(n) == IF n < 0 THEN n + Size ELSE n
IndexIn(c) == {AsSize(n) : n \in StoI(CutInt(c))}

\* Mutant: the conversion's exception is not caught.
StringSlice_Uncaught(x) ==
  Reading(x, {2, 3, 4}, LAMBDA r :
    LET c == Content(r, Value(r, 2))
        first == IndexIn(Content(r, Value(r, 3)))
        last  == IndexIn(Content(r, Value(r, 4)))
    IN  IF first = {} \/ last = {} THEN {Finish(r, "thrown")}
        ELSE UNION {IF i > Len(c) \/ j < i \/ j > Len(c) THEN Unsuccess(r)
                    ELSE AnswerWith(r, SubSeq(c, i + 1, j)) : i \in first, j \in last})

StringSlice(x) ==
  Reading(x, {2, 3, 4}, LAMBDA r :
    LET c == Content(r, Value(r, 2))
        first == IndexIn(Content(r, Value(r, 3)))
        last  == IndexIn(Content(r, Value(r, 4)))
    IN  IF first = {} \/ last = {} THEN Unsuccess(r)
        ELSE UNION {IF i > Len(c) \/ j < i \/ j > Len(c) THEN Unsuccess(r)
                    ELSE AnswerWith(r, SubSeq(c, i + 1, j)) : i \in first, j \in last})

\* Mutant: what stands after the last separator is left out.
Parts_NoLast(c, separators) ==
  LET at     == {i \in DOMAIN c : c[i] \in separators}
      starts == SetToSeq({0} \cup at)
      end(b) == Min({i \in at \cup {Len(c) + 1} : i > b})
  IN  [k \in DOMAIN starts |-> IF end(starts[k]) \notin at THEN <<>>
                               ELSE SubSeq(c, starts[k] + 1, end(starts[k]) - 1)]

\* What stands between the pieces that are separators, also when it is empty.
\* They go into a set: their order is any.
Parts(c, separators) ==
  LET at     == {i \in DOMAIN c : c[i] \in separators}
      starts == SetToSeq({0} \cup at)
      end(b) == Min({i \in at \cup {Len(c) + 1} : i > b})
  IN  [k \in DOMAIN starts |-> SubSeq(c, starts[k] + 1, end(starts[k]) - 1)]

\* A link for each part, and an arc to it from the set.
AddLinks(x, set, parts) ==
  LET n     == Len(parts)
      links == x.fresh .. x.fresh + n - 1
      arcs  == x.fresh + n .. x.fresh + 2 * n - 1
  IN  [x EXCEPT
        !.type = With(With(@, links, LAMBDA e : ConstLink), arcs, LAMBDA a : ConstPermPosArc),
        !.ends = With(@, arcs, LAMBDA a : <<set, a - n>>),
        !.content = With(@, links, LAMBDA e : parts[e - x.fresh + 1]),
        !.fresh = @ + 2 * n]

StringSplit(x) ==
  OnTexts(x, 2, 3, LAMBDA r, c, d :
    PrintOperatorAnswer(AddLinks(GenerateNode(r, ConstNode), r.fresh, Parts(c, Range(d))), r.fresh))

\* An empty text has no case to change.
ToCase(x, case) ==
  OnText(x, LAMBDA r, c :
    IF c = <<>> THEN Unsuccess(r)
    ELSE AnswerWith(r, [i \in DOMAIN c |-> IF c[i] \in DOMAIN case THEN case[c[i]] ELSE c[i]]))

StringToLowerCase(x) == ToCase(x, Lower)
StringToUpperCase(x) == ToCase(x, Upper)

StringStartsWith(x) == OnTexts(x, 1, 2, LAMBDA r, c, d : Answer(r, IsPrefix(d, c)))
StringEndsWith(x)   == OnTexts(x, 1, 2, LAMBDA r, c, d : Answer(r, IsSuffix(d, c)))
StringIfEq(x)       == OnTexts(x, 1, 2, LAMBDA r, c, d : Answer(r, c = d))

\* strcmp: the first difference decides, the end coming before everything.
Greater(c, d) ==
  \E i \in DOMAIN c :
    /\ IsPrefix(SubSeq(c, 1, i - 1), d)
    /\ i > Len(d) \/ Rank[c[i]] > Rank[d[i]]

StringIfGr(x) == OnTexts(x, 1, 2, LAMBDA r, c, d : Answer(r, Greater(c, d)))

\* The table of the interpreter.
StringOperator ==
  \/ Run("stringSplit", StringSplit(world)) \/ Run("stringSlice", StringSlice(world))
  \/ Run("stringReplace", StringReplace(world))
  \/ Run("contStringConcat", ContStringConcat(world))
  \/ Run("stringIfEq", StringIfEq(world)) \/ Run("stringIfGr", StringIfGr(world))
  \/ Run("stringLen", StringLen(world)) \/ Run("stringSub", StringSub(world))
  \/ Run("stringStartsWith", StringStartsWith(world))
  \/ Run("stringEndsWith", StringEndsWith(world))
  \/ Run("stringToUpperCase", StringToUpperCase(world))
  \/ Run("stringToLowerCase", StringToLowerCase(world))

\* The next operator of the process, after one that has ended.
ParseLink ==
  /\ world.out \in {"none", "success", "unsuccess", "error"}
  /\ world.steps > 0
  /\ \E job \in Jobs, values \in ValuesRead(world) :
       /\ kind' = job.kind
       /\ world' = [Parsed(world, job, values) EXCEPT !.steps = @ - 1]
       /\ before' = world'

LinkNext == ParseLink \/ MathOperator \/ StringOperator

LinkSpec == Init /\ [][LinkNext]_vars

-----------------------------------------------------------------------------
\* Properties

\* What an operator had to read, when it was not rejected.
Given(k, x) ==
  {i \in DOMAIN x.operand :
     i \in IF k \in {"ifEq", "ifGr"} \cup Asking THEN 1 .. 2 ELSE IF k \in OfFive THEN 2 .. 4 ELSE 2 .. 3}
Accepted(k, x) ==
  /\ \A i \in Assigned(x) : ~x.operand[i].const
  /\ \A i \in Given(k, x) : Fixed(x, i) /\ Value(x, i) # Nothing
GivenLinks(k, x) == \A i \in Given(k, x) : IsLink(x.type[Value(x, i)])
GivenText(x, i) == Content(x, Value(x, i))

\* The world, as Init and the operators leave it: links, and only they, have
\* contents, and arcs have ends that exist.
LinkTypeOK ==
  /\ world.out \in LinkResult \cup {"none", "run"}
  /\ world.steps \in Nat
  /\ Exists(world) = 1 .. world.fresh - 1
  /\ HasContents(world)
  /\ \A a \in Connectors(world) : {Source(world, a), Target(world, a)} \subseteq Exists(world)
  /\ \A v \in Variable : world.value[v] \subseteq Exists(world)

\* The forms a content may have, said without looking for tags.
WholeAfter(tag, c) == Len(c) = 2 /\ c[1] = tag /\ IsNumeral(c[2])
RealAfter(tag, c)  == Len(c) = 3 /\ c[1] = tag /\ PlainDouble(Tail(c))

Form(c) ==
  IF PlainInt(c) THEN "integer" ELSE IF PlainDouble(c) THEN "real"
  ELSE IF WholeAfter("int: ", c) THEN "int" ELSE IF WholeAfter("uint: ", c) THEN "uint"
  ELSE IF RealAfter("float: ", c) THEN "float" ELSE IF RealAfter("double: ", c) THEN "double"
  ELSE "text"

Mixed(c, d) == {Form(c), Form(d)} = {"integer", "real"}

\* The number of its first numeral.
NumberIn(c) ==
  CHOOSE n \in Written :
    \E i \in DOMAIN c : c[i] = Numeral[n] /\ \A j \in 1 .. i - 1 : ~IsNumeral(c[j])

\* n is what the operator should answer for the integers a and b.
Exact(k, n, a, b) ==
  /\ k = "contAdd" => n = a + b
  /\ k = "contSub" => n + b = a
  /\ k = "contMult" => n = a * b
  /\ k \in {"contDiv", "contDivInt"} =>
       \E r \in Number : a = b * n + r /\ Magnitude(r) < Magnitude(b) /\ r * a >= 0
  /\ k = "contDivRem" =>
       \E q \in Number : a = b * q + n /\ Magnitude(n) < Magnitude(b) /\ n * a >= 0
  /\ k = "contPow" => b >= 0 /\ n = IF b = 0 THEN 1 ELSE a ^ b

AnswerOf(x) == Content(x, Value(x, 1))

\* What makes a conversion throw: no number after the tag, or a tag `uint',
\* which is taken for `int'.
Misread(c) == Form(c) = "uint" \/ (Form(c) = "text" /\ Range(c) \cap {"int: ", "uint: ", "float: ", "double: "} # {})
TooLarge(c) == Form(c) = "int" /\ NumberIn(c) \notin Number

\* Arithmetic on two integers of one form answers with the integer it is
\* about, where an `int' can hold it (contDivInt and contDivRem on tagged ones
\* only); on contents of different forms it fails, but for an integer and a
\* real, whose answer is empty.  Comparisons of one form tell the truth.
Calculating(k, x, y) ==
  LET first == IF k \in {"ifEq", "ifGr"} THEN 1 ELSE 2
      c == GivenText(x, first)
      d == GivenText(x, first + 1)
      a == NumberIn(c)
      b == NumberIn(d)
      same  == Form(c) = Form(d)
      mixed == Mixed(c, d)
      fits  == {a, b} \subseteq Number
  IN  /\ same /\ Form(c) \in {"int", "integer"} /\ fits /\ first = 2
           /\ (k \in Whole2 => Form(c) = "int") =>
           \A n \in Number : Exact(k, n, a, b) =>
             y.out = "success" /\ AnswerOf(y) = <<ToString(n)>>
      /\ k \in Binary /\ ~Misread(c) /\ ~Misread(d) =>
           /\ y.out = "success" /\ AnswerOf(y) = <<>> <=> mixed
           /\ ~same /\ ~mixed => y.out = "unsuccess"
      /\ first = 1 /\ same /\ Form(c) \notin {"uint", "text"} /\ fits =>
           y.out = IF IF k = "ifEq" THEN a = b ELSE a > b THEN "success" ELSE "unsuccess"

ArithmeticOutcome ==
  Accepted(kind, before) /\ GivenLinks(kind, before) /\ world.out # "run"
    /\ kind \in Binary \cup Whole2 \cup {"ifEq", "ifGr"} => Calculating(kind, before, world)

\* An accepted operator is finished, once, except: stringReplace is finished
\* twice when it finds nothing; ifEq and ifGr are not when they are given an
\* integer and a real; a division by zero, or too large, or of contents that
\* are not read at all, may end everything; an operator on numbers throws only
\* at a tag `uint', at what it can not convert or at an element that is no
\* link, and one on texts at the last, or when it may not make its answer.
Ending(k, x, y) ==
  LET texts == {GivenText(x, i) : i \in Given(k, x)}
  IN  /\ y.out # "error"
      /\ y.out = "again" <=>
           /\ k = "stringReplace" /\ GivenLinks(k, x)
           /\ \A i \in 0 .. Len(GivenText(x, 2)) : \A j \in i .. Len(GivenText(x, 2)) :
                SubSeq(GivenText(x, 2), i + 1, j) # GivenText(x, 3)
      /\ y.out = "left" <=>
           k \in {"ifEq", "ifGr"} /\ GivenLinks(k, x) /\ {Form(c) : c \in texts} = {"integer", "real"}
      /\ y.out = "killed" =>
           /\ k \in {"contDiv", "contDivInt", "contDivRem"}
           /\ \/ \E c \in texts : Form(c) # "int" /\ k \in Whole2
              \/ \E c \in texts : Form(c) = "integer" /\ NumberIn(c) \notin Number
              \/ \A n \in Number : ~Exact(k, n, NumberIn(GivenText(x, 2)), NumberIn(GivenText(x, 3)))
      /\ y.out = "thrown" =>
           \/ ~GivenLinks(k, x)
           \/ k \in Strings /\ ~IsNode(Want(x, 1))
           \/ k \notin Strings \cup Asking /\ \E c \in texts : Misread(c) \/ TooLarge(c)
      /\ ~GivenLinks(k, x) => y.out = "thrown"

EndOutcome ==
  Accepted(kind, before) /\ world.out # "run" /\ kind # "none" => Ending(kind, before, world)

\* The link or set an element leads to as a computed value.
AnswersOf(x, e) ==
  {Target(x, a) : a \in {b \in Connectors(x) : Source(x, b) = e /\
                           \E n \in Connectors(x) : x.ends[n] = <<Relation, b>>}}

\* An operator changes no content and no variable but that of its first operand
\* and those to be assigned.  On success an operator on numbers makes its
\* answer, a new link, the only value; one on texts adds a new element that
\* leads to one answer, and leaves the values of a FIXED operand where they are.
Answering(k, x, y) ==
  LET v    == x.operand[1].addr
      new  == Value(y, 1)
      left(u) == IF AssignedTo(x, u) = {} THEN x.value[u] ELSE {}
      asks == k \in Asking \cup {"ifEq", "ifGr"}
  IN  /\ Kept(x, y)
      /\ Restrict(y.content, DOMAIN x.content) = x.content
      /\ \A u \in Variable \ {v} : y.value[u] = left(u)
      /\ y.out = "unsuccess" \/ asks =>
           SameMemory(x, y) /\ (v \in Variable => y.value[v] = left(v))
      /\ y.out = "success" /\ ~asks /\ k \notin Strings =>
           /\ v \in Variable => y.value[v] = {new}
           /\ new \notin Exists(x) /\ IsLink(y.type[new])
      /\ y.out = "success" /\ k \in Strings =>
           /\ v \in Variable => y.value[v] = left(v) \cup {new}
           /\ new \notin Exists(x) /\ y.type[new] = Want(x, 1)
           /\ new \notin DOMAIN y.content
           /\ Cardinality(AnswersOf(y, new)) = 1
           /\ AnswersOf(y, new) \cap Exists(x) = {}

AnswerOutcome ==
  Accepted(kind, before) /\ world.out # "run" /\ kind # "none" => Answering(kind, before, world)

\* Where s stands in t: what is before it and what is after it.
Around(s, t) ==
  {p \in {<<SubSeq(t, 1, n), SubSeq(t, n + Len(s) + 1, Len(t))>> : n \in 0 .. Len(t)} : p[1] \o s \o p[2] = t}

\* Shorter than what a negative index becomes, as any text is.
Short(c) == \A n \in Number : n < 0 => Len(c) < AsSize(n)

\* A concatenation begins with the one text and ends with the other; a slice
\* is what stands between its indices; a replacement and an index are of the
\* first occurrence; a part begins with a text and after each separator, holds
\* none and ends before the next or with the text; of two texts that differ one
\* is greater.
Telling(k, x, y) ==
  LET c == GivenText(x, 2)
      d == GivenText(x, 3)
      e == CHOOSE a \in AnswersOf(y, Value(y, 1)) : TRUE
      answer == Content(y, e)
      links == {Target(y, a) : a \in {b \in Connectors(y) : Source(y, b) = e}}
      found == {i \in DOMAIN c : c[i] \in Range(d)}
      First(p) == p \in Around(d, c) /\ \A q \in Around(d, c) : Len(p[1]) <= Len(q[1])
  IN  /\ y.out = "success" /\ k \in Strings /\ Short(c) =>
           /\ k = "contStringConcat" =>
                IsPrefix(c, answer) /\ IsSuffix(d, answer) /\ Len(answer) = Len(c) + Len(d)
           /\ k = "stringSlice" =>
                <<SubSeq(c, 1, NumberIn(d)), SubSeq(c, NumberIn(GivenText(x, 4)) + 1, Len(c))>> \in Around(answer, c)
           /\ k = "stringReplace" =>
                \E p \in Around(d, c) : First(p) /\ answer = p[1] \o GivenText(x, 4) \o p[2]
           /\ k = "stringSub" =>
                \E p \in Around(d, c) : First(p) /\ answer = <<ToString(Len(p[1]))>>
           /\ k = "stringSplit" =>
                \E part \in Bijection({0} \cup found, links) :
                  \A b \in {0} \cup found :
                    LET p == Content(y, part[b])
                    IN  /\ p = SubSeq(c, b + 1, b + Len(p))
                        /\ b + Len(p) + 1 \in found \cup {Len(c) + 1}
                        /\ Range(p) \cap Range(d) = {}
           /\ k = "stringLen" => answer = <<ToString(Len(c))>>
           /\ k \in {"stringToUpperCase", "stringToLowerCase"} => Len(answer) = Len(c)
      /\ k = "stringIfGr" /\ y.out \in {"success", "unsuccess"} =>
           LET a == GivenText(x, 1)
           IN  Range(a) \cup Range(c) \subseteq DOMAIN Rank =>
                 (y.out = "unsuccess" <=> a = c \/ Greater(c, a))

StringOutcome ==
  Accepted(kind, before) /\ world.out # "run" /\ kind \in Strings \cup Asking => Telling(kind, before, world)
=============================================================================
