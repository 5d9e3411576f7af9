---- MODULE MCCallReturn ----
(* Two calls and two waiters, wired in the ways programs do. *)
EXTENDS CallReturn

CONSTANTS c1, c2, w1, w2, v1, v2, a1, a2

Program(start, second, operand1, operand2, arcs) ==
  [ start |-> start,
    assigned |-> [c \in Caller |-> IF c = c1 THEN v1 ELSE second],
    operand |-> [w \in Waiter |-> IF w = w1 THEN operand1 ELSE operand2],
    next |-> [o \in Operator |-> {t \in Operator : <<o, t>> \in arcs}] ]

\* Two branches, each of which calls and waits.
Branches == Program({c1, c2}, v2, v1, v2, {<<c1, w1>>, <<c2, w2>>})
\* A waiter runs beside its call: it may find its variable without a value.
Beside == Program({c1, w1, w2}, v2, v1, v2, {})
\* One waiter has a constant for its operand, an action requested elsewhere.
Constant == Program({c1, w2}, v2, v1, a1, {<<c1, w1>>})
\* Two waiters on one variable.
Shared == Program({c1}, v2, v1, v1, {<<c1, w1>>, <<c1, w2>>})
\* A loop: one variable holds one action after the other.
Loop == Program({c1}, v2, v1, v2, {<<c1, w1>>, <<w1, c1>>})

StraightPrograms == {Branches, Beside, Constant}
SharedPrograms == {Shared}
LoopPrograms == {Loop}
====
