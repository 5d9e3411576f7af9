---- MODULE MCSysWait ----
(* Two sys_wait operators: one after the other, side by side on one element *)
(* or on two, and in a loop.                                                 *)
EXTENDS SysWait

CONSTANTS o1, o2, e1, e2

Program(start, second, next1, next2) ==
  [ start |-> start,
    awaited |-> [o \in Operator |-> IF o = o1 THEN e1 ELSE second],
    next |-> [o \in Operator |-> IF o = o1 THEN next1 ELSE next2] ]

Chain == Program(<<o1>>, e1, o2, NoOperator)
Beside == Program(<<o1, o2>>, e2, NoOperator, NoOperator)
Together == Program(<<o1, o2>>, e1, NoOperator, NoOperator)
Loop == Program(<<o1>>, e2, o1, NoOperator)

WaitPrograms == {Chain, Beside, Together, Loop}
EndingPrograms == {Beside}
====
