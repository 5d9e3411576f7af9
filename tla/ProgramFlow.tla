---------------------------- MODULE ProgramFlow -----------------------------
(***************************************************************************)
(* What the interpretation of a program whose control never forks promises:*)
(* control is at one operator at a time, and goes from it along nrel_then, *)
(* nrel_else, nrel_error or nrel_goto as the operator ends.  There are no  *)
(* agents, events or state arcs here; ScpProcess implements this machine.  *)
(***************************************************************************)
CONSTANTS Operator, NoOperator, Programs

VARIABLES
  prog,   \* the program being interpreted
  phase,  \* has control yet to start, is it at an operator, or where did it end
  at      \* the operator control is at

vars == <<prog, phase, at>>

\* Where control may go from operator o when it ended with outcome e.
Onward(o, e) ==
  CASE e = "success"   -> prog.next["then"][o] \cup prog.next["goto"][o]
    [] e = "unsuccess" -> prog.next["else"][o] \cup prog.next["goto"][o]
    [] e = "error"     -> prog.next["error"][o]

Init ==
  /\ prog \in Programs
  /\ phase = "ready"
  /\ at = NoOperator

Stop(end) ==
  /\ phase' = end
  /\ at' = NoOperator
  /\ UNCHANGED prog

Begin ==
  /\ phase = "ready"
  /\ prog.valid /\ prog.decomposed /\ prog.first # NoOperator
  /\ phase' = "running"
  /\ at' = prog.first
  /\ UNCHANGED prog

Refuse == phase = "ready" /\ ~prog.valid /\ Stop("refused")

Skip ==
  /\ phase = "ready"
  /\ prog.valid /\ ~(prog.decomposed /\ prog.first # NoOperator)
  /\ Stop("returned")

Pass(e) ==
  /\ phase = "running" /\ prog.kind[at] = "plain"
  /\ e \in prog.outcomes[at]
  /\ at' \in Onward(at, e)
  /\ UNCHANGED <<prog, phase>>

\* Control is lost at an operator with no successor for its outcome.
Halt ==
  /\ phase = "running"
  /\ \/ prog.kind[at] = "untyped"
     \/ prog.kind[at] = "plain" /\ \E e \in prog.outcomes[at] : Onward(at, e) = {}
  /\ Stop("halted")

Return == phase = "running" /\ prog.kind[at] = "return" /\ Stop("returned")

Next ==
  \/ Begin \/ Refuse \/ Skip \/ Halt \/ Return
  \/ \E e \in {"success", "unsuccess", "error"} : Pass(e)

Spec == Init /\ [][Next]_vars
=============================================================================
