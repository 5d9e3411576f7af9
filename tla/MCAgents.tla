------------------------------ MODULE MCAgents ------------------------------
(* Two agents that share an implementation, and implementations that are not *)
(* subscribed or can not be; programs of every form.                         *)
EXTENDS Agents, TLC

CONSTANTS a, b, p, q, r, s, t, u

MCAgentsOf == (p :> {a}) @@ (q :> {a, b}) @@ (r :> {b}) @@ (s :> {a}) @@ (t :> {b}) @@ (u :> {a})

Prog(agent, process, marks) == [agent |-> agent, process |-> process, marks |-> marks]
Helper == Prog(FALSE, TRUE, <<>>)

MCProgramTuples ==
     (p :> << <<Helper, Prog(TRUE, TRUE, <<"success", "finished">>)>>,
              <<Helper>> >>)
  @@ (q :> << <<Prog(TRUE, TRUE, <<"success">>)>>,
              <<Prog(TRUE, TRUE, <<"error", "finished">>), Prog(TRUE, FALSE, <<>>)>> >>)
  @@ (r :> << <<Prog(TRUE, TRUE, <<"unsuccess", "finished">>)>> >>)
  @@ (s :> << <<Prog(TRUE, TRUE, <<>>)>>, <<Prog(TRUE, FALSE, <<"finished">>)>> >>)
  @@ (t :> << <<Helper>> >>)
  @@ (u :> <<>>)

MCBudgets == {[changes |-> 2, events |-> 0, stops |-> TRUE], [changes |-> 0, events |-> 1, stops |-> FALSE]}
=============================================================================
