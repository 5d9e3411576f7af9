---- MODULE MCScpProcess ----
(* Every program of two operators whose control never forks. *)
EXTENDS ScpProcess, TLC

Opt == {{}} \cup {{o} : o \in Operator}

Shape(k, es, t, l, e, g) ==
  [kind |-> k, outcomes |-> es, then |-> t, else |-> l, error |-> e, goto |-> g]

Shapes ==
       {Shape("plain", Outcome, t, l, e, {}) : t \in Opt, l \in Opt, e \in Opt}
  \cup {Shape("plain", Outcome, {}, {}, e, g) : e \in Opt, g \in Opt}
  \cup {Shape(k, {}, {}, {}, {}, {}) : k \in {"return", "untyped"}}

Program(v, d, f, s) ==
  [ valid |-> v, decomposed |-> d, first |-> f,
    kind |-> [o \in Operator |-> s[o].kind],
    outcomes |-> [o \in Operator |-> s[o].outcomes],
    next |-> [r \in Relation |-> [o \in Operator |-> s[o][r]]] ]

Ends == [o \in Operator |-> Shape("return", {}, {}, {}, {}, {})]

SmallPrograms ==
       {Program(TRUE, TRUE, f, s) : f \in Operator, s \in [Operator -> Shapes]}
  \cup {Program(TRUE, d, NoOperator, Ends) : d \in BOOLEAN}
  \cup {Program(FALSE, TRUE, f, Ends) : f \in Operator}

Symmetry == Permutations(Operator)
====
