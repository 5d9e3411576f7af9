---- MODULE MCScpProcessForks ----
(* Programs whose control forks, joins, or is passed on twice; each comes to *)
(* a return operator whatever the outcomes.                                  *)
EXTENDS ScpProcess

CONSTANTS a, b, c, d

Program(f, k, arcs) ==
  [ valid |-> TRUE, decomposed |-> TRUE, first |-> f, kind |-> k,
    outcomes |-> [o \in Operator |-> IF k[o] = "plain" THEN Outcome ELSE {}],
    next |-> [r \in Relation |->
               [o \in Operator |-> {t \in Operator : <<o, r, t>> \in arcs}]] ]

Kinds(ka, kb, kc, kd) ==
  [o \in Operator |-> CASE o = a -> ka [] o = b -> kb [] o = c -> kc [] o = d -> kd]

Always(o, t) == {<<o, "goto", t>>, <<o, "error", t>>}

\* b and c run at once; c may be erased under its interpreter.
Fork == Program(a, Kinds("plain", "return", "plain", "untyped"),
                Always(a, b) \cup Always(a, c) \cup Always(c, d))

\* Both branches return: two destroyers.
TwoReturns == Program(a, Kinds("plain", "return", "plain", "return"),
                      Always(a, b) \cup Always(a, c) \cup Always(c, d))

\* Both branches lead to d, which is activated twice.
Join == Program(a, Kinds("plain", "plain", "plain", "return"),
                Always(a, b) \cup Always(a, c) \cup Always(b, d) \cup Always(c, d))

\* The call's operands do not parse: its error is announced twice.
MalformedCall == Program(a, Kinds("malformedCall", "return", "untyped", "untyped"),
                         {<<a, "error", b>>})

\* then and goto are both followed on success, goto alone on failure.
ThenAndGoto == Program(a, Kinds("plain", "plain", "return", "return"),
                       {<<a, "then", b>>, <<a, "goto", c>>, <<a, "error", d>>})

\* One of three ways, which meet again.
Diamond == Program(a, Kinds("plain", "plain", "plain", "return"),
                   {<<a, "then", b>>, <<a, "else", c>>, <<a, "error", d>>}
                     \cup Always(b, d) \cup Always(c, d))

ForkPrograms == {Fork, TwoReturns, Join, MalformedCall, ThenAndGoto, Diamond}
EndingPrograms == {Fork, TwoReturns, MalformedCall, ThenAndGoto}
====
