------------------------------ MODULE SysWait ------------------------------
(***************************************************************************)
(* The operator `sys_wait' waits for an event of an sc-element.  Its       *)
(* interpreter creates a subscription, registers it and returns; a handler *)
(* finishes the operator when the event comes, takes the subscription out  *)
(* of the registry and deletes it.  Each execution of an operator makes    *)
(* one subscription; each event queues one handler per live subscription.  *)
(*                                                                         *)
(* When the module shuts down, the thread that does so empties the         *)
(* registry, which it locks anew for each look at it, while handlers go on.*)
(*                                                                         *)
(* active_action, which nothing here reads and no step clears, is left     *)
(* out; the order of the registry is left open, so that any subscription   *)
(* in it may be the first.                                                 *)
(***************************************************************************)
EXTENDS Naturals, Sequences

CONSTANTS
  Operator,       \* operators `sys_wait'
  NoOperator,
  Element,        \* sc-elements whose events are awaited
  Programs,       \* the programs considered
  ShutDown,       \* those during which the module may be shut down
  MaxExecutions,  \* executions of operators, at most
  MaxEvents       \* events, at most

\* The operators activated at first, the element each awaits and the operator
\* that follows it when it succeeds.
ProgramType ==
  [ start   : Seq(Operator),
    awaited : [Operator -> Element],
    next    : [Operator -> Operator \cup {NoOperator}] ]

ASSUME NoOperatorAssumption == NoOperator \notin Operator
ASSUME ProgramsAssumption ==
  \A p \in Programs : p \in ProgramType /\ Len(p.start) <= MaxExecutions
ASSUME BoundsAssumption == MaxExecutions \in Nat /\ MaxEvents \in Nat

Execution    == 1 .. MaxExecutions
NoExecution  == 0
Event        == 1 .. MaxEvents
Handler      == Execution \X Event  \* of the subscription an execution made

VARIABLES
  prog,       \* the program interpreted
  state,      \* state[o]: how operator o has ended, as far as its arcs tell
  execution,  \* execution[x]: an execution, and the subscription it made
  handler,    \* handler[h]: where the handler is, and the subscription it took
  registry,   \* sysWaitEventSubscriptions
  deleter,    \* the thread in DeleteAllSysWaiters, and the one it deletes
  raced,      \* history: a handler took what the deleter had counted on
  finished,   \* handlers whose action_finished the synchronizer has yet to see
  events      \* events so far

shutdown == <<deleter, raced>>
vars     == <<prog, state, execution, handler, registry, finished, events, shutdown>>

\* `live': subscribed.  History: `fired', an event came while it was, and
\* `taker', the operator whose handler took the subscription.
ExecutionType ==
  [ pc    : {"none", "clear", "subscribe", "push", "done"},
    op    : Operator \cup {NoOperator},
    live  : BOOLEAN,
    fired : BOOLEAN,
    taker : Operator \cup {NoOperator} ]

HandlerType ==
  [ pc   : {"none", "look", "mark", "lookFinished", "finish", "extract", "delete"},
    took : Execution \cup {NoExecution} ]

\* "crash": the first one of an empty registry is looked at, or removed.
DeleterType ==
  [ pc   : {"off", "empty", "front", "pop", "delete", "over", "crash"},
    took : Execution \cup {NoExecution} ]

DeleterAt(pc) == [pc |-> pc, took |-> NoExecution]

Executing(o) ==
  [pc |-> "clear", op |-> o, live |-> FALSE, fired |-> FALSE, taker |-> NoOperator]
NoneYet == [Executing(NoOperator) EXCEPT !.pc = "none"]

Started(x) == execution[x].pc # "none"
NewExecution(x) == ~Started(x) /\ \A y \in Execution : y < x => Started(y)

HandlerAt(pc) == [pc |-> pc, took |-> NoExecution]
Goto(h, pc) == handler' = [handler EXCEPT ![h] = HandlerAt(pc)]
Waiting(h) == execution[h[1]].op  \* waitingOperator, which the lambda copies

Init ==
  /\ prog \in Programs
  /\ state = [o \in Operator |-> {}]
  /\ execution = [x \in Execution |->
       IF x <= Len(prog.start) THEN Executing(prog.start[x]) ELSE NoneYet]
  /\ handler = [h \in Handler |-> HandlerAt("none")]
  /\ registry = {}
  /\ deleter = DeleterAt("off")
  /\ raced = FALSE
  /\ finished = {}
  /\ events = 0

-----------------------------------------------------------------------------
(* SCPOperatorSysWait::Execute *)

\* What an earlier execution left is cleared before the wait begins.
ClearExecutionState(x) ==
  /\ execution[x].pc = "clear"
  /\ state' = [state EXCEPT ![execution[x].op] = {}]
  /\ execution' = [execution EXCEPT ![x].pc = "subscribe"]
  /\ UNCHANGED <<prog, handler, registry, finished, events, shutdown>>

\* The constructor of SCPWaitEvent: from here on events are handled.
Subscribe(x) ==
  /\ execution[x].pc = "subscribe"
  /\ execution' = [execution EXCEPT ![x].pc = "push", ![x].live = TRUE]
  /\ UNCHANGED <<prog, state, handler, registry, finished, events, shutdown>>

\* An operand is not fixed or has no value; what nrel_error leads to is no
\* sys_wait of the programs considered.
Reject(x) ==
  /\ execution[x].pc = "subscribe"
  /\ state' = [state EXCEPT ![execution[x].op] = {"error", "finished"}]
  /\ execution' = [execution EXCEPT ![x].pc = "done"]
  /\ UNCHANGED <<prog, handler, registry, finished, events, shutdown>>

\* Mutant: the state is cleared when the wait has begun.
Push_Clears(x) ==
  /\ execution[x].pc = "push"
  /\ registry' = registry \cup {x}
  /\ execution' = [execution EXCEPT ![x].pc = "done"]
  /\ state' = [state EXCEPT ![execution[x].op] = {}]
  /\ UNCHANGED <<prog, handler, finished, events, shutdown>>

\* The operator object, whose address the event refers to, is destroyed next.
Push(x) ==
  /\ execution[x].pc = "push"
  /\ registry' = registry \cup {x}
  /\ execution' = [execution EXCEPT ![x].pc = "done"]
  /\ UNCHANGED <<prog, state, handler, finished, events, shutdown>>

-----------------------------------------------------------------------------
(* sc-memory queues one handler for each subscription to the element. *)

Emit(e) ==
  LET Fired == {x \in Execution : execution[x].live /\ prog.awaited[execution[x].op] = e}
  IN
  /\ events < MaxEvents
  /\ events' = events + 1
  /\ handler' = [h \in Handler |->
       IF h[1] \in Fired /\ h[2] = events' THEN HandlerAt("look") ELSE handler[h]]
  /\ execution' = [x \in Execution |->
       IF x \in Fired THEN [execution[x] EXCEPT !.fired = TRUE] ELSE execution[x]]
  /\ UNCHANGED <<prog, state, registry, finished, shutdown>>

\* Mutant: a handler that does not find its subscription registered gives up.
Drop_Unregistered(h) ==
  /\ handler[h].pc = "look" /\ h[1] \notin registry
  /\ Goto(h, "none")
  /\ UNCHANGED <<prog, state, execution, registry, finished, events, shutdown>>

\* A handler queued for a subscription that was deleted may not run any more.
Drop(h) ==
  /\ handler[h].pc = "look" /\ ~execution[h[1]].live
  /\ Goto(h, "none")
  /\ UNCHANGED <<prog, state, execution, registry, finished, events, shutdown>>

-----------------------------------------------------------------------------
(* The handler of SCPWaitEvent *)

LookSuccessful(h) ==
  /\ handler[h].pc = "look"
  /\ Goto(h, IF "success" \in state[Waiting(h)] THEN "none" ELSE "mark")
  /\ UNCHANGED <<prog, state, execution, registry, finished, events, shutdown>>

MarkSuccessful(h) ==
  /\ handler[h].pc = "mark"
  /\ state' = [state EXCEPT ![Waiting(h)] = @ \cup {"success"}]
  /\ Goto(h, "lookFinished")
  /\ UNCHANGED <<prog, execution, registry, finished, events, shutdown>>

LookFinished(h) ==
  /\ handler[h].pc = "lookFinished"
  /\ Goto(h, IF "finished" \in state[Waiting(h)] THEN "none" ELSE "finish")
  /\ UNCHANGED <<prog, state, execution, registry, finished, events, shutdown>>

Finish(h) ==
  /\ handler[h].pc = "finish"
  /\ state' = [state EXCEPT ![Waiting(h)] = @ \cup {"finished"}]
  /\ finished' = finished \cup {h}
  /\ Goto(h, "extract")
  /\ UNCHANGED <<prog, execution, registry, events, shutdown>>

\* The deleter has seen that the registry is not empty, or which is the first.
CountedOn(x) ==
  \/ deleter.pc = "front" /\ registry = {x}
  \/ deleter.pc = "pop" /\ deleter.took = x

\* Mutant: extract leaves the subscription in the registry.
Extract_Keeps(h) ==
  /\ handler[h].pc = "extract"
  /\ \/ /\ Goto(h, "none")
        /\ UNCHANGED <<execution, registry>>
     \/ \E x \in registry :
          /\ handler' = [handler EXCEPT ![h] = [pc |-> "delete", took |-> x]]
          /\ execution' = [execution EXCEPT ![x].taker = Waiting(h)]
          /\ UNCHANGED registry
  /\ UNCHANGED <<prog, state, finished, events, shutdown>>

\* The operators whose addresses extract compares are destroyed: it may take
\* any subscription for its own, or none.
Extract(h) ==
  /\ handler[h].pc = "extract"
  /\ \/ /\ Goto(h, "none")
        /\ UNCHANGED <<execution, registry, raced>>
     \/ \E x \in registry :
          /\ handler' = [handler EXCEPT ![h] = [pc |-> "delete", took |-> x]]
          /\ execution' = [execution EXCEPT ![x].taker = Waiting(h)]
          /\ registry' = registry \ {x}
          /\ raced' = (raced \/ CountedOn(x))
  /\ UNCHANGED <<prog, state, finished, events, deleter>>

Delete(h) ==
  /\ handler[h].pc = "delete"
  /\ execution' = [execution EXCEPT ![handler[h].took].live = FALSE]
  /\ Goto(h, "none")
  /\ UNCHANGED <<prog, state, registry, finished, events, shutdown>>

-----------------------------------------------------------------------------
(* SCPWaitEvent::DeleteAllSysWaiters, whose calls of empty, front and pop are *)
(* each locked alone.                                                         *)

BeginShutdown ==
  /\ deleter.pc = "off" /\ prog \in ShutDown
  /\ deleter' = DeleterAt("empty")
  /\ UNCHANGED <<prog, state, execution, handler, registry, finished, events, raced>>

LookEmpty ==
  /\ deleter.pc = "empty"
  /\ deleter' = DeleterAt(IF registry = {} THEN "over" ELSE "front")
  /\ UNCHANGED <<prog, state, execution, handler, registry, finished, events, raced>>

\* What the code does with the first of none is undefined.  The reference that
\* front returns is read when the lock is released: it is that of an element
\* only as long as the handlers leave it there.
Front ==
  /\ deleter.pc = "front"
  /\ \/ \E x \in registry : deleter' = [pc |-> "pop", took |-> x]
     \/ registry = {} /\ deleter' = DeleterAt("crash")
  /\ UNCHANGED <<prog, state, execution, handler, registry, finished, events, raced>>

\* If the one looked at is gone, another is the first.
Pop ==
  /\ deleter.pc = "pop"
  /\ \/ \E x \in registry :
          /\ deleter.took \in registry => x = deleter.took
          /\ registry' = registry \ {x}
          /\ deleter' = [deleter EXCEPT !.pc = "delete"]
     \/ registry = {} /\ deleter' = DeleterAt("crash") /\ UNCHANGED registry
  /\ UNCHANGED <<prog, state, execution, handler, finished, events, raced>>

DeleteFront ==
  /\ deleter.pc = "delete"
  /\ execution' = [execution EXCEPT ![deleter.took].live = FALSE]
  /\ deleter' = DeleterAt("empty")
  /\ UNCHANGED <<prog, state, handler, registry, finished, events, raced>>

-----------------------------------------------------------------------------
(* The synchronizer, which looks at the operator's state and activates the *)
(* next one.                                                               *)

\* Mutant: it does not look whether there is one.
FollowNext_Always(h) == "success" \in state[Waiting(h)]
FollowNext(h) == "success" \in state[Waiting(h)] /\ prog.next[Waiting(h)] # NoOperator

Activate(h, x) ==
  /\ h \in finished /\ FollowNext(h)
  /\ NewExecution(x)
  /\ execution' = [execution EXCEPT ![x] = Executing(prog.next[Waiting(h)])]
  /\ finished' = finished \ {h}
  /\ UNCHANGED <<prog, state, handler, registry, events, shutdown>>

Stop(h) ==
  /\ h \in finished /\ ~FollowNext(h)
  /\ finished' = finished \ {h}
  /\ UNCHANGED <<prog, state, execution, handler, registry, events, shutdown>>

-----------------------------------------------------------------------------
Execute(x) == ClearExecutionState(x) \/ Subscribe(x) \/ Reject(x) \/ Push(x)

Handle(h) ==
  \/ Drop(h) \/ LookSuccessful(h) \/ MarkSuccessful(h) \/ LookFinished(h)
  \/ Finish(h) \/ Extract(h) \/ Delete(h)

Synchronize(h) == Stop(h) \/ \E x \in Execution : Activate(h, x)

DeleteAllSysWaiters == BeginShutdown \/ LookEmpty \/ Front \/ Pop \/ DeleteFront

Next ==
  \/ DeleteAllSysWaiters
  \/ \E e \in Element : Emit(e)
  \/ \E x \in Execution : Execute(x)
  \/ \E h \in Handler : Handle(h) \/ Synchronize(h)

Spec == Init /\ [][Next]_vars

\* What is queued is handled; nobody has to cause an event.
Fairness ==
  /\ \A x \in Execution : WF_vars(Execute(x))
  /\ \A h \in Handler : WF_vars(Handle(h)) /\ WF_vars(Synchronize(h))

FairSpec == Spec /\ Fairness

-----------------------------------------------------------------------------
(***************************************************************************)
(* Programs in which every sys_wait is executed once.  None follows        *)
(* another: two events may finish an operator twice, and what follows it   *)
(* is then executed twice, even where control neither loops nor forks.     *)
(***************************************************************************)
Once(p) ==
  /\ \A x, y \in DOMAIN p.start : p.start[x] = p.start[y] => x = y
  /\ \A o \in Operator : p.next[o] = NoOperator

\* Arcs, executions, handlers and the registry have the shape the code gives them.
TypeOK ==
  /\ prog \in ProgramType
  /\ state \in [Operator -> SUBSET {"success", "error", "finished"}]
  /\ execution \in [Execution -> ExecutionType]
  /\ \A x \in Execution : Started(x) => execution[x].op \in Operator
  /\ handler \in [Handler -> HandlerType]
  /\ registry \subseteq Execution /\ finished \subseteq Handler
  /\ deleter \in DeleterType /\ raced \in BOOLEAN
  /\ events \in 0 .. MaxEvents

\* Every subscription has one owner that will delete it, its interpreter, the
\* registry, a handler or the deleter, however wrong the one that extract finds:
\* none is deleted twice, and none is out of DeleteAllSysWaiters' reach -- until
\* a handler takes the very subscription the deleter has looked at, or the last
\* one when the deleter has seen that there is one.
Pushing(x)   == execution[x].pc = "push"
Deleting(x)  == deleter.pc = "delete" /\ deleter.took = x
Took(h, x)   == handler[h].took = x
OneOwner ==
  ~raced =>
    \A x \in Execution :
      /\ execution[x].live <=>
           Pushing(x) \/ x \in registry \/ Deleting(x) \/ \E h \in Handler : Took(h, x)
      /\ ~(Pushing(x) /\ x \in registry)
      /\ Pushing(x) \/ x \in registry => ~Deleting(x)
      /\ Pushing(x) \/ x \in registry \/ Deleting(x) => \A h \in Handler : ~Took(h, x)
      /\ \A g, h \in Handler : Took(g, x) /\ Took(h, x) => g = h

\* A wait that is over has an outcome for the synchronizer to follow, though
\* handlers of several events end it together and never look at it again.
FinishedWithOutcome ==
  Once(prog) =>
    \A o \in Operator : "finished" \in state[o] => state[o] \cap {"success", "error"} # {}

\* An event that comes while the operator waits ends the wait, whether its
\* subscription is in the registry yet or not, unless the handler of another
\* operator took that subscription for its own, or the module is shut down.
Over(x)  == Started(x) /\ "finished" \in state[execution[x].op]
Taken(x) == execution[x].taker \notin {NoOperator, execution[x].op}
NoLostEvent ==
  \A x \in Execution :
    Once(prog) /\ execution[x].fired ~> Over(x) \/ Taken(x) \/ deleter.pc # "off"

-----------------------------------------------------------------------------
(***************************************************************************)
(* Inductive invariants: OwnerInv for every program, OutcomeInv for those  *)
(* that execute every sys_wait once.                                       *)
(***************************************************************************)
Subscribed(x) == execution[x].pc \in {"push", "done"}

DeleterInv ==
  /\ deleter.pc \in {"pop", "delete"} => deleter.took \in Execution
  /\ ~raced => /\ deleter.pc = "front" => registry # {}
               /\ deleter.pc = "pop" => deleter.took \in registry
               /\ deleter.pc # "crash"

OwnerInv ==
  /\ OneOwner
  /\ DeleterInv
  /\ \A x \in Execution : execution[x].live => Subscribed(x)
  /\ \A h \in Handler :
       /\ handler[h].pc = "delete" <=> handler[h].took # NoExecution
       /\ handler[h].pc # "none" \/ h \in finished => Subscribed(h[1]) /\ h[2] <= events

OutcomeInv ==
  Once(prog) =>
    /\ FinishedWithOutcome
    /\ \A x, y \in Execution :
         Started(x) /\ Started(y) /\ execution[x].op = execution[y].op => x = y
    /\ \A h \in Handler : handler[h].pc \in {"lookFinished", "finish"} =>
         "success" \in state[Waiting(h)]
=============================================================================
