--------------------------- MODULE SysWait_proofs ---------------------------
(***************************************************************************)
(* Proofs about SysWait, for any number of operators, elements, executions *)
(* and events.                                                             *)
(***************************************************************************)
EXTENDS SysWait, TLAPS

\* The shape of the values a step assigns.
LEMMA Shapes ==
  /\ \A o \in Operator : Executing(o) \in ExecutionType
  /\ NoneYet \in ExecutionType
  /\ \A pc \in {"none", "look", "mark", "lookFinished", "finish", "extract"} :
       HandlerAt(pc) \in HandlerType
  /\ \A o : /\ Executing(o).pc = "clear" /\ Executing(o).op = o
            /\ Executing(o).live = FALSE
  /\ NoneYet.pc = "none" /\ NoneYet.live = FALSE
  /\ \A pc : HandlerAt(pc).pc = pc /\ HandlerAt(pc).took = NoExecution
  /\ \A pc \in {"off", "empty", "front", "over", "crash"} : DeleterAt(pc) \in DeleterType
  /\ \A pc : DeleterAt(pc).pc = pc /\ DeleterAt(pc).took = NoExecution
BY DEF Executing, NoneYet, HandlerAt, DeleterAt, ExecutionType, HandlerType, DeleterType,
       NoExecution

\* An execution is not numbered as none is.
LEMMA ExecutionNumbers == NoExecution \notin Execution
BY BoundsAssumption DEF NoExecution, Execution

\* While the deleter stands still and nothing leaves the registry, what it has
\* looked at is there.
LEMMA DeleterStays ==
  ASSUME DeleterInv, UNCHANGED shutdown, registry \subseteq registry'
  PROVE  DeleterInv'
BY DEF DeleterInv, shutdown

-----------------------------------------------------------------------------
(* Types and owners, for every program. *)

\* The first executions are about to begin, and nothing is subscribed.
LEMMA OwnerInit == Init => TypeOK /\ OwnerInv
<1> SUFFICES ASSUME Init PROVE TypeOK /\ OwnerInv
  OBVIOUS
<1>p. prog \in ProgramType /\ Len(prog.start) <= MaxExecutions
  BY ProgramsAssumption DEF Init
<1>1. execution \in [Execution -> ExecutionType]
  <2> SUFFICES ASSUME NEW x \in Execution
               PROVE  (IF x <= Len(prog.start) THEN Executing(prog.start[x]) ELSE NoneYet)
                        \in ExecutionType
    BY DEF Init
  <2>1. CASE x <= Len(prog.start)
    <3>1. prog.start[x] \in Operator
      BY <1>p, <2>1 DEF ProgramType, Execution
    <3> QED BY <2>1, <3>1, Shapes
  <2> QED BY <2>1, Shapes
<1>2. \A x \in Execution : Started(x) => execution[x].op \in Operator
  <2> SUFFICES ASSUME NEW x \in Execution, Started(x) PROVE execution[x].op \in Operator
    OBVIOUS
  <2>1. x <= Len(prog.start) /\ execution[x].op = prog.start[x]
    BY Shapes DEF Init, Started
  <2> QED BY <1>p, <2>1 DEF ProgramType, Execution
<1>3. handler \in [Handler -> HandlerType]
  BY Shapes DEF Init
<1>e. deleter \in DeleterType
  BY Shapes DEF Init
<1>f. raced \in BOOLEAN
  BY DEF Init
<1>g. events \in 0 .. MaxEvents
  BY BoundsAssumption DEF Init
<1>4. TypeOK
  <2>1. state \in [Operator -> SUBSET {"success", "error", "finished"}]
    BY DEF Init
  <2>2. registry \subseteq Execution /\ finished \subseteq Handler
    BY DEF Init
  <2> QED BY <1>p, <1>1, <1>2, <1>3, <1>e, <1>f, <1>g, <2>1, <2>2 DEF TypeOK
<1>5. \A x \in Execution : execution[x].live = FALSE /\ execution[x].pc # "push"
  BY Shapes DEF Init
<1>6. \A h \in Handler : handler[h].pc = "none" /\ handler[h].took = NoExecution
  BY Shapes DEF Init
<1>d. DeleterInv /\ deleter.pc = "off"
  BY Shapes DEF Init, DeleterInv
<1>7. OwnerInv
  BY <1>5, <1>6, <1>d, ExecutionNumbers DEF Init, OwnerInv, OneOwner, Pushing, Deleting, Took
<1> QED BY <1>4, <1>7

\* A handler moves on, and takes no subscription.
LEMMA HandlerMoves ==
  ASSUME TypeOK, OwnerInv, NEW h \in Handler, NEW pc \in
           {"none", "look", "mark", "lookFinished", "finish", "extract"},
         handler[h].pc \notin {"none", "delete"}, Goto(h, pc),
         UNCHANGED <<execution, registry, events, shutdown>>,
         finished' = finished \/ finished' = finished \cup {h}
  PROVE  handler' \in [Handler -> HandlerType] /\ OwnerInv'
<1>1. handler' = [handler EXCEPT ![h] = HandlerAt(pc)] /\ HandlerAt(pc) \in HandlerType
  BY Shapes DEF Goto
<1>2. /\ handler' \in [Handler -> HandlerType]
      /\ \A g \in Handler : g # h => handler'[g] = handler[g]
      /\ handler'[h].pc = pc /\ handler'[h].took = NoExecution
  BY <1>1, Shapes DEF TypeOK
<1>3. handler[h].took = NoExecution
  BY DEF OwnerInv
<1>4. \A g \in Handler, x \in Execution : Took(g, x)' <=> Took(g, x)
  BY <1>2, <1>3 DEF Took
<1>5. OneOwner'
  BY <1>4 DEF OwnerInv, OneOwner, Pushing, Deleting, shutdown
<1>6. \A g \in Handler : handler'[g].pc = "delete" <=> handler'[g].took # NoExecution
  BY <1>2 DEF OwnerInv
<1>7. \A g \in Handler : handler'[g].pc # "none" \/ g \in finished' =>
        Subscribed(g[1])' /\ g[2] <= events'
  BY <1>2 DEF OwnerInv, Subscribed
<1>8. \A x \in Execution : execution'[x].live => Subscribed(x)'
  BY DEF OwnerInv, Subscribed
<1>9. DeleterInv'
  BY DeleterStays DEF OwnerInv
<1> QED BY <1>2, <1>5, <1>6, <1>7, <1>8, <1>9 DEF OwnerInv

\* Steps of an operator's interpreter.
LEMMA OwnerExecute ==
  ASSUME TypeOK, OwnerInv, NEW x \in Execution, Execute(x)
  PROVE  TypeOK' /\ OwnerInv'
<1>0. execution[x] \in ExecutionType /\ Started(x)
  BY DEF TypeOK, Execute, ClearExecutionState, Subscribe, Reject, Push, Started
<1>1. execution[x].op \in Operator
  BY <1>0 DEF TypeOK
<1>d. DeleterInv' /\ UNCHANGED shutdown
  BY DeleterStays DEF OwnerInv, Execute, ClearExecutionState, Subscribe, Reject, Push
<1>2. CASE ClearExecutionState(x)
  <2>1. execution' = [execution EXCEPT ![x].pc = "subscribe"] /\ execution[x].pc = "clear"
    BY <1>2 DEF ClearExecutionState
  <2>t. /\ state' \in [Operator -> SUBSET {"success", "error", "finished"}]
        /\ execution' \in [Execution -> ExecutionType]
    BY <1>0, <1>1, <1>2, <2>1 DEF TypeOK, ClearExecutionState, ExecutionType
  <2>2. TypeOK'
    BY <1>0, <1>1, <1>2, <2>1, <2>t DEF TypeOK, ClearExecutionState, Started, shutdown
  <2>3. OneOwner'
    BY <1>2, <2>1 DEF ClearExecutionState, TypeOK, OwnerInv, OneOwner, Pushing, Deleting, Took, shutdown
  <2> QED BY <1>d, <1>2, <2>1, <2>2, <2>3 DEF ClearExecutionState, TypeOK, OwnerInv, Subscribed
<1>3. CASE Subscribe(x)
  <2>1. /\ execution' = [execution EXCEPT ![x].pc = "push", ![x].live = TRUE]
        /\ execution[x].pc = "subscribe" /\ ~execution[x].live
    BY <1>3 DEF Subscribe, OwnerInv, Subscribed
  <2>2. TypeOK'
    BY <1>0, <1>1, <1>3, <2>1 DEF TypeOK, Subscribe, ExecutionType, Started, shutdown
  <2>3. OneOwner'
    BY <1>3, <2>1 DEF Subscribe, TypeOK, OwnerInv, OneOwner, Pushing, Deleting, Took, shutdown
  <2>4. \A y \in Execution : Subscribed(y)' <=> Subscribed(y) \/ y = x
    BY <1>0, <2>1 DEF TypeOK, Subscribed
  <2>5. \A y \in Execution : execution'[y].live => Subscribed(y)'
    BY <2>1, <2>4 DEF TypeOK, OwnerInv
  <2> QED BY <1>d, <1>3, <2>2, <2>3, <2>4, <2>5 DEF Subscribe, OwnerInv, Handler
<1>4. CASE Reject(x)
  <2>1. execution' = [execution EXCEPT ![x].pc = "done"] /\ execution[x].pc = "subscribe"
    BY <1>4 DEF Reject
  <2>2. TypeOK'
    BY <1>0, <1>1, <1>4, <2>1 DEF TypeOK, Reject, ExecutionType, Started, shutdown
  <2>3. OneOwner'
    BY <1>4, <2>1 DEF Reject, TypeOK, OwnerInv, OneOwner, Pushing, Deleting, Took, shutdown
  <2> QED BY <1>d, <1>4, <2>1, <2>2, <2>3 DEF Reject, TypeOK, OwnerInv, Subscribed
<1>5. CASE Push(x)
  <2>1. /\ execution' = [execution EXCEPT ![x].pc = "done"] /\ execution[x].pc = "push"
        /\ registry' = registry \cup {x}
    BY <1>5 DEF Push
  <2>2. TypeOK'
    BY <1>0, <1>1, <1>5, <2>1 DEF TypeOK, Push, ExecutionType, Started, shutdown
  <2>3. OneOwner'
    BY <1>5, <2>1 DEF Push, TypeOK, OwnerInv, OneOwner, Pushing, Deleting, Took, shutdown
  <2> QED BY <1>d, <1>5, <2>1, <2>2, <2>3 DEF Push, TypeOK, OwnerInv, Subscribed
<1> QED BY <1>2, <1>3, <1>4, <1>5 DEF Execute

\* Steps of an event's handler.
LEMMA OwnerHandle ==
  ASSUME TypeOK, OwnerInv, NEW h \in Handler, Handle(h)
  PROVE  TypeOK' /\ OwnerInv'
<1>0. handler[h] \in HandlerType /\ handler[h].pc # "none"
  BY DEF TypeOK, Handle, Drop, LookSuccessful, MarkSuccessful, LookFinished, Finish,
         Extract, Delete
<1>1. h[1] \in Execution /\ Subscribed(h[1]) /\ Waiting(h) \in Operator
  <2>1. h[1] \in Execution
    BY DEF Handler
  <2> QED BY <1>0, <2>1 DEF TypeOK, OwnerInv, Subscribed, Waiting, Started
<1>2. CASE Drop(h)
  BY <1>2, HandlerMoves DEF Drop, TypeOK, Started, shutdown
<1>3. CASE LookSuccessful(h)
  <2>1. \E pc \in {"none", "mark"} : Goto(h, pc)
    BY <1>3 DEF LookSuccessful
  <2> QED BY <1>3, <2>1, HandlerMoves DEF LookSuccessful, TypeOK, Started, shutdown
<1>4. CASE MarkSuccessful(h)
  BY <1>1, <1>4, HandlerMoves DEF MarkSuccessful, TypeOK, Started, shutdown
<1>5. CASE LookFinished(h)
  <2>1. \E pc \in {"none", "finish"} : Goto(h, pc)
    BY <1>5 DEF LookFinished
  <2> QED BY <1>5, <2>1, HandlerMoves DEF LookFinished, TypeOK, Started, shutdown
<1>6. CASE Finish(h)
  BY <1>1, <1>6, HandlerMoves DEF Finish, TypeOK, Started, shutdown
<1>7. CASE Extract(h)
  <2>1. CASE Goto(h, "none") /\ UNCHANGED <<execution, registry, raced>>
    BY <1>7, <2>1, HandlerMoves DEF Extract, TypeOK, Started, shutdown
  <2>2. ASSUME NEW x \in registry,
               handler' = [handler EXCEPT ![h] = [pc |-> "delete", took |-> x]],
               execution' = [execution EXCEPT ![x].taker = Waiting(h)],
               registry' = registry \ {x}, raced' = (raced \/ CountedOn(x))
        PROVE  TypeOK' /\ OwnerInv'
    <3>0. x \in Execution /\ execution[x] \in ExecutionType /\ x # NoExecution
      BY ExecutionNumbers DEF TypeOK
    <3>d. UNCHANGED <<prog, state, finished, events, deleter>> /\ raced' \in BOOLEAN
      BY <1>7, <2>2 DEF Extract, TypeOK
    <3>1. /\ handler' \in [Handler -> HandlerType]
          /\ handler'[h].pc = "delete" /\ handler'[h].took = x
          /\ \A g \in Handler : g # h => handler'[g] = handler[g]
      BY <2>2, <3>0 DEF TypeOK, HandlerType
    <3>2. /\ execution' \in [Execution -> ExecutionType]
          /\ \A y \in Execution : /\ execution'[y].pc = execution[y].pc
                                  /\ execution'[y].op = execution[y].op
                                  /\ execution'[y].live = execution[y].live
      BY <1>1, <2>2, <3>0 DEF TypeOK, ExecutionType
    <3>3. TypeOK'
      BY <2>2, <3>d, <3>1, <3>2 DEF TypeOK, Started
    <3>4. \A g \in Handler, y \in Execution : Took(g, y) => g # h
      BY <1>7, ExecutionNumbers DEF Extract, OwnerInv, Took
    <3>5. OneOwner'
      <4> SUFFICES ASSUME ~raced' PROVE OneOwner'
        BY DEF OneOwner
      <4>1. ~raced
        BY <2>2
      <4> QED BY <2>2, <3>0, <3>d, <3>1, <3>2, <3>4, <4>1
                 DEF OwnerInv, OneOwner, Pushing, Deleting, Took
    <3>6. DeleterInv'
      BY <2>2, <3>d DEF OwnerInv, DeleterInv, CountedOn
    <3> QED BY <1>1, <1>7, <2>2, <3>0, <3>1, <3>2, <3>3, <3>5, <3>6
               DEF Extract, OwnerInv, Subscribed, Handler
  <2> QED BY <1>7, <2>1, <2>2 DEF Extract
<1>8. CASE Delete(h)
  <2> DEFINE x == handler[h].took
  <2>0. x \in Execution /\ execution[x] \in ExecutionType /\ Took(h, x)
    BY <1>0, <1>8 DEF Delete, TypeOK, OwnerInv, HandlerType, Took
  <2>d. DeleterInv' /\ UNCHANGED <<prog, state, registry, finished, events, shutdown>>
    BY <1>8, DeleterStays DEF Delete, OwnerInv
  <2>1. /\ handler' \in [Handler -> HandlerType]
        /\ handler'[h].pc = "none" /\ handler'[h].took = NoExecution
        /\ \A g \in Handler : g # h => handler'[g] = handler[g]
    BY <1>8, Shapes DEF Delete, Goto, TypeOK
  <2>2. /\ execution' \in [Execution -> ExecutionType]
        /\ ~execution'[x].live
        /\ \A y \in Execution : y # x => execution'[y].live = execution[y].live
        /\ \A y \in Execution : /\ execution'[y].pc = execution[y].pc
                                /\ execution'[y].op = execution[y].op
    BY <1>8, <2>0 DEF Delete, TypeOK, ExecutionType
  <2>3. TypeOK'
    BY <2>d, <2>1, <2>2 DEF TypeOK, Started, shutdown
  <2>5. OneOwner'
    <3> SUFFICES ASSUME ~raced PROVE OneOwner'
      BY <2>d DEF OneOwner, shutdown
    <3>1. \A g \in Handler : Took(g, x) => g = h
      BY <2>0 DEF OwnerInv, OneOwner
    <3> QED BY <2>d, <2>0, <2>1, <2>2, <3>1, ExecutionNumbers
               DEF OwnerInv, OneOwner, Pushing, Deleting, Took, shutdown
  <2>6. \A g \in Handler :
          /\ handler'[g].pc = "delete" <=> handler'[g].took # NoExecution
          /\ handler'[g].pc # "none" \/ g \in finished' => Subscribed(g[1])' /\ g[2] <= events'
    BY <2>d, <2>1, <2>2 DEF OwnerInv, Subscribed, Handler
  <2>7. \A y \in Execution : execution'[y].live => Subscribed(y)'
    BY <2>2 DEF OwnerInv, Subscribed
  <2> QED BY <2>d, <2>3, <2>5, <2>6, <2>7 DEF OwnerInv
<1> QED BY <1>2, <1>3, <1>4, <1>5, <1>6, <1>7, <1>8 DEF Handle

\* Events and the synchronizer.
LEMMA OwnerEmit ==
  ASSUME TypeOK, OwnerInv, NEW e \in Element, Emit(e)
  PROVE  TypeOK' /\ OwnerInv'
<1> DEFINE Fired == {x \in Execution : execution[x].live /\ prog.awaited[execution[x].op] = e}
<1>1. /\ events' = events + 1 /\ events < MaxEvents
      /\ handler' = [h \in Handler |->
           IF h[1] \in Fired /\ h[2] = events' THEN HandlerAt("look") ELSE handler[h]]
      /\ execution' = [x \in Execution |->
           IF x \in Fired THEN [execution[x] EXCEPT !.fired = TRUE] ELSE execution[x]]
      /\ UNCHANGED <<prog, state, registry, finished, shutdown>>
  BY DEF Emit
<1>t. events \in Nat /\ events' \in 0 .. MaxEvents /\ \A h \in Handler : h[2] \in Nat
  BY <1>1, BoundsAssumption DEF TypeOK, Handler, Event
<1>2. \A h \in Handler : h[2] = events' => handler[h].pc = "none" /\ handler[h].took = NoExecution
  BY <1>1, <1>t DEF OwnerInv
<1>3. /\ execution' \in [Execution -> ExecutionType]
      /\ \A x \in Execution : /\ execution'[x].pc = execution[x].pc
                              /\ execution'[x].op = execution[x].op
                              /\ execution'[x].live = execution[x].live
  BY <1>1 DEF TypeOK, ExecutionType
<1>4. /\ handler' \in [Handler -> HandlerType]
      /\ \A h \in Handler : /\ handler'[h].took = handler[h].took
                            /\ \/ handler'[h].pc = handler[h].pc
                               \/ /\ h[1] \in Fired /\ h[2] = events'
                                  /\ handler[h].pc = "none" /\ handler'[h].pc = "look"
  BY <1>1, <1>2, Shapes DEF TypeOK
<1>5. TypeOK'
  BY <1>1, <1>t, <1>3, <1>4 DEF TypeOK, Started, shutdown
<1>6. OneOwner'
  BY <1>1, <1>3, <1>4 DEF OwnerInv, OneOwner, Pushing, Deleting, Took, shutdown
<1>7. \A h \in Handler : handler'[h].pc # "none" \/ h \in finished' =>
        Subscribed(h[1])' /\ h[2] <= events'
  <2> SUFFICES ASSUME NEW h \in Handler, handler'[h].pc # "none" \/ h \in finished'
               PROVE  Subscribed(h[1])' /\ h[2] <= events'
    OBVIOUS
  <2>0. h[1] \in Execution
    BY DEF Handler
  <2>1. CASE handler[h].pc # "none" \/ h \in finished
    BY <1>1, <1>t, <1>3, <2>0, <2>1 DEF OwnerInv, Subscribed
  <2>2. CASE h[1] \in Fired /\ h[2] = events'
    BY <1>t, <1>3, <2>0, <2>2 DEF OwnerInv, Subscribed
  <2> QED BY <1>1, <1>4, <2>1, <2>2
<1>8. DeleterInv'
  BY <1>1, DeleterStays DEF OwnerInv
<1> QED BY <1>3, <1>4, <1>5, <1>6, <1>7, <1>8 DEF OwnerInv, Subscribed

LEMMA OwnerSynchronize ==
  ASSUME TypeOK, OwnerInv, NEW h \in Handler, Synchronize(h)
  PROVE  TypeOK' /\ OwnerInv'
<1>d. DeleterInv' /\ UNCHANGED shutdown
  BY DeleterStays DEF OwnerInv, Synchronize, Stop, Activate
<1>1. CASE Stop(h)
  BY <1>d, <1>1 DEF Stop, TypeOK, OwnerInv, OneOwner, Pushing, Deleting, Took, shutdown,
                    Subscribed, Started
<1>2. ASSUME NEW x \in Execution, Activate(h, x) PROVE TypeOK' /\ OwnerInv'
  <2>0. h[1] \in Execution
    BY DEF Handler
  <2>1. Waiting(h) \in Operator
    BY <1>2, <2>0 DEF Activate, TypeOK, OwnerInv, Subscribed, Waiting, Started
  <2>2. prog.next[Waiting(h)] \in Operator
    BY <1>2, <2>1 DEF Activate, FollowNext, TypeOK, ProgramType
  <2>3. /\ execution' \in [Execution -> ExecutionType]
        /\ execution'[x].pc = "clear" /\ execution'[x].live = FALSE
        /\ execution'[x].op \in Operator
        /\ \A y \in Execution : y # x => execution'[y] = execution[y]
        /\ execution[x].pc = "none" /\ ~execution[x].live
    BY <1>2, <2>2, Shapes DEF Activate, NewExecution, Started, TypeOK, OwnerInv, Subscribed
  <2>4. TypeOK'
    BY <1>2, <2>3 DEF Activate, TypeOK, Started, shutdown
  <2>5. OneOwner'
    BY <1>2, <2>3 DEF Activate, OwnerInv, OneOwner, Pushing, Deleting, Took, shutdown
  <2>6. \A g \in Handler : handler[g].pc # "none" \/ g \in finished => g[1] # x
    BY <2>3 DEF OwnerInv, Subscribed
  <2> QED BY <1>d, <1>2, <2>3, <2>4, <2>5, <2>6 DEF Activate, OwnerInv, Subscribed, Handler
<1> QED BY <1>1, <1>2 DEF Synchronize

\* Steps of the shutdown.
LEMMA OwnerShutdown ==
  ASSUME TypeOK, OwnerInv, DeleteAllSysWaiters
  PROVE  TypeOK' /\ OwnerInv'
<1>0. UNCHANGED <<prog, state, handler, finished, events, raced>>
  BY DEF DeleteAllSysWaiters, BeginShutdown, LookEmpty, Front, Pop, DeleteFront
<1>1. ASSUME deleter' \in DeleterType, deleter.pc # "delete", deleter'.pc # "delete",
             UNCHANGED <<execution, registry>>, DeleterInv'
      PROVE  TypeOK' /\ OwnerInv'
  BY <1>0, <1>1 DEF TypeOK, OwnerInv, OneOwner, Pushing, Deleting, Took, Subscribed, Started
<1>2. CASE BeginShutdown
  <2>1. deleter.pc = "off" /\ deleter' = DeleterAt("empty") /\ UNCHANGED <<execution, registry>>
    BY <1>2 DEF BeginShutdown
  <2>2. DeleterInv'
    BY <2>1, Shapes DEF DeleterInv
  <2> QED BY <1>1, <2>1, <2>2, Shapes
<1>3. CASE LookEmpty
  <2>1. \E pc \in {"over", "front"} :
          /\ deleter.pc = "empty" /\ deleter' = DeleterAt(pc)
          /\ pc = "front" => registry # {}
          /\ UNCHANGED <<execution, registry>>
    BY <1>3 DEF LookEmpty
  <2>2. DeleterInv'
    BY <2>1, Shapes DEF DeleterInv
  <2> QED BY <1>1, <2>1, <2>2, Shapes
<1>4. CASE Front
  <2>1. deleter.pc = "front" /\ UNCHANGED <<execution, registry>>
    BY <1>4 DEF Front
  <2>2. ASSUME NEW x \in registry, deleter' = [pc |-> "pop", took |-> x]
        PROVE  TypeOK' /\ OwnerInv'
    <3>1. deleter' \in DeleterType /\ deleter'.pc = "pop" /\ deleter'.took = x
      BY <2>2 DEF TypeOK, DeleterType
    <3>2. DeleterInv'
      BY <2>1, <3>1 DEF DeleterInv, TypeOK
    <3> QED BY <1>1, <2>1, <3>1, <3>2
  <2>3. ASSUME registry = {}, deleter' = DeleterAt("crash")
        PROVE  TypeOK' /\ OwnerInv'
    <3>1. DeleterInv'
      BY <1>0, <2>1, <2>3, Shapes DEF OwnerInv, DeleterInv
    <3> QED BY <1>1, <2>1, <2>3, <3>1, Shapes
  <2> QED BY <1>4, <2>2, <2>3 DEF Front
<1>5. CASE Pop
  <2>1. deleter.pc = "pop" /\ UNCHANGED execution /\ deleter.took \in Execution
    BY <1>5 DEF Pop, OwnerInv, DeleterInv
  <2>2. ASSUME NEW x \in registry, deleter.took \in registry => x = deleter.took,
               registry' = registry \ {x}, deleter' = [deleter EXCEPT !.pc = "delete"]
        PROVE  TypeOK' /\ OwnerInv'
    <3>1. /\ deleter' \in DeleterType
          /\ deleter'.pc = "delete" /\ deleter'.took = deleter.took
      BY <2>2 DEF TypeOK, DeleterType
    <3>2. TypeOK'
      BY <1>0, <2>1, <2>2, <3>1 DEF TypeOK, Started
    <3>3. DeleterInv'
      BY <2>1, <3>1 DEF DeleterInv
    <3>4. OneOwner'
      <4> SUFFICES ASSUME ~raced PROVE OneOwner'
        BY <1>0 DEF OneOwner
      <4>1. x = deleter.took /\ x \in Execution
        BY <2>1, <2>2 DEF OwnerInv, DeleterInv
      <4> QED BY <1>0, <2>1, <2>2, <3>1, <4>1
                 DEF OwnerInv, OneOwner, Pushing, Deleting, Took
    <3> QED BY <1>0, <2>1, <3>2, <3>3, <3>4 DEF OwnerInv, Subscribed
  <2>3. ASSUME registry = {}, deleter' = DeleterAt("crash"), UNCHANGED registry
        PROVE  TypeOK' /\ OwnerInv'
    <3>1. DeleterInv'
      BY <1>0, <2>1, <2>3, Shapes DEF OwnerInv, DeleterInv
    <3> QED BY <1>1, <2>1, <2>3, <3>1, Shapes
  <2> QED BY <1>5, <2>2, <2>3 DEF Pop
<1>6. CASE DeleteFront
  <2> DEFINE x == deleter.took
  <2>1. /\ deleter.pc = "delete" /\ x \in Execution /\ execution[x] \in ExecutionType
        /\ deleter' = DeleterAt("empty") /\ UNCHANGED registry
    BY <1>6 DEF DeleteFront, TypeOK, OwnerInv, DeleterInv
  <2>2. /\ execution' \in [Execution -> ExecutionType]
        /\ ~execution'[x].live
        /\ \A y \in Execution : y # x => execution'[y].live = execution[y].live
        /\ \A y \in Execution : /\ execution'[y].pc = execution[y].pc
                                /\ execution'[y].op = execution[y].op
    BY <1>6, <2>1 DEF DeleteFront, TypeOK, ExecutionType
  <2>3. TypeOK'
    BY <1>0, <2>1, <2>2, Shapes DEF TypeOK, Started
  <2>4. DeleterInv'
    BY <2>1, Shapes DEF DeleterInv
  <2>5. OneOwner'
    <3> SUFFICES ASSUME ~raced PROVE OneOwner'
      BY <1>0 DEF OneOwner
    <3>1. deleter'.pc = "empty"
      BY <2>1, Shapes
    <3>2. /\ ~Pushing(x) /\ x \notin registry /\ \A h \in Handler : ~Took(h, x)
          /\ \A y \in Execution : Deleting(y) => y = x
      BY <2>1 DEF OwnerInv, OneOwner, Deleting
    <3> QED BY <1>0, <2>1, <2>2, <3>1, <3>2
               DEF OwnerInv, OneOwner, Pushing, Deleting, Took
  <2>6. \A h \in Handler : handler'[h].pc # "none" \/ h \in finished' =>
          Subscribed(h[1])' /\ h[2] <= events'
    BY <1>0, <2>2 DEF OwnerInv, Subscribed, Handler
  <2>7. \A y \in Execution : execution'[y].live => Subscribed(y)'
    BY <2>2 DEF OwnerInv, Subscribed
  <2> QED BY <1>0, <2>3, <2>4, <2>5, <2>6, <2>7 DEF OwnerInv
<1> QED BY <1>2, <1>3, <1>4, <1>5, <1>6 DEF DeleteAllSysWaiters

LEMMA OwnerNext == TypeOK /\ OwnerInv /\ [Next]_vars => TypeOK' /\ OwnerInv'
<1> SUFFICES ASSUME TypeOK, OwnerInv, [Next]_vars PROVE TypeOK' /\ OwnerInv'
  OBVIOUS
<1>1. CASE UNCHANGED vars
  BY <1>1 DEF vars, shutdown, TypeOK, OwnerInv, DeleterInv, OneOwner, Pushing, Deleting, Took,
              Subscribed, Started
<1>2. CASE Next
  BY <1>2, OwnerExecute, OwnerHandle, OwnerEmit, OwnerSynchronize,
     OwnerShutdown DEF Next
<1> QED BY <1>1, <1>2

LEMMA OwnerHolds == Spec => [](TypeOK /\ OwnerInv)
BY OwnerInit, OwnerNext, PTL DEF Spec

\* Every reachable state is well formed.
THEOREM TypeCorrect == Spec => []TypeOK
BY OwnerHolds, PTL

\* Every subscription has one owner, whichever extract takes.
THEOREM OwnerCorrect == Spec => []OneOwner
<1>1. OwnerInv => OneOwner
  BY DEF OwnerInv
<1> QED BY <1>1, OwnerHolds, PTL

-----------------------------------------------------------------------------
(* Outcomes, for programs that execute every sys_wait once. *)

\* The operators activated at first are different ones.
LEMMA OutcomeInit == Init => OutcomeInv
<1> SUFFICES ASSUME Init, Once(prog) PROVE OutcomeInv
  BY DEF OutcomeInv
<1>p. prog \in ProgramType /\ Len(prog.start) <= MaxExecutions
  BY ProgramsAssumption DEF Init
<1>1. FinishedWithOutcome
  BY DEF Init, FinishedWithOutcome
<1>2. ASSUME NEW x \in Execution, NEW y \in Execution,
             Started(x), Started(y), execution[x].op = execution[y].op
      PROVE  x = y
  <2>1. \A z \in Execution : Started(z) =>
          z \in DOMAIN prog.start /\ execution[z].op = prog.start[z]
    BY <1>p, Shapes DEF Init, Started, ProgramType, Execution
  <2> QED BY <1>2, <2>1 DEF Once
<1>3. \A h \in Handler : handler[h].pc = "none"
  BY Shapes DEF Init
<1> QED BY <1>1, <1>2, <1>3 DEF OutcomeInv

\* A handler's operator is past its ClearExecutionState, and has no other execution.
LEMMA OutcomeNext == TypeOK /\ OwnerInv /\ OutcomeInv /\ [Next]_vars => OutcomeInv'
<1> SUFFICES ASSUME TypeOK, OwnerInv, OutcomeInv, [Next]_vars, Once(prog)'
             PROVE  OutcomeInv'
  BY DEF OutcomeInv
<1>p. prog' = prog /\ Once(prog)
  BY DEF Next, vars, Emit, Execute, ClearExecutionState, Subscribe, Reject, Push,
         Handle, Drop, LookSuccessful, MarkSuccessful, LookFinished, Finish, Extract, Delete,
         Synchronize, Stop, Activate, DeleteAllSysWaiters, BeginShutdown, LookEmpty, Front,
         Pop, DeleteFront
<1>0. /\ \A o \in Operator : "finished" \in state[o] =>
           state[o] \cap {"success", "error"} # {}
      /\ \A x, y \in Execution :
           Started(x) /\ Started(y) /\ execution[x].op = execution[y].op => x = y
      /\ \A h \in Handler : handler[h].pc \in {"lookFinished", "finish"} =>
           "success" \in state[Waiting(h)]
  BY <1>p DEF OutcomeInv, FinishedWithOutcome
\* What a step has to keep.
<1> DEFINE Kept ==
      /\ \A o \in Operator : "finished" \in state'[o] =>
           state'[o] \cap {"success", "error"} # {}
      /\ \A x \in Execution : /\ execution'[x].pc = "none" <=> execution[x].pc = "none"
                              /\ execution'[x].op = execution[x].op
      /\ \A h \in Handler : handler'[h].pc \in {"lookFinished", "finish"} =>
           "success" \in state'[Waiting(h)]
<1>h. \A h \in Handler : h[1] \in Execution /\ (handler[h].pc # "none" \/ h \in finished =>
         Subscribed(h[1]) /\ Started(h[1]) /\ Waiting(h) \in Operator)
  <2> SUFFICES ASSUME NEW h \in Handler
               PROVE  h[1] \in Execution /\ (handler[h].pc # "none" \/ h \in finished =>
                        Subscribed(h[1]) /\ Started(h[1]) /\ Waiting(h) \in Operator)
    OBVIOUS
  <2>1. h[1] \in Execution
    BY DEF Handler
  <2> QED BY <2>1 DEF TypeOK, OwnerInv, Subscribed, Started, Waiting
<1>1. ASSUME UNCHANGED vars PROVE Kept
  BY <1>0, <1>1 DEF vars
<1>2. ASSUME NEW e \in Element, Emit(e) PROVE Kept
  BY <1>0, <1>2, Shapes DEF Emit, TypeOK, ExecutionType
<1>3. ASSUME NEW x \in Execution, Execute(x) PROVE Kept
  <2>0. /\ execution[x] \in ExecutionType /\ execution[x].pc # "none"
        /\ execution[x].op \in Operator /\ Started(x)
    BY <1>3 DEF TypeOK, Execute, ClearExecutionState, Subscribe, Reject, Push, Started
  <2>1. \A y \in Execution : /\ execution'[y].pc = "none" <=> execution[y].pc = "none"
                             /\ execution'[y].op = execution[y].op
    BY <1>3, <2>0 DEF TypeOK, ExecutionType, Execute, ClearExecutionState, Subscribe, Reject, Push
  <2>2. CASE ClearExecutionState(x) \/ Reject(x)
    <3>1. execution[x].pc \in {"clear", "subscribe"} /\ UNCHANGED handler
      BY <2>2 DEF ClearExecutionState, Reject
    <3>2. \A h \in Handler : handler[h].pc # "none" => Waiting(h) # execution[x].op
      BY <1>0, <1>h, <2>0, <3>1 DEF Subscribed, Waiting
    <3>3. /\ \A o \in Operator : o # execution[x].op => state'[o] = state[o]
          /\ \/ state'[execution[x].op] = {}
             \/ state'[execution[x].op] = {"error", "finished"}
      BY <2>0, <2>2 DEF ClearExecutionState, Reject, TypeOK
    <3>4. \A o \in Operator : "finished" \in state'[o] =>
            state'[o] \cap {"success", "error"} # {}
      BY <1>0, <3>3
    <3>5. \A h \in Handler : handler'[h].pc \in {"lookFinished", "finish"} =>
            "success" \in state'[Waiting(h)]
      BY <1>0, <1>h, <3>1, <3>2, <3>3
    <3> QED BY <2>1, <3>4, <3>5
  <2>3. CASE Subscribe(x) \/ Push(x)
    BY <1>0, <2>1, <2>3 DEF Subscribe, Push
  <2> QED BY <1>3, <2>2, <2>3 DEF Execute
<1>4. ASSUME NEW h \in Handler, Handle(h) PROVE Kept
  <2>0. handler[h].pc # "none" /\ Waiting(h) \in Operator
    BY <1>4, <1>h DEF Handle, Drop, LookSuccessful, MarkSuccessful, LookFinished, Finish,
                      Extract, Delete
  <2>1. \A y \in Execution : /\ execution'[y].pc = "none" <=> execution[y].pc = "none"
                             /\ execution'[y].op = execution[y].op
    BY <1>4 DEF TypeOK, ExecutionType, Handle, Drop, LookSuccessful, MarkSuccessful,
                LookFinished, Finish, Extract, Delete
  <2>2. CASE MarkSuccessful(h)
    <3>1. state' = [state EXCEPT ![Waiting(h)] = state[Waiting(h)] \cup {"success"}]
      BY <2>2 DEF MarkSuccessful
    <3>2. \A o \in Operator : state[o] \subseteq state'[o]
      BY <3>1 DEF TypeOK
    <3>3. "success" \in state'[Waiting(h)]
      BY <2>0, <3>1 DEF TypeOK
    <3>4. \A g \in Handler : g # h => handler'[g] = handler[g]
      BY <2>2 DEF MarkSuccessful, Goto, TypeOK
    <3>5. \A o \in Operator : "finished" \in state'[o] =>
            state'[o] \cap {"success", "error"} # {}
      BY <1>0, <2>0, <3>1, <3>2, <3>3 DEF TypeOK
    <3>6. \A g \in Handler : handler'[g].pc \in {"lookFinished", "finish"} =>
            "success" \in state'[Waiting(g)]
      BY <1>0, <1>h, <3>2, <3>3, <3>4
    <3> QED BY <2>1, <3>5, <3>6
  <2>3. CASE Finish(h)
    <3>1. state' = [state EXCEPT ![Waiting(h)] = state[Waiting(h)] \cup {"finished"}]
      BY <2>3 DEF Finish
    <3>2. \A o \in Operator : state[o] \subseteq state'[o]
      BY <3>1 DEF TypeOK
    <3>3. "success" \in state[Waiting(h)]
      BY <1>0, <2>3 DEF Finish
    <3>4. /\ \A g \in Handler : g # h => handler'[g] = handler[g]
          /\ handler'[h].pc = "extract"
      BY <2>3, Shapes DEF Finish, Goto, TypeOK
    <3>5. \A o \in Operator : "finished" \in state'[o] =>
            state'[o] \cap {"success", "error"} # {}
      BY <1>0, <3>1, <3>2, <3>3 DEF TypeOK
    <3>6. \A g \in Handler : handler'[g].pc \in {"lookFinished", "finish"} =>
            "success" \in state'[Waiting(g)]
      BY <1>0, <1>h, <3>2, <3>4
    <3> QED BY <2>1, <3>5, <3>6
  <2>4. CASE LookFinished(h)
    <3>1. /\ \A g \in Handler : g # h => handler'[g] = handler[g]
          /\ state' = state /\ handler[h].pc = "lookFinished"
      BY <2>4 DEF LookFinished, Goto, TypeOK
    <3>2. \A g \in Handler : handler'[g].pc \in {"lookFinished", "finish"} =>
            handler[g].pc \in {"lookFinished", "finish"}
      BY <3>1
    <3> QED BY <1>0, <2>1, <3>1, <3>2
  <2>5. CASE Drop(h) \/ LookSuccessful(h) \/ Extract(h) \/ Delete(h)
    <3>1. /\ \A g \in Handler : g # h => handler'[g] = handler[g]
          /\ state' = state /\ handler'[h].pc \in {"none", "mark", "delete"}
      BY <2>5, Shapes DEF Drop, LookSuccessful, Extract, Delete, Goto, TypeOK
    <3> QED BY <1>0, <2>1, <3>1
  <2> QED BY <1>4, <2>2, <2>3, <2>4, <2>5 DEF Handle
<1>5. ASSUME NEW h \in Handler, Synchronize(h) PROVE Kept
  <2>1. \A x \in Execution : ~Activate(h, x)
    BY <1>p, <1>h DEF Activate, FollowNext, Once
  <2>2. Stop(h)
    BY <1>5, <2>1 DEF Synchronize
  <2> QED BY <1>0, <2>2 DEF Stop
<1>6. ASSUME DeleteAllSysWaiters PROVE Kept
  <2>1. /\ UNCHANGED <<state, handler>>
        /\ \A y \in Execution : /\ execution'[y].pc = execution[y].pc
                                /\ execution'[y].op = execution[y].op
    BY <1>6 DEF TypeOK, ExecutionType, DeleteAllSysWaiters, BeginShutdown, LookEmpty, Front, Pop,
                DeleteFront
  <2> QED BY <1>0, <2>1
<1>7. Kept
  BY <1>1, <1>2, <1>3, <1>4, <1>5, <1>6 DEF Next
<1> HIDE DEF Kept
<1>8. /\ FinishedWithOutcome'
      /\ \A x \in Execution : Started(x)' => Started(x)
      /\ \A h \in Handler : h[1] \in Execution /\ Waiting(h)' = Waiting(h)
  BY <1>p, <1>7, <1>h DEF Kept, FinishedWithOutcome, Started, Waiting
<1> QED BY <1>0, <1>7, <1>8 DEF Kept, OutcomeInv

\* Once in a program, a wait that is over has an outcome.
THEOREM OutcomeCorrect == Spec => []FinishedWithOutcome
<1>1. TypeOK /\ OwnerInv /\ OutcomeInv => FinishedWithOutcome
  BY DEF OutcomeInv, FinishedWithOutcome
<1> QED BY <1>1, OwnerInit, OwnerNext, OutcomeInit, OutcomeNext, PTL DEF Spec
=============================================================================
