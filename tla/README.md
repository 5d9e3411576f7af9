# A TLA+ model of the scp-machine

The scp-machine interprets programs of the graph language SCP inside an ostis
system. A program, its processes and everything they compute are elements of one
shared store, sc-memory. There is no interpreter loop: fifteen *agents*, each
subscribed to an event of sc-memory, pass a program along by adding and removing
arcs, and every reaction runs on a thread of sc-memory's pool. This directory models
that machinery in TLA+, checks it with TLC on small instances and proves its central
invariants with TLAPS for all of them.

All source paths below are relative to `src/scp/src/` unless they start with `docs/`.

## 1. The system

### 1.1 Parts

| part | state it keeps | operations | hard because |
|---|---|---|---|
| Process interpreter, `scpProcessInterpreter.cpp` | the request's action, the process it generates | check the arguments, generate the process, activate its first operator, wait, finish the request | the waiter is created after the first operator was activated; it waits for a limited time and does not look at the result |
| Operator interpreters, `scpOperatorInterpreter.cpp` and nine subclasses; `scpOperator.cpp` | arcs from `active_action`, `action_finished` and the three outcome classes to the operator | parse, execute, clear the state, mark the outcome, announce the end | ending an operator is several sc-memory calls; an operator may be erased, or executed again, between them |
| Synchronizer, `scpProgramExecutionSyncronizer.cpp` | none | read the outcome of a finished operator, activate the operators it leads to | the outcome is read after the event, arcs are iterated while others change them |
| Process destroyer, `scpProcessDestroyer.cpp` | none | erase operators, decomposition and process when the process is finished | other branches still run; two returns set two destroyers to work |
| `call`, `waitReturn`, `process_control_operators/` | a request in a variable | request a program; wait for a request | the request is initiated before the variable gets it; looking and waiting are two steps |
| Processor of finished actions, `scpFinishedInterpretationActionProcessor.cpp` | none | end the `waitReturn` operators of a finished request | finds operators through variables that may have changed |
| `sys_wait`, `scpWaitEvent.cpp`, `concurrent_queue.hpp` | subscriptions and their registry | subscribe, register; end the operator on an event, unregister | event before registration, two events at once, references to freed memory |
| Agent activation, `scpAgentEvent.cpp`, `scpAgentProcessor.cpp`, `scp.cpp` | subscriptions of scp-agents | subscribe and unsubscribe an agent, all of them at start and stop | activation and deactivation are handled out of order |
| Event handler, `scpHandlingEventThatInitiatesAgentSCPProgram.cpp` | none | turn an event into a request, wait for it, report the agent's result | the time left; the result of an action that may not be finished |
| Operands and parsing, `scpOperand.cpp`, `scpOperatorStr.cpp`, `scpOperatorSet.cpp`, `scpParameter.cpp` | variable values, as arcs | resolve roles, read, reset and assign values | roles are resolved in the order arcs are found; operands are reset one by one |
| Operators on data: gen, search, erase, if, variable, math, string, print | none | one each | aliasing of operands, iteration with erasure, number formats |

### 1.2 How they interact

* By events. An arc from `active_action` to an operator makes the interpreter for its
  type execute it; an arc from `action_finished` to an operator makes the synchronizer
  run, to a process the destroyer and the interpreter's waiter, to a request the
  processor of finished actions. The same arc class announces all three, so each agent
  first checks what the element is.
* By state arcs, read later than they were written: the synchronizer reads the outcome,
  the processor reads `active_action`, `sys_wait` handlers read both end arcs.
* By variables: `call` assigns, `waitReturn` reads.
* By calls: `return` finishes the process, the processor of finished actions ends other
  operators through `SCPOperator::FinishExecutionSuccessfully`.

Nothing is locked across sc-memory calls. A thread may stop between any two of them, and
the events of one thread are handled by others.

### 1.3 What makes the parts correct

* Process: control goes from an operator only to one its outcome leads to; a program
  without forks has one reaction in flight; handlers that outlive a process do no harm;
  a process that returns is erased whole, and never before; the request is answered.
* Call and wait: no waiter ends before its action; none waits for ever for an action that
  is finished.
* `sys_wait`: no event is missed; each subscription is deleted exactly once; an ended
  wait has an outcome.
* Agents: when nothing is in flight, exactly the implementations of active agents are
  subscribed, unless two changes overlapped; each event is reported, and what is reported
  is what the program left.
* Operands: a parsed operator has the operands its `Execute` dereferences; the result does
  not depend on the order sc-memory yields arcs in.
* Data: an operator computes what one definition says for all the cases of its `switch`, for
  every aliasing of its operands, and ends in one way.

## 2. The modules

| module | models | composition |
|---|---|---|
| `ProgramFlow` | abstract: how control passes in a program that never forks | – |
| `ScpProcess` | interpreter, operator interpreters, synchronizer, destroyer and `return`, for one process | implements `ProgramFlow` |
| `ScpProcess_proofs` | theorems about `ScpProcess`, its programs that never fork and those that do | extends it |
| `CallReturn` | `call`, `waitReturn`, the processor of finished actions; called programs are abstracted to "finished some time later", which `ScpProcess`'s `RequestAnswered` justifies | – |
| `CallReturn_proofs` | theorems about `CallReturn` | extends it |
| `SysWait` | `sys_wait`, `SCPWaitEvent`, `concurrent_deque`, its emptying at shutdown | – |
| `SysWait_proofs` | theorems about `SysWait` | extends it |
| `Agents` | start and stop of the module, activation and deactivation of agents, the handler of an agent's events; the interpretation of its program is abstracted to "answered, or given up after the default time" | – |
| `Agents_proofs` | theorems about `Agents` | extends it |
| `Operands` | operands and the parsers of the seven operator structures | – |
| `Operands_proofs` | theorems about `Operands` | extends it |
| `Elements` | external: typed elements, connectors and iterators of sc-memory | – |
| `ElementOperators` | gen, search, erase, if, variable and print operators; reset and assignment of operands | extends `Elements` |
| `TemplateOperators` | `sys_gen`, `sys_search` | extends `ElementOperators` |
| `ElementSteps_proofs` | what each element operator does in one execution, as lemmas | extends `ElementOperators` |
| `ElementOperators_proofs` | what the collecting searches and the template operators do; the theorems about all element operators | extends `ElementSteps_proofs`, `TemplateOperators` |
| `NumberOperators` | contents of links, mathematical operators, comparisons of numbers | extends `ElementOperators` |
| `StringOperators` | operators on texts, answers as sets of links | extends `NumberOperators` |
| `StringOperators_proofs` | theorems about the operators on numbers and texts | extends `StringOperators`, `ElementSteps_proofs` |
| `MC…` | the instances checked | extend the modules above |

Each module takes the programs it considers as a CONSTANT `Programs`; a behaviour picks
one at the start and keeps it. Definitions ending in `_Something` after the name of an
action, marked *Mutant*, are faulty variants of that action, used to show that a
property can fail; no specification refers to them.

### 2.1 ScpProcess

A `Job` is one reaction of an agent, from the queued event to the end of its handler; it
holds the program counter of the handler, its operator and what it still has to do. One
step of a job is one sc-memory call that another agent can observe. What corresponds:

| TLA+ | code |
|---|---|
| `state[o]` | the classes with an arc to operator o |
| `alive`, `decomposition`, `process` | which of the generated elements exist, and whether `action_finished` has the process |
| `request` | how far `ASCPProcessInterpreter::DoProgram` has come |
| `Refuse`, `Generate`, `StartFirst`, `FinishEmpty`, `Subscribe`, `Wake`, `Timeout` | `DoProgram` and the functions it calls |
| `Ignore`, `Execute`, `ExecuteMalformedCall`, `FindProcess`, `Return` | `ASCPOperatorInterpreter::DoProgram` with the operator's `Parse` and `Execute` |
| `ClearExecutionState`, `MarkOutcome`, `FinishExecution` | `SCPOperator::FinishExecution…` |
| `CheckState`, `Activate`, `StopActivating` | the synchronizer's `DoProgram`, `InitOperatorsByRelation` |
| `BeginDestroy`, `EraseOperator`, `EraseDecomposition`, `EraseProcess` | the destroyer's `DoProgram` |
| `Abandon` | an exception: an arc to an erased element cannot be generated |

A plain operator may end with any outcome its program lists; what it computes is
abstracted. A `call` whose operands do not parse announces its error twice, because
`SCPOperatorElStr3::Parse` and `SCPOperatorCall::Parse` both do. `ClearExecutionState` is
one step although the code collects arcs first and erases them afterwards; only an
overlapping execution of the same operator could tell.

### 2.2 CallReturn

`value[v]` is the set of elements variable v has temporary arcs to. The steps of `call`
are those of `SCPOperatorCall::Execute` in its order: reset the variable, generate and
initiate the request, only then assign it. `waitReturn` reads its operand when it is
parsed and looks at the action afterwards. The processor goes through the operators that
have the action as a constant, then through each variable that holds it; it checks that
an operator is active when it comes to it, and leaves the loop after the first.
An operator's end is two steps, clearing its state and announcing the end; marking the
outcome between them is left out, since nothing here reads it.

### 2.3 SysWait

`execution[x]` is one execution of a `sys_wait` and the subscription it made,
`handler[<<x, n>>]` the handler of that subscription for event n. `extract` compares the
operator's address with a reference into an operator object that
`ASCPOperatorInterpreter` has destroyed by then (`scpWaitEvent.hpp:20`): the comparison
may give anything, so `Extract` takes any registered subscription, or none. Whether
sc-memory still runs a handler queued for a subscription deleted in the meantime is
outside this repository: `Drop` may happen and need not.

At shutdown `DeleteAllSysWaiters` empties the registry (`BeginShutdown`, `LookEmpty`,
`Front`, `Pop`, `DeleteFront`). `empty`, `front` and `pop` lock the registry one at a time,
and handlers go on extracting from it between them: the first of an empty registry is looked
at or removed (`crash`: undefined), or what is popped is not what was looked at. The order
of the registry is left open, so any element may be the first. The history variable `raced`
becomes true when a handler takes what the deleter has counted on; `OneOwner` is stated until
then, and the model shows that nothing else makes an owner wrong.

### 2.4 Agents

`phase` is the module's, `scan` what `Initialize` or `Shutdown` has yet to come to in its
iteration over `active_sc_agent` (which begins with the newest arc, so that arcs generated
meanwhile are not met and those erased are), `task[n]` the reaction of the activator or the
deactivator to the n-th change, with the implementations it has yet to handle. Threads take
the steps of tasks in any order. sc-memory rejects a subscription of an implementation
without a usable specification, or twice, with an exception that the code catches; whether
the activator still listens while the module starts or stops is left open.

An event of a subscribed implementation makes a handler: `Generate` finds the program and its
agent (the last tuple of programs that fits wins, because the `break` at
`scpHandlingEventThatInitiatesAgentSCPProgram.cpp:111` leaves the inner loop only), `Ask`
computes the time left on a clock, `Initiate` and `Wait` interpret the program, `Read` reads
the marks of the agent's own action one after the other. The program marks that action step
by step (`MarkAction`), before or after the wait ends.

### 2.5 Operands

A behaviour picks an operator structure, that is, the roles of each arc, and reads arcs and
the roles of each in any order; the role relations and positions are those of `SCPOperand`'s
constructor and of `SCPOperatorElStr1` to `SCPOperatorSetStr5`. `crash` stands for the null
dereference in `SCPOperatorSetStr5::Parse` (`scpOperatorSet.cpp:170`).

### 2.6 Operators on data

An execution of an operator is one function from the world it finds (elements, connectors,
values of variables) to the set of worlds it may leave, translated case by case from the
`switch` of its `Execute`. Nothing else runs in these modules: interleavings of operators
are the matter of `ScpProcess`, and operators of different processes that share elements
are not modelled. More than one outcome comes from iterators, which yield what they find in
any order. The properties compare those worlds with one definition per family: the
constructions that fit the fixed operands, how often each element is put into each set, the
elements erased with all connectors at them, and so on. They are relations between the world an
execution begins with (`before`) and the one it leaves. Erasing takes with an element the least
set of connectors that hang on it (`Hangs`); erasing all constructions takes them in an order,
passing those that have lost an element by then (`ErasedInOrder`).

The template of `sys_gen` and `sys_search`, and what sc-memory answers to it, are data of the
job; modelled is what the operators do with their parameters and with the answers.

A number's numeral is one piece of its content, a character of a text another. `int` has the
width of the constant `Number`; out of it, a conversion throws and an operation wraps as the
code's types do. What floating point functions compute is any of `Reals`.

Some of what the code does there is odd, without a text in the repository to contradict it:
`SCPOperatorSearchSetStr5` reads elements of a five-element construction from an iterator of
three when only the fifth operand is fixed (`:256`); `sys_gen` puts an empty node into its
result pairs (`SCPOperatorSysGen.cpp:228`); set operands are not reset; `eraseElStr3` with
the second operand fixed fits no case; `contPow` of `uint` multiplies; `ifEq` of an integer and a
real without tags never finishes; `stringReplace` finishes twice. The models do what the code
does, and the properties except what they must by name.

## 3. What is checked

All runs explore every reachable state of their instance. `CHECK_DEADLOCK` is off
everywhere because a process that is over, or whose events have all been handled, stops.

| run | programs | shows |
|---|---|---|
| `process_sequential` | all programs of two operators that never fork, every outcome, with refused and empty ones | `TypeOK`, `SingleReaction`, `SynchronizedOutcome`, `HandledOperatorsLive`, `ActiveMeansExecuting`, `ErasedOnlyWhenFinished`, and the refinement `ImplementsFlow` |
| `process_forks` | six programs of four operators: fork, two returns, join, malformed call, then-and-goto, diamond | `OneReactionPerOperator`, `BranchOutcome`, `ErasedLeavesNothing` |
| `process_ends` | the four of them whose branches return without meeting again | liveness: `RequestAnswered`, `ProcessErased` |
| `process_reported` | the same | *violated*: `ReportedWhenFinished` |
| `call_return` | two branches that call and wait; waiters beside their call; a constant operand | `ReturnAfterAction`, `EndedByTwoAtMost`, liveness `NoLostReturn`, `TypeOK` |
| `call_shared` | two waiters on one variable | *violated*: `AllWaitersReturn` |
| `call_loop` | call and wait in a loop | *violated*: `OnlyItsWaitersReturn` |
| `sys_wait` | one wait after another, two side by side on one element or two, a loop; a shutdown at any time during the two on two elements | `OneOwner`, `FinishedWithOutcome`, liveness `NoLostEvent`, `TypeOK` |
| `agents` | two agents that share an implementation, six implementations; two changes, start and stop, or one event and its program | `ReportOutcome`, liveness `Settles`, `TypeOK` |
| `operands` | operators of each structure: well formed, an operand missing, doubled, without order, with roles that exclude each other; every order of arcs and roles | `ParsedComplete`, `OrderFree`, `TypeOK` |
| `elements` | every gen, search, erase, if, variable, print and template operator; choices of fixed and assigned operands, marks, sets, types, aliases; four memories, three valuations | `SearchOutcome`, `CollectOutcome`, `EraseOutcome`, `EraseSetOutcome`, `GenOutcome`, `RejectOutcome`, `VariableOutcome`, `TemplateOutcome`, `TypeOK` |
| `links` | every mathematical and string operator on pairs of contents; pairs of operators | `ArithmeticOutcome`, `EndOutcome`, `AnswerOutcome`, `StringOutcome`, `LinkTypeOK` |

The three violated properties say what the agents' documentation promises:

* `docs/agents/ASCPProcessInterpreter.tex:9`: the interpreter waits until the process is
  over. It waits for a limited time and then reports success (`scpProcessInterpreter.cpp:55`).
* `docs/agents/ASCPFinishedInterpretationActionProcessor.tex:7`: all active `waitReturn`
  operators that waited for the action are ended. The loops break after the first one
  (`:43`, `:60`), and a second waiter on the same variable that had already looked stays
  active for ever.
* The same line: operators that waited *for the finished action*. The variable is read
  before the operator is found active (`:47`, `:54`–`:57`); in a loop it may wait for the
  next request by then, and is ended all the same.

### 3.1 Bounds

* Two operators, exhaustively, are enough for sequential programs: a self-loop, a loop of
  two, a step and an end are all there, for all outcomes; the theorems of section 4 cover
  every number. `MaxJobs = 2` suffices where `SingleReaction` holds, one job being replaced
  by the next in one step.
* Forking programs are chosen by hand, one for each way that two reactions can concern the
  same operator or the same process; `MaxJobs = 4` lets a branch, its synchronizer and two
  destroyers be in flight together. `NewJob` takes the lowest free slot, so slots do not
  multiply states; a full pool delays an event, as a busy pool does. An operator whose two
  executions overlap (join) clears the state its other execution relies on:
  `BranchOutcome` and `OneReactionPerOperator` are therefore stated of programs whose
  branches do not meet (`Branching`), `ErasedLeavesNothing` of all.
* Two calls, waiters, variables and requests: an operator can be ended by its interpreter and
  the processor only, so two waiters show everything that waiters can do to one another.
* Two events and three executions in `sys_wait`: two handlers of one subscription, or one of
  each of two, race. `OneOwner` and `FinishedWithOutcome` are proved for every number.
  With more events a wait that follows another can be executed twice at once, because the
  two handlers of the first may both finish it; `FinishedWithOutcome` and `NoLostEvent` are
  stated of programs in which no `sys_wait` follows another (`Once`). The shutdown is checked with
  one program (`ShutDown`), with two subscriptions and their handlers: the deleter counts on one
  subscription at a time. The proof has no such bound.
* Agents: two agents are enough for one implementation that belongs to both; two changes of one
  overlap, and a third would only repeat that. Changes and events are budgeted separately
  (`Budgets`), because they share no state but `subscribed`. Waiting times 0 (none), 1 and 2 and
  the default 2 put the customer's time before, at and after the default; a handler may be late
  by up to `MaxDelay = 2`, so that the time left is positive, zero and overdrawn; `MaxTime = 4` is
  the last moment at which any of these waits can end. `ReportOutcome` is proved for every number.
* Operands: one odd operand beside the regular ones, in every order, meets every check of a
  parser; the theorem covers any number of arcs.
* Elements: the memories have two constructions (so that an iterator has a choice), arcs between
  arcs, arcs that meet themselves, and nothing that fits; every outcome is proved for every memory.
  Every subset of operands is fixed for sizes up to three, the eight cases of nodes for five.
* Numbers: `int` from -8 to 7 and numerals from -10 to 10: some do not fit, sums and products
  overflow. The theorems hold for every `int` and every text. A pair of operators is enough for one that reads what another answered.

### 3.2 Fairness

Weak fairness of each reaction: a queued event is taken by a thread and its handler runs on.
Nothing in the code blocks a handler for ever: the only wait is the process interpreter's,
which has a time limit (`Timeout` is part of the fair action `Interpreter`). `CallReturn`
assumes moreover that an initiated request is finished, which is `RequestAnswered`; events
from outside (`Emit`, `RequestFromOutside`) are never assumed to come. `Agents` assumes weak
fairness of `Progress`: the thread that starts or stops the module, those of the pool and the
clock do not all stand still while one of them has something to do. Programs of agents may
never return: the wait for them has a limit. The shutdown of `SysWait` is not fair; once it has
begun, `NoLostEvent` promises nothing.

## 4. What is proved

`tlapm` checks every leaf; all constants are arbitrary, under the named assumptions in the
modules (the names are distinct, the programs well formed, the bounds natural numbers).

* `ScpProcess_proofs`
  * `TypeCorrect`: `TypeOK`.
  * `ErasureCorrect`, `ErasureOrdered`: for **every** program, no handler leaves an arc in an
    erased process, and only a finished process loses operators. `ErasedLeavesNothing` alone is
    not inductive: a destroyer about to erase the process must know the operators gone. The
    inductive `ErasureInv` adds where destroyers can be at all, and what exists before the first
    operator starts.
  * `SequentialReaction`, `SequentialOutcome`, `SequentialLiveness`, `SequentialActive`: for every
    program that never forks. The inductive `ControlInv` says that the one reaction in flight has
    left exactly the arcs of its operator that its program counter implies (`Handled`): empty
    after clearing, the outcome before the announcement, both while the synchronizer looks.
    From this the synchronizer cannot come to the check for `action_finished`, and what it
    follows is the outcome it was told of.
  * `Refinement`: such a process implements `ProgramFlow`. The mapping reads control off the one
    reaction (`At`, `Phase`); each step of an agent is one step of `ProgramFlow` or a stutter.
  * `BranchReaction`, `BranchFollowed`: for every program whose branches never meet (`Branching`:
    an operator is the target of one arc at most, and no arc leads to the first), with any number
    of branches, reactions and destroyers. Neither is inductive: that an operator has one reaction
    now says nothing of a second activation later. The inductive `BranchInv` says that there is a
    set of operators activated so far, which the code keeps nowhere (`Entered`): every one but the
    first has its arc from another one, the reactions in flight are of different ones, and an arc
    of an operator whose reaction has not followed it yet leads outside the set. Hence
    following an arc activates an operator for the first time. The rest of it says of each
    reaction what its place implies of the state of its operator, unless the operator has been
    erased (`Along`), which empties the state and cannot make a synchronizer follow another
    relation than that of its event.
* `CallReturn_proofs`
  * `TypeCorrect`: `TypeOK`, for every program.
  * `ReturnsAfterAction`, `EndedByTwo`: in a program that activates each operator once (`Straight`),
    a `waitReturn` succeeds only after its own action, and at most two agents end it. The inductive
    `StraightInv` says that there are a set of operators activated and a set of those that have
    ended, which the code keeps nowhere, with every operator to be activated in neither and every
    executing one in the first only (`Once`). Hence a variable has no value but that of its one
    call (`Given`, `Single`), a waiter is looked at or ended for the action it awaits (`Awaits`),
    and an action is processed once (`OneScan`).
* `SysWait_proofs`
  * `TypeCorrect`, `OwnerCorrect`: every live subscription is held by its interpreter, by the
    registry, by one handler or by the shutdown, for every program and number of events, although
    `extract` may pick the wrong one, and until `raced`. `OwnerInv` adds that handlers exist only
    for subscriptions made and events that happened, and (`DeleterInv`) that what the shutdown
    has looked at is still registered.
  * `OutcomeCorrect`: handlers that end one wait together leave it with an outcome. `OutcomeInv`
    adds that a handler about to announce the end finds the outcome marked, which holds because
    the operator has no other execution that could clear it.

* `Operands_proofs`
  * `TypeCorrect`, `ParsingCorrect`: whatever the arcs, roles and their order, a parser that
    accepts leaves every operand `Execute` dereferences, set operands stand over operands to be
    assigned, and only the five-element set structure can meet a missing operand. The
    inductive invariant adds `Placed`: what stands at a position has the order, or the set order,
    of that position, and is not the operand being read.
  * `ParsingOrderFree`: what parsing comes to is a function of the roles alone, unless an operand
    has roles that exclude each other. The inductive `OrderInv` says that an operand is at each
    moment what the roles read so far say (`ReadSoFar`), that operands read stand where their order
    or set order puts them (`AllPut`), and that a parser that has ended in error had a reason
    that is there in every order (`EndedRightly`).
* `ElementSteps_proofs`, `ElementOperators_proofs`: for every memory that is sound
  (`WorldsAssumption`) and every operator with operands as `Operands` leaves them
  (`JobsAssumption`), fixed or assigned, marked, aliased, with sets or constant, of any types.
  * `WorldsTyped`: `TypeOK`, of `TemplateSpec`, that is, of all element operators.
  * `SearchCorrect`, `CollectCorrect`, `EraseCorrect`, `EraseSetCorrect`, `GenCorrect`,
    `RejectCorrect`, `VariableCorrect`, `TemplatesCorrect`: the eight outcomes, of `TemplateSpec`,
    which the run checks. The last one for every finite set of results over any finite numbers of
    variables (`TemplatesAssumption`: three operands and maybe a fourth, as `Parse` of both
    operators sees to, and results of elements that there are).

  No outcome is inductive, as none says what an operator finds. The inductive `ElementInv` says
  that a world is as it was before parsing, or that execution began in one that is `Ready` (sound,
  with operands that exist and as many as the operator has) and has not run, or has rejected it
  (`Rejected`), or has ended properly having done what its family does (`Does`). That one
  execution leads from `Ready` to this is shown case by case of the `switch` (`RunsEnd`), from
  lemmas on the steps executions are made of: resetting, giving a value, making a node or a
  connector. Three arguments are not routine. A collecting search makes each connector for one
  construction at the place of one set operand, so that connectors from a set to an element and
  constructions due for them are counted by a bijection, also when two operands share a
  set (`CollectMore`, `Gathered`). What hangs on a set of elements is the least closed set of
  connectors, so that erasing the few elements the code picks takes as much as erasing all that are
  marked (`Enough`). And a construction passed by in an erasure of all had lost an element
  before its turn, in whatever order they come (`ErasedInOrder`).

  `sys_gen` and `sys_search` are in `TemplateInv` with what they begin with (`TemplateReady`) and end
  with (`TemplateEnds`). Between the two they fold over the variables of a result and over the results,
  in an order sc-memory chooses. Induction over a fold is made first-order: the fold is a function
  on the subsets of its set (`IsFold`; there is one, `FoldExists`), and a family of subsets that holds
  the empty one, and each other one that it holds less one element, holds the whole set
  (`ByElements`, from the least size of a subset that is missing). What holds so far is
  `GeneratedSoFar`: the members of the set of operand 4 that are not old are as many as the variables
  without a replacement; and `FoundSoFar`: each variable met has one node of its own, whose members are
  just what the results so far say of it. Each rests on three steps that only add
  (`NodeGrows`, `OnceGrows`, `PairGrows`), never a connector twice between the same ends (`Grown`).
* `StringOperators_proofs`: through any number of mathematical and string operators, one after
  another, each on any contents, for every width of `int` (`NumberAssumption`, `TextsAssumption`:
  numerals, and what stands for reals, are texts; `NumeralsAssumption`: different numbers have
  different numerals, which are no tags; `RankAssumption`: different pieces compare
  differently), every sound memory whose links, and only they,
  have contents (`LinksAssumption`) and operators with as many operands as their structure takes
  (`LinkJobsAssumption`).
  * `LinksTyped`: `LinkTypeOK`. However an operator ends (an exception between two sc-memory calls,
    an operator left unfinished, the end of the machine), contents stay texts of links, elements
    are numbered without gaps, and arcs and variables lead to elements that exist.
  * `AnswersCorrect`: `AnswerOutcome`.
  * `EndsCorrect`: `EndOutcome`. Nothing but what the property names makes an operator finish twice,
    stay unfinished, throw or end everything.
  * `ArithmeticCorrect`: `ArithmeticOutcome`, for every pair of integers that fit, divisions
    and remainders of either sign included: an answer that is exact, however products and quotients
    say so, is the one the code computes (`ComputeExact`, from `QuotientUnique`).
  * `TextsCorrect`: `StringOutcome`, for texts and separators of any length. Of texts longer than what a negative
    index becomes (`Short`) it says nothing: no such text can be stored.

  `AnswerOutcome` says nothing of a world in which an operator still runs, and the next operator
  must find one as sound as the last found: the inductive `LinkInv` adds that the world is sound at
  every moment (`LinkSound`), and that a running one is still `before`, with a first operand. The
  steps of an execution keep it: emptying, node, connector, value, a link with its content
  (`LinkMade`), links for the parts of a text (`LinksSound`), an element that leads to the answer
  (`AnswerPrinted`). Every number read has a type (`IsAnswer`), since a conversion either throws
  or fits, so that each operator, whichever branches of its type tests it takes, comes to
  emptying and one of these ends (`Reads`, `Well`).

  The other three outcomes need more: that a running operator has the operands it needs (`Arity`), and
  that one which has ended ended as it should (`Outcomes`), both parts of the inductive `EndInv`.
  The argument goes by the form of a content (`OneForm`: it has one). What the type tests of the
  code say of each form (`TestsOfTags`), and that what each conversion reads of it is the number
  of its first numeral, whatever is cut out of it before (`ReadOfForm`), decides for each pair of
  forms the branch the code takes (`ArithmeticEnds`, `WholeDivisionEnds`, `CompareEnds`). For texts:
  occurrences are texts around a text (`OccurrenceAround`, `FirstAround`), the parts between
  separators stand in a bijection with where they begin, carried over to the links made for them in
  whatever order (`PartsFill`, `InOrder`), and of two texts that differ exactly one is greater
  (`Decided`: by the least place at which they differ, or at which one ends). Where the prover would
  not follow, the model had said too little: `OfFunction` chose between two cases of a `CASE` that
  overlapped when a text held no number, which left open what the logarithm of such a text does; they
  are now tried in the order of the code.
* `Agents_proofs`
  * `TypeCorrect`: `TypeOK`, in which a waiting time is never below zero.
  * `ReportCorrect`: `ReportOutcome`. The inductive invariant says of each handler, at each of its
    places, which marks it has seen absent or present and that marks are never taken back, when it
    initiated the interpretation and when its wait may end; and of handlers yet to come, that
    nothing has happened for them (`Fresh`).

Only model-checked: liveness (`RequestAnswered`, `ProcessErased`, `NoLostReturn`, `NoLostEvent`,
`Settles`), which the prover does not do. Every invariant a passing run checks is proved.

## 5. What is not modelled

* The tables of supported operators that interpreters fill at first use without a lock: a data
  race whose outcome is undefined as a whole.
* The substitution of arguments and the class `SCPParameter`: a call or a request with arguments
  that do not fit is rejected in `ScpProcess` and `CallReturn`, which arguments do is left open.
* Operands that the destroyer erases together with template and call operators: no handler reads them.
* Data operators of different processes on shared elements: each is executed alone.
* sc-memory itself: an arc is added or removed in one step, an event queues one reaction per
  subscription, an operation on an erased element fails, an iterator yields what was there when it
  was made and is not gone since, erasing an element erases the connectors at it, generating with a
  type that does not fit throws. That is how the code uses it.
* Logging and printing, keynodes and tables of names, the knowledge base's example programs, tests
  and build files.

## 6. Plan

1. `Composition`: processes that call one another, `CallReturn`'s abstract request replaced by
   `ScpProcess`.
2. Substitution of arguments in `ASCPProcessInterpreter` and `call`, with `SCPParameter`.
3. `Settles` split into the safety part, which could be proved, and the fairness.
