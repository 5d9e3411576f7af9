------------------------------- MODULE Agents -------------------------------
(***************************************************************************)
(* scp-agents: which implementations are subscribed, and what becomes of   *)
(* an event of one.                                                        *)
(*                                                                         *)
(* An agent is active while an arc leads to it from active_sc_agent; it    *)
(* belongs to implementations, which are what is subscribed.  The module   *)
(* subscribes those of active agents when it starts and unsubscribes them  *)
(* when it stops; in between each arc generated or erased queues an action *)
(* of an agent of the machine, which threads of a pool handle in any       *)
(* order.  An event of a subscribed implementation has its program         *)
(* interpreted; the handler waits for that and reports the outcome of the  *)
(* agent's own action, which is for the program to finish.                 *)
(***************************************************************************)
EXTENDS Integers, Sequences

CONSTANTS
  Agent,
  Implementation,
  AgentsOf,       \* the agents each implementation has arcs to
  Independent,    \* the platform-independent implementations
  Specified,      \* those whose specification can be subscribed
  ProgramTuples,  \* of each implementation, in the order they are found
  Limit,          \* waiting times of customers; 0: none is given
  Default,        \* the waiting time of InitiateAndWait when it gets none
  MaxChanges,     \* arcs of active_sc_agent generated or erased, at most
  MaxEvents,      \* events handled, at most
  Budgets,        \* how many of them in one behaviour, and if it stops
  MaxDelay,       \* the last moment before which handlers ask for programs
  MaxTime         \* the last moment considered

Mark == {"success", "unsuccess", "error", "finished"}

\* What a program does to the action of its agent before it returns.
Program == [agent : BOOLEAN, process : BOOLEAN, marks : Seq(Mark)]

ASSUME AgentsAssumption ==
  /\ Agent # {} /\ Implementation # {} /\ Limit # {}
  /\ AgentsOf \in [Implementation -> SUBSET Agent]
  /\ Independent \subseteq Implementation /\ Specified \subseteq Implementation
  /\ ProgramTuples \in [Implementation -> Seq(Seq(Program))]
ASSUME BoundsAssumption ==
  /\ MaxChanges \in Nat /\ MaxEvents \in Nat /\ MaxTime \in Nat /\ MaxDelay \in Nat
  /\ Default \in Nat \ {0} /\ Limit \subseteq Nat
  /\ Budgets \subseteq [changes : 0 .. MaxChanges, events : 0 .. MaxEvents, stops : BOOLEAN]

Change  == 1 .. MaxChanges
Handler == 1 .. MaxEvents

VARIABLES
  phase,       \* of the module
  active,      \* the agents active_sc_agent has arcs to
  scan,        \* what Initialize or Shutdown has yet to come to
  task,        \* task[n]: the action for the n-th change
  changes,     \* changes so far
  subscribed,  \* implementations subscribed to their events
  events,      \* events so far; each has a handler
  event,       \* event[h]: what the event was of, and since when
  pc,          \* pc[h]: where the handler is
  patience,    \* patience[h]: how long it waits
  asked,       \* asked[h]: when it initiated the interpretation
  request,     \* request[h]: how far the interpretation is
  left,        \* left[h]: what the program has yet to mark
  action,      \* action[h]: the marks of the agent's own action
  ended,       \* ended[h]: how the wait ended, and when
  report,      \* report[h]: the result of the handler
  now,         \* the clock
  budget,      \* what there may be in this behaviour, a bound
  last,        \* history: what the last change of an implementation was
  disturbed    \* history: implementations changed while being handled

registry == <<phase, active, scan, task, changes, subscribed, last, disturbed>>
program  == <<request, left, action>>
waiting  == <<patience, asked, ended>>
handling == <<now, events, event, pc, program, waiting, report>>
vars     == <<registry, handling, budget>>

\* What HandleActiveAgent handles, in whatever order.
Implementations(a) == {i \in Independent : a \in AgentsOf[i]}

Changed(a) == {i \in Implementation : a \in AgentsOf[i]}
Open(n)    == task[n].todo # {}
InWork     == UNION {Changed(task[n].agent) : n \in {m \in 1 .. changes : Open(m)}}

TaskType == [kind : {"none", "activate", "deactivate"}, agent : Agent, todo : SUBSET Implementation]
NoTask   == [kind |-> "none", agent |-> CHOOSE a \in Agent : TRUE, todo |-> {}]

EventType == [of : Implementation, limit : Limit, start : 0 .. MaxTime]
NoEvent   == [of |-> CHOOSE i \in Implementation : TRUE, limit |-> CHOOSE m \in Limit : TRUE, start |-> 0]

EndType == [how : {"none", "answered", "abandoned", "expired"}, at : 0 .. MaxTime]
NoEnd   == [how |-> "none", at |-> 0]

FromActive ==
  [i \in Implementation |-> IF AgentsOf[i] \cap active # {} THEN "activate" ELSE "deactivate"]

Init ==
  /\ phase = "off"
  /\ active \in SUBSET Agent
  /\ scan = {}
  /\ task = [n \in Change |-> NoTask]
  /\ changes = 0
  /\ subscribed = {}
  /\ last = FromActive
  /\ disturbed = {}
  /\ budget \in Budgets
  /\ now = 0
  /\ events = 0
  /\ event = [h \in Handler |-> NoEvent]
  /\ pc = [h \in Handler |-> "none"]
  /\ patience = [h \in Handler |-> 0]
  /\ asked = [h \in Handler |-> 0]
  /\ request = [h \in Handler |-> "none"]
  /\ left = [h \in Handler |-> <<>>]
  /\ action = [h \in Handler |-> {}]
  /\ ended = [h \in Handler |-> NoEnd]
  /\ report = [h \in Handler |-> "none"]

-----------------------------------------------------------------------------
(* SCPAgentEvent *)

\* What sc-memory answers with an exception changes nothing: it is caught.
RegisterSCPAgent(i)   == subscribed' = subscribed \cup ({i} \cap Specified)
UnregisterSCPAgent(i) == subscribed' = subscribed \ {i}

\* An iterator goes back from the newest arc: it comes to no newer one.
HandleAllActiveAgents == scan' = {pair \in active \X Independent : pair[1] \in AgentsOf[pair[2]]}

Initialize ==
  /\ phase = "off"
  /\ phase' = "starting"
  /\ HandleAllActiveAgents
  /\ last' = FromActive
  /\ UNCHANGED <<active, task, changes, subscribed, disturbed, handling, budget>>

\* The arc to the agent may have been erased before it is come to.
Skip(pair) ==
  /\ pair \in scan /\ pair[1] \notin active
  /\ scan' = scan \ {pair}
  /\ UNCHANGED <<phase, active, task, changes, subscribed, last, disturbed, handling, budget>>

SubscribeNext(pair) ==
  /\ phase = "starting" /\ pair \in scan
  /\ scan' = scan \ {pair}
  /\ RegisterSCPAgent(pair[2])
  /\ UNCHANGED <<phase, active, task, changes, last, disturbed, handling, budget>>

Initialized ==
  /\ phase = "starting" /\ scan = {}
  /\ phase' = "on"
  /\ UNCHANGED <<active, scan, task, changes, subscribed, last, disturbed, handling, budget>>

Shutdown ==
  /\ phase = "on" /\ budget.stops
  /\ phase' = "stopping"
  /\ HandleAllActiveAgents
  /\ disturbed' = disturbed \cup InWork
  /\ UNCHANGED <<active, task, changes, subscribed, last, handling, budget>>

UnsubscribeNext(pair) ==
  /\ phase = "stopping" /\ pair \in scan
  /\ scan' = scan \ {pair}
  /\ UnregisterSCPAgent(pair[2])
  /\ UNCHANGED <<phase, active, task, changes, last, disturbed, handling, budget>>

Stopped ==
  /\ phase = "stopping" /\ scan = {}
  /\ phase' = "stopped"
  /\ UNCHANGED <<active, scan, task, changes, subscribed, last, disturbed, handling, budget>>

-----------------------------------------------------------------------------
(* ASCPAgentActivator, ASCPAgentDeactivator *)

\* An arc is generated, or erased.  Whether the two agents listen while the
\* module starts or stops is sc-memory's to decide.
ChangeActive(a) ==
  LET kind    == IF a \in active THEN "deactivate" ELSE "activate"
      noticed == CASE phase = "on" -> {TRUE} [] phase \in {"starting", "stopping"} -> BOOLEAN [] OTHER -> {FALSE}
  IN
  /\ changes < budget.changes
  /\ changes' = changes + 1
  /\ active' = IF a \in active THEN active \ {a} ELSE active \cup {a}
  /\ \E heard \in noticed :
       task' = [task EXCEPT ![changes + 1] =
                  [kind |-> kind, agent |-> a, todo |-> IF heard THEN Implementations(a) ELSE {}]]
  /\ last' = [i \in Implementation |-> IF i \in Changed(a) THEN kind ELSE last[i]]
  /\ disturbed' = disturbed \cup
                  CASE phase = "on" -> Changed(a) \cap InWork
                    [] phase \in {"starting", "stopping"} -> Changed(a)
                    [] OTHER -> {}
  /\ UNCHANGED <<phase, scan, subscribed, handling, budget>>

\* Mutant: a deactivated agent is registered.
Handle_Registers(n, i) ==
  /\ i \in task[n].todo
  /\ task' = [task EXCEPT ![n].todo = @ \ {i}]
  /\ RegisterSCPAgent(i)
  /\ UNCHANGED <<phase, active, scan, changes, last, disturbed, handling, budget>>

\* The next implementation of the agent that was activated or deactivated.
Handle(n, i) ==
  /\ i \in task[n].todo
  /\ task' = [task EXCEPT ![n].todo = @ \ {i}]
  /\ IF task[n].kind = "activate" THEN RegisterSCPAgent(i) ELSE UnregisterSCPAgent(i)
  /\ UNCHANGED <<phase, active, scan, changes, last, disturbed, handling, budget>>

-----------------------------------------------------------------------------
(* ASCPHandlingEventThatInitiatesAgentSCPProgram *)

Starting(h) == pc[h] \in {"start", "ask", "initiate"}

Step(h, state, next) ==
  /\ pc[h] = state
  /\ pc' = [pc EXCEPT ![h] = next]
  /\ UNCHANGED <<registry, now, events, event, budget>>

\* sc-memory runs a handler for an event of a subscribed implementation.
Fire(i) ==
  /\ i \in subscribed /\ events < budget.events /\ now <= MaxDelay
  /\ events' = events + 1
  /\ \E m \in Limit : event' = [event EXCEPT ![events + 1] = [of |-> i, limit |-> m, start |-> now]]
  /\ pc' = [pc EXCEPT ![events + 1] = "start"]
  /\ UNCHANGED <<registry, now, budget, program, waiting, report>>

\* Of the last tuple with one, the first program of an agent; none when it has
\* no variable for its process.
GetAgentProgram(i) ==
  LET tuples == ProgramTuples[i]
      Found(t, k) == tuples[t][k].agent /\ \A l \in 1 .. k - 1 : ~tuples[t][l].agent
      Lacks(t) == \A k \in DOMAIN tuples[t] : ~tuples[t][k].agent
  IN  {q \in UNION {{tuples[t][k] : k \in DOMAIN tuples[t]} : t \in DOMAIN tuples} :
         /\ q.process
         /\ \E t \in DOMAIN tuples :
              /\ \A u \in DOMAIN tuples : u > t => Lacks(u)
              /\ \E k \in DOMAIN tuples[t] : Found(t, k) /\ q = tuples[t][k]}

NoProgram(h) ==
  /\ Step(h, "start", "done")
  /\ GetAgentProgram(event[h].of) = {}
  /\ action' = [action EXCEPT ![h] = {"unsuccess", "finished"}]
  /\ report' = [report EXCEPT ![h] = "no"]
  /\ UNCHANGED <<waiting, request, left>>

Generate(h) ==
  /\ Step(h, "start", "ask")
  /\ \E q \in GetAgentProgram(event[h].of) : left' = [left EXCEPT ![h] = q.marks]
  /\ UNCHANGED <<waiting, request, action, report>>

\* Mutant: what is left of the customer's time is not compared with it.
Ask_Unchecked(h) ==
  /\ Step(h, "ask", "initiate")
  /\ patience' = [patience EXCEPT ![h] =
       IF event[h].limit = 0 THEN Default ELSE event[h].limit - (now - event[h].start)]
  /\ UNCHANGED <<program, asked, ended, report>>

\* How long to wait: what is left of the customer's time, if anything is.
Ask(h) ==
  LET spent == now - event[h].start
      m     == event[h].limit
  IN
  /\ Step(h, "ask", "initiate")
  /\ patience' = [patience EXCEPT ![h] = IF m > 0 /\ spent < m THEN m - spent ELSE Default]
  /\ UNCHANGED <<program, asked, ended, report>>

Initiate(h) ==
  /\ Step(h, "initiate", "wait")
  /\ request' = [request EXCEPT ![h] = "initiated"]
  /\ asked' = [asked EXCEPT ![h] = now]
  /\ UNCHANGED <<left, action, patience, ended, report>>

EndWait(h, how) ==
  /\ Step(h, "wait", "success")
  /\ ended' = [ended EXCEPT ![h] = [how |-> how, at |-> now]]
  /\ UNCHANGED <<program, patience, asked, report>>

\* Mutant: the answer is not waited for.
Wait_Not(h) == EndWait(h, "expired")

\* Until the request is finished, by a program that has returned or not, or
\* the time is over.
Wait(h) ==
  \/ request[h] = "finished" /\ left[h] = <<>> /\ EndWait(h, "answered")
  \/ request[h] = "finished" /\ left[h] # <<>> /\ EndWait(h, "abandoned")
  \/ request[h] # "finished" /\ now >= asked[h] + patience[h] /\ EndWait(h, "expired")

\* The states of the action, one after the other, which the program may change
\* in between.
ReadState(h, state, answer, next) ==
  /\ IF state \in action[h]
     THEN Step(h, state, "done") /\ report' = [report EXCEPT ![h] = answer]
     ELSE Step(h, state, next) /\ UNCHANGED report
  /\ UNCHANGED <<program, waiting>>

ReadFinished(h) ==
  /\ Step(h, "finished", "done")
  /\ report' = [report EXCEPT ![h] = IF "finished" \in action[h] THEN "unknown" ELSE "error"]
  /\ UNCHANGED <<program, waiting>>

Read(h) ==
  \/ ReadState(h, "success", "ok", "unsuccess")
  \/ ReadState(h, "unsuccess", "no", "error")
  \/ ReadState(h, "error", "error", "finished")
  \/ ReadFinished(h)

\* The program is interpreted (module ScpProcess), or rejected.
Interpret(h) ==
  /\ request[h] = "initiated"
  /\ \/ request' = [request EXCEPT ![h] = "interpreted"] /\ UNCHANGED left
     \/ request' = [request EXCEPT ![h] = "finished"] /\ left' = [left EXCEPT ![h] = <<>>]
  /\ UNCHANGED <<registry, now, events, event, budget, pc, waiting, action, report>>

MarkAction(h) ==
  /\ request[h] \in {"interpreted", "finished"} /\ left[h] # <<>>
  /\ left' = [left EXCEPT ![h] = Tail(@)]
  /\ action' = [action EXCEPT ![h] = @ \cup {Head(left[h])}]
  /\ UNCHANGED <<registry, now, events, event, budget, pc, waiting, request, report>>

\* The request is finished when the program has returned, or the interpreter
\* has waited for it long enough.
FinishRequest(h) ==
  /\ request[h] = "interpreted"
  /\ left[h] = <<>> \/ now >= asked[h] + Default
  /\ request' = [request EXCEPT ![h] = "finished"]
  /\ UNCHANGED <<registry, now, events, event, budget, pc, waiting, left, action, report>>

\* Handlers take a while, MaxDelay at most, before they wait.
Tick ==
  /\ now < MaxTime
  /\ \E h \in Handler : pc[h] = "wait" \/ Starting(h)
  /\ \A h \in Handler : Starting(h) => now < MaxDelay
  /\ now' = now + 1
  /\ UNCHANGED <<registry, events, event, budget, pc, program, waiting, report>>

-----------------------------------------------------------------------------

Scanning == \E pair \in Agent \X Implementation : Skip(pair) \/ SubscribeNext(pair) \/ UnsubscribeNext(pair)
Handling(h) == NoProgram(h) \/ Generate(h) \/ Ask(h) \/ Initiate(h) \/ Wait(h) \/ Read(h)

Next ==
  \/ Initialize \/ Scanning \/ Initialized \/ Shutdown \/ Stopped
  \/ \E a \in Agent : ChangeActive(a)
  \/ \E n \in Change, i \in Implementation : Handle(n, i)
  \/ \E i \in Implementation : Fire(i)
  \/ \E h \in Handler : Handling(h) \/ Interpret(h) \/ MarkAction(h) \/ FinishRequest(h)
  \/ Tick

\* Something goes on while there is anything to do: the thread that starts or
\* stops the module, those of the pool, time.  Programs may never return.
Progress ==
  \/ Scanning \/ Initialized \/ Stopped
  \/ \E n \in Change, i \in Implementation : Handle(n, i)
  \/ \E h \in Handler : Handling(h)
  \/ Tick

Spec     == Init /\ [][Next]_vars
FairSpec == Spec /\ WF_vars(Progress)

-----------------------------------------------------------------------------
\* Properties

\* The types of the variables; a waiting time is never negative.
TypeOK ==
  /\ phase \in {"off", "starting", "on", "stopping", "stopped"}
  /\ active \in SUBSET Agent
  /\ scan \in SUBSET (Agent \X Independent)
  /\ task \in [Change -> TaskType]
  /\ changes \in 0 .. MaxChanges
  /\ subscribed \in SUBSET Specified
  /\ now \in 0 .. MaxTime
  /\ events \in 0 .. MaxEvents
  /\ event \in [Handler -> EventType]
  /\ pc \in [Handler -> {"none", "start", "ask", "initiate", "wait", "success", "unsuccess", "error", "finished", "done"}]
  /\ patience \in [Handler -> Nat]
  /\ asked \in [Handler -> 0 .. MaxTime]
  /\ request \in [Handler -> {"none", "initiated", "interpreted", "finished"}]
  /\ left \in [Handler -> Seq(Mark)]
  /\ action \in [Handler -> SUBSET Mark]
  /\ ended \in [Handler -> EndType]
  /\ report \in [Handler -> {"none", "ok", "no", "error", "unknown"}]
  /\ budget \in Budgets
  /\ last \in [Implementation -> {"activate", "deactivate"}]
  /\ disturbed \in SUBSET Implementation

Outcomes == {"success", "unsuccess", "error"}
Reported(o) == CASE o = "success" -> "ok" [] o = "unsuccess" -> "no" [] o = "error" -> "error"

\* What a handler reports of a program that has returned is what the program
\* left on the action; of one that has not, nothing it has not marked.  The
\* handler gives a program up when the customer's time is over, and when no
\* time is given or left, not before the default time has passed.
ReportOutcome ==
  \A h \in Handler : pc[h] = "done" /\ request[h] # "none" =>
    /\ \A o \in Outcomes \ {"error"} : report[h] = Reported(o) => o \in action[h]
    /\ report[h] = "unknown" => "finished" \in action[h]
    /\ ended[h].how = "answered" =>
         /\ \A o \in Outcomes : action[h] \cap Outcomes = {o} => report[h] = Reported(o)
         /\ action[h] \cap Outcomes = {} =>
              report[h] = IF "finished" \in action[h] THEN "unknown" ELSE "error"
    /\ ended[h].how = "abandoned" => ended[h].at >= asked[h] + Default
    /\ ended[h].how = "expired" =>
         ended[h].at >= IF event[h].limit = 0 THEN asked[h] + Default ELSE event[h].start + event[h].limit

\* In the end every event is reported, whether its program returns or not, and
\* once changes and shutdown have been handled, an implementation is subscribed
\* just when the last change of one of its agents was an activation and the
\* module is on -- unless a change came while an earlier one, a start or a stop
\* was being handled: then the order of the threads decides.
Settles ==
  <>[] /\ \A h \in Handler : pc[h] \in {"none", "done"}
       /\ phase \in {"off", "on", "stopped"}
       /\ \A i \in Implementation \ disturbed :
            i \in subscribed <=> phase = "on" /\ i \in Independent \cap Specified /\ last[i] = "activate"
=============================================================================
