---------------------------- MODULE Agents_proofs ----------------------------
(* That handlers report what programs have left on the actions, for any     *)
(* agents, programs, waiting times and numbers of events.                   *)
EXTENDS Agents, TLAPS

Reading == {"success", "unsuccess", "error", "finished"}

\* What TypeOK does not say of a handler, in the order it goes through: where
\* it may have been before it waits, how long it waits at least, why it stops
\* to wait, and what it has found when it has read some of the states.  Handlers of events to
\* come have done nothing.
Before(h) ==
  pc[h] \in {"none", "start", "ask", "initiate"} => request[h] = "none" /\ action[h] = {} /\ ended[h].how = "none"
Patient(h) ==
  /\ pc[h] # "none" => event[h].start <= now
  /\ pc[h] = "initiate" =>
       /\ event[h].limit = 0 => patience[h] = Default
       /\ now + patience[h] >= event[h].start + event[h].limit
  /\ request[h] # "none" =>
       /\ event[h].limit = 0 => patience[h] = Default
       /\ asked[h] + patience[h] >= event[h].start + event[h].limit
Finishing(h) ==
  request[h] = "finished" /\ left[h] # <<>> => now >= asked[h] + Default
Waited(h) ==
  /\ pc[h] = "wait" => request[h] # "none" /\ ended[h].how = "none"
  /\ pc[h] \in Reading => ended[h].how # "none" /\ request[h] # "none"
  /\ pc[h] = "done" /\ request[h] # "none" => ended[h].how # "none"
  /\ ended[h].how # "none" => request[h] # "none"
  /\ ended[h].how = "answered" => request[h] = "finished" /\ left[h] = <<>>
  /\ ended[h].how = "abandoned" => ended[h].at >= asked[h] + Default
  /\ ended[h].how = "expired" => ended[h].at >= asked[h] + patience[h]
Seen(h) ==
  ended[h].how = "answered" =>
    /\ pc[h] = "unsuccess" => "success" \notin action[h]
    /\ pc[h] = "error" => "success" \notin action[h] /\ "unsuccess" \notin action[h]
    /\ pc[h] = "finished" => action[h] \cap Outcomes = {}
    /\ pc[h] = "done" =>
         \/ report[h] = "ok" /\ "success" \in action[h]
         \/ report[h] = "no" /\ "unsuccess" \in action[h] /\ "success" \notin action[h]
         \/ report[h] = "error" /\ "error" \in action[h] /\ "success" \notin action[h] /\ "unsuccess" \notin action[h]
         \/ report[h] = "unknown" /\ "finished" \in action[h] /\ action[h] \cap Outcomes = {}
         \/ report[h] = "error" /\ "finished" \notin action[h] /\ action[h] \cap Outcomes = {}
Marked(h) ==
  pc[h] = "done" /\ request[h] # "none" =>
    /\ report[h] # "none"
    /\ report[h] = "ok" => "success" \in action[h]
    /\ report[h] = "no" => "unsuccess" \in action[h]
    /\ report[h] = "unknown" => "finished" \in action[h]

HandlerInv(h) == Before(h) /\ Patient(h) /\ Finishing(h) /\ Waited(h) /\ Seen(h) /\ Marked(h)
Fresh == \A h \in Handler : h > events => pc[h] = "none"
IInv == TypeOK /\ Fresh /\ \A h \in Handler : HandlerInv(h)

-----------------------------------------------------------------------------

LEMMA InitTypes == Init => TypeOK
<1>. SUFFICES ASSUME Init PROVE TypeOK
  OBVIOUS
<1>1. NoTask \in TaskType
  BY AgentsAssumption DEF NoTask, TaskType
<1>2. NoEvent \in EventType
  BY AgentsAssumption, BoundsAssumption DEF NoEvent, EventType
<1>3. NoEnd \in EndType
  BY BoundsAssumption DEF NoEnd, EndType
<1>4. last \in [Implementation -> {"activate", "deactivate"}]
  BY DEF Init, FromActive
<1>5. 0 \in 0 .. MaxChanges /\ 0 \in 0 .. MaxEvents /\ 0 \in 0 .. MaxTime /\ <<>> \in Seq(Mark)
  BY BoundsAssumption
<1>. QED
  BY <1>1, <1>2, <1>3, <1>4, <1>5 DEF Init, TypeOK

\* The programs of an implementation are programs.
LEMMA ProgramsFound ==
  ASSUME NEW i \in Implementation, NEW q \in GetAgentProgram(i)
  PROVE  q \in Program
<1>1. ProgramTuples[i] \in Seq(Seq(Program))
  BY AgentsAssumption
<1>2. PICK t \in DOMAIN ProgramTuples[i] : q \in {ProgramTuples[i][t][k] : k \in DOMAIN ProgramTuples[i][t]}
  BY DEF GetAgentProgram
<1>3. PICK k \in DOMAIN ProgramTuples[i][t] : q = ProgramTuples[i][t][k]
  BY <1>2
<1>4. ProgramTuples[i][t] \in Seq(Program)
  BY <1>1
<1>. QED
  BY <1>3, <1>4

HandlerTypes ==
  /\ events \in 0 .. MaxEvents
  /\ event \in [Handler -> EventType]
  /\ pc \in [Handler -> {"none", "start", "ask", "initiate", "wait", "success", "unsuccess", "error", "finished", "done"}]
  /\ patience \in [Handler -> Nat]
  /\ asked \in [Handler -> 0 .. MaxTime]
  /\ request \in [Handler -> {"none", "initiated", "interpreted", "finished"}]
  /\ left \in [Handler -> Seq(Mark)]
  /\ action \in [Handler -> SUBSET Mark]
  /\ ended \in [Handler -> EndType]
  /\ report \in [Handler -> {"none", "ok", "no", "error", "unknown"}]
  /\ now \in 0 .. MaxTime

LEMMA TypesHandling ==
  ASSUME TypeOK, NEW h \in Handler, Handling(h) \/ Interpret(h) \/ MarkAction(h) \/ FinishRequest(h)
  PROVE  TypeOK'
<1>r. UNCHANGED <<registry, now, events, event, budget>>
  BY DEF Handling, NoProgram, Generate, Ask, Initiate, Wait, EndWait, Read, ReadState, ReadFinished, Step, Interpret,
         MarkAction, FinishRequest
<1>t. HandlerTypes
  BY DEF TypeOK, HandlerTypes
<1>s. SUFFICES HandlerTypes'
  BY <1>r DEF TypeOK, HandlerTypes, registry
<1>. USE DEF HandlerTypes, Step
<1>1. CASE NoProgram(h)
  BY <1>1, <1>t DEF NoProgram, Mark, waiting
<1>2. CASE Generate(h)
  <2>1. event[h].of \in Implementation
    BY <1>t DEF EventType
  <2>2. PICK q \in GetAgentProgram(event[h].of) : left' = [left EXCEPT ![h] = q.marks]
    BY <1>2 DEF Generate
  <2>3. q.marks \in Seq(Mark)
    BY <2>1, ProgramsFound DEF Program
  <2>. QED
    BY <1>2, <1>t, <2>2, <2>3 DEF Generate, waiting
<1>3. CASE Ask(h)
  <2>1. event[h] \in EventType /\ now \in 0 .. MaxTime
    BY <1>t
  <2>2. event[h].limit \in Limit /\ event[h].start \in 0 .. MaxTime
    BY <2>1 DEF EventType
  <2>3. event[h].limit \in Nat
    BY <2>2, BoundsAssumption
  <2>a. event[h].start \in Nat /\ now \in Nat /\ Default \in Nat
    BY <2>1, <2>2, BoundsAssumption
  <2>. DEFINE m == event[h].limit
              wait == IF m > 0 /\ now - event[h].start < m THEN m - (now - event[h].start) ELSE Default
  <2>4. wait \in Nat
    BY <2>3, <2>a
  <2>5. patience' = [patience EXCEPT ![h] = wait]
    BY <1>3 DEF Ask
  <2>. QED
    <3>. HIDE DEF wait
    <3>. QED
      BY <1>3, <1>t, <2>4, <2>5 DEF Ask, program
<1>4. CASE Initiate(h)
  BY <1>4, <1>t DEF Initiate
<1>5. CASE Wait(h)
  <2>1. PICK how \in {"answered", "abandoned", "expired"} : EndWait(h, how)
    BY <1>5 DEF Wait
  <2>2. [how |-> how, at |-> now] \in EndType
    BY <1>t DEF EndType
  <2>. QED
    BY <1>t, <2>1, <2>2 DEF EndWait, program
<1>6. CASE Read(h)
  BY <1>6, <1>t DEF Read, ReadState, ReadFinished, program, waiting
<1>7. CASE Interpret(h)
  <2>1. <<>> \in Seq(Mark)
    OBVIOUS
  <2>2. request' = [request EXCEPT ![h] = "interpreted"] \/ request' = [request EXCEPT ![h] = "finished"]
    BY <1>7 DEF Interpret
  <2>3. left' \in [Handler -> Seq(Mark)]
    BY <1>7, <1>t, <2>1 DEF Interpret
  <2>. QED
    BY <1>7, <1>t, <2>2, <2>3 DEF Interpret, waiting
<1>8. CASE MarkAction(h)
  <2>1. left[h] \in Seq(Mark) /\ left[h] # <<>>
    BY <1>8, <1>t DEF MarkAction
  <2>2. Tail(left[h]) \in Seq(Mark) /\ Head(left[h]) \in Mark
    BY <2>1
  <2>. QED
    BY <1>8, <1>t, <2>2 DEF MarkAction, waiting
<1>9. CASE FinishRequest(h)
  BY <1>9, <1>t DEF FinishRequest, waiting
<1>. QED
  BY <1>1, <1>2, <1>3, <1>4, <1>5, <1>6, <1>7, <1>8, <1>9 DEF Handling

LEMMA TypesFire ==
  ASSUME TypeOK, NEW i \in Implementation, Fire(i)
  PROVE  TypeOK'
<1>1. budget.events \in 0 .. MaxEvents /\ MaxEvents \in Nat /\ MaxTime \in Nat
  BY BoundsAssumption DEF TypeOK
<1>2. events + 1 \in Handler /\ events' \in 0 .. MaxEvents
  BY <1>1 DEF Fire, Handler, TypeOK
<1>3. PICK m \in Limit : event' = [event EXCEPT ![events + 1] = [of |-> i, limit |-> m, start |-> now]]
  BY DEF Fire
<1>4. [of |-> i, limit |-> m, start |-> now] \in EventType
  BY DEF TypeOK, EventType
<1>. QED
  BY <1>2, <1>3, <1>4 DEF Fire, TypeOK, registry, program, waiting

LEMMA TypesPhase ==
  ASSUME TypeOK, Initialize \/ Initialized \/ Shutdown \/ Stopped
  PROVE  TypeOK'
<1>. USE DEF TypeOK, handling, program, waiting
<1>1. CASE Initialize
  BY <1>1, AgentsAssumption DEF Initialize, HandleAllActiveAgents, FromActive
<1>2. CASE Shutdown
  <2>1. InWork \subseteq Implementation
    BY DEF InWork, Changed
  <2>. QED
    BY <1>2, <2>1, AgentsAssumption DEF Shutdown, HandleAllActiveAgents
<1>3. CASE Initialized \/ Stopped
  BY <1>3 DEF Initialized, Stopped
<1>. QED
  BY <1>1, <1>2, <1>3

LEMMA TypesScan ==
  ASSUME TypeOK, NEW pair \in Agent \X Implementation, Skip(pair) \/ SubscribeNext(pair) \/ UnsubscribeNext(pair)
  PROVE  TypeOK'
  BY DEF TypeOK, handling, program, waiting, Skip, SubscribeNext, UnsubscribeNext, RegisterSCPAgent,
         UnregisterSCPAgent

LEMMA TypesChange ==
  ASSUME TypeOK, NEW a \in Agent, ChangeActive(a)
  PROVE  TypeOK'
<1>. USE DEF TypeOK, handling, program, waiting
<1>1. PICK todo \in SUBSET Implementation, kind \in {"activate", "deactivate"} :
        /\ task' = [task EXCEPT ![changes + 1] = [kind |-> kind, agent |-> a, todo |-> todo]]
        /\ last' = [j \in Implementation |-> IF j \in Changed(a) THEN kind ELSE last[j]]
  <2>1. Implementations(a) \in SUBSET Implementation
    BY AgentsAssumption DEF Implementations
  <2>. QED
    BY <2>1 DEF ChangeActive
<1>2. changes + 1 \in Change /\ changes' \in 0 .. MaxChanges
  <2>1. budget.changes \in 0 .. MaxChanges /\ MaxChanges \in Nat
    BY BoundsAssumption
  <2>. QED
    BY <2>1 DEF ChangeActive, Change
<1>3. task' \in [Change -> TaskType]
  <2>1. [kind |-> kind, agent |-> a, todo |-> todo] \in TaskType
    BY DEF TaskType
  <2>. QED
    BY <1>1, <1>2, <2>1
<1>4. last' \in [Implementation -> {"activate", "deactivate"}]
  BY <1>1
<1>5. active' \in SUBSET Agent
  BY DEF ChangeActive
<1>6. disturbed' \in SUBSET Implementation
  BY DEF ChangeActive, Changed
<1>. QED
  BY <1>2, <1>3, <1>4, <1>5, <1>6 DEF ChangeActive

LEMMA TypesHandle ==
  ASSUME TypeOK, NEW n \in Change, NEW i \in Implementation, Handle(n, i)
  PROVE  TypeOK'
<1>. USE DEF TypeOK, handling, program, waiting
<1>1. task' \in [Change -> TaskType]
  <2> DEFINE t == [task[n] EXCEPT !.todo = @ \ {i}]
  <2>1. task' = [task EXCEPT ![n] = t]
    BY DEF Handle
  <2>2. task[n] \in TaskType /\ task \in [Change -> TaskType]
    OBVIOUS
  <2>3. t \in TaskType
    BY <2>2 DEF TaskType
  <2> HIDE DEF t
  <2>. QED
    BY <2>1, <2>2, <2>3
<1>. QED
  BY <1>1 DEF Handle, RegisterSCPAgent, UnregisterSCPAgent

LEMMA TypesTick ==
  ASSUME TypeOK, Tick
  PROVE  TypeOK'
  BY BoundsAssumption DEF TypeOK, Tick, registry, program, waiting

LEMMA TypesNext ==
  ASSUME TypeOK, [Next]_vars
  PROVE  TypeOK'
<1>1. CASE \E pair \in Agent \X Implementation : Skip(pair) \/ SubscribeNext(pair) \/ UnsubscribeNext(pair)
  BY <1>1, TypesScan
<1>2. CASE Initialize \/ Initialized \/ Shutdown \/ Stopped
  BY <1>2, TypesPhase
<1>3. CASE \E a \in Agent : ChangeActive(a)
  BY <1>3, TypesChange
<1>4. CASE \E n \in Change, i \in Implementation : Handle(n, i)
  BY <1>4, TypesHandle
<1>5. CASE \E i \in Implementation : Fire(i)
  BY <1>5, TypesFire
<1>6. CASE \E h \in Handler : Handling(h) \/ Interpret(h) \/ MarkAction(h) \/ FinishRequest(h)
  BY <1>6, TypesHandling
<1>7. CASE Tick
  BY <1>7, TypesTick
<1>8. CASE UNCHANGED vars
  BY <1>8 DEF TypeOK, vars, registry, handling, program, waiting
<1>. QED
  BY <1>1, <1>2, <1>3, <1>4, <1>5, <1>6, <1>7, <1>8 DEF Next, Scanning

\* TypeOK holds at every moment; above all, a time to wait is never negative:
\* what is left of the customer's time is compared before it is computed.
THEOREM TypeCorrect == Spec => []TypeOK
<1>1. Init => TypeOK
  BY InitTypes
<1>2. TypeOK /\ [Next]_vars => TypeOK'
  BY TypesNext
<1>. QED
  BY <1>1, <1>2, PTL DEF Spec

-----------------------------------------------------------------------------

LEMMA InitIInv == Init => IInv
<1>. SUFFICES ASSUME Init PROVE IInv
  OBVIOUS
<1>1. TypeOK
  BY InitTypes
<1>2. \A h \in Handler : HandlerInv(h)
  BY DEF Init, HandlerInv, Before, Patient, Finishing, Waited, Seen, Marked, NoEnd, Reading
<1>. QED
  BY <1>1, <1>2 DEF IInv, Fresh, Init

LEMMA Numbers ==
  ASSUME TypeOK, NEW h \in Handler
  PROVE  /\ event[h].limit \in Nat /\ event[h].start \in Nat /\ patience[h] \in Nat /\ asked[h] \in Nat
         /\ ended[h].at \in Nat /\ now \in Nat /\ Default \in Nat
<1>1. event[h] \in EventType /\ ended[h] \in EndType /\ patience[h] \in Nat /\ asked[h] \in 0 .. MaxTime
      /\ now \in 0 .. MaxTime
  BY DEF TypeOK
<1>2. event[h].limit \in Limit /\ event[h].start \in 0 .. MaxTime /\ ended[h].at \in 0 .. MaxTime
  BY <1>1 DEF EventType, EndType
<1>3. event[h].limit \in Nat /\ Default \in Nat
  BY <1>2, BoundsAssumption
<1>. QED
  BY <1>1, <1>2, <1>3, BoundsAssumption

Same(h) == UNCHANGED <<event[h], pc[h], patience[h], asked[h], request[h], left[h], action[h], ended[h], report[h]>>

\* What is said of a handler stays true while it, its program and its request
\* do nothing, and time goes on.
LEMMA SameKept ==
  ASSUME TypeOK, TypeOK', NEW h \in Handler, HandlerInv(h), Same(h), now' >= now
  PROVE  HandlerInv(h)'
<1>1. now \in Nat /\ now' \in Nat /\ event[h].start \in Nat /\ event[h].limit \in Nat /\ patience[h] \in Nat
      /\ asked[h] \in Nat /\ Default \in Nat
  <2>1. now' \in 0 .. MaxTime
    BY DEF TypeOK
  <2>. QED
    BY <2>1, Numbers, BoundsAssumption
<1>2. Before(h)' /\ Waited(h)' /\ Seen(h)' /\ Marked(h)'
  BY DEF HandlerInv, Same, Before, Waited, Seen, Marked
<1>3. Patient(h)'
  BY <1>1 DEF HandlerInv, Same, Patient
<1>4. Finishing(h)'
  BY <1>1 DEF HandlerInv, Same, Finishing
<1>. QED
  BY <1>2, <1>3, <1>4 DEF HandlerInv

LEMMA StepKept ==
  ASSUME TypeOK, TypeOK', NEW h \in Handler, HandlerInv(h),
         Handling(h) \/ Interpret(h) \/ MarkAction(h) \/ FinishRequest(h)
  PROVE  HandlerInv(h)'
<1>n. /\ event[h].limit \in Nat /\ event[h].start \in Nat /\ patience[h] \in Nat /\ asked[h] \in Nat
      /\ ended[h].at \in Nat /\ now \in Nat /\ Default \in Nat
  BY Numbers
<1>f. HandlerTypes
  BY DEF TypeOK, HandlerTypes
<1>i. Before(h) /\ Patient(h) /\ Finishing(h) /\ Waited(h) /\ Seen(h) /\ Marked(h)
  BY DEF HandlerInv
<1>. USE DEF HandlerTypes, Step, waiting, program
<1>1. CASE NoProgram(h)
  BY <1>1, <1>n, <1>f, <1>i DEF NoProgram, HandlerInv, Before, Patient, Finishing, Waited, Seen, Marked, Reading
<1>2. CASE Generate(h)
  BY <1>2, <1>n, <1>f, <1>i DEF Generate, HandlerInv, Before, Patient, Finishing, Waited, Seen, Marked, Reading
<1>3. CASE Ask(h)
  <2>1. /\ pc[h] = "ask" /\ pc'[h] = "initiate" /\ UNCHANGED <<event, now, left, action, request, asked, ended, report>>
        /\ patience'[h] = IF event[h].limit > 0 /\ now - event[h].start < event[h].limit
                          THEN event[h].limit - (now - event[h].start) ELSE Default
    BY <1>3, <1>f DEF Ask
  <2>2. Before(h)' /\ Waited(h)' /\ Seen(h)' /\ Marked(h)'
    BY <2>1, <1>i DEF Before, Waited, Seen, Marked, Reading
  <2>3. Patient(h)' /\ Finishing(h)'
    BY <2>1, <1>n, <1>i DEF Before, Patient, Finishing
  <2>. QED
    BY <2>2, <2>3 DEF HandlerInv
<1>4. CASE Initiate(h)
  BY <1>4, <1>n, <1>f, <1>i DEF Initiate, HandlerInv, Before, Patient, Finishing, Waited, Seen, Marked, Reading
<1>5. CASE Wait(h)
  BY <1>5, <1>n, <1>f, <1>i DEF Wait, EndWait, HandlerInv, Before, Patient, Finishing, Waited, Seen, Marked, Reading
<1>6. CASE Read(h)
  <2>1. CASE ReadState(h, "success", "ok", "unsuccess")
    BY <2>1, <1>n, <1>f, <1>i DEF ReadState, HandlerInv, Before, Patient, Finishing, Waited, Seen, Marked, Reading
  <2>2. CASE ReadState(h, "unsuccess", "no", "error")
    BY <2>2, <1>n, <1>f, <1>i DEF ReadState, HandlerInv, Before, Patient, Finishing, Waited, Seen, Marked, Reading
  <2>3. CASE ReadState(h, "error", "error", "finished")
    BY <2>3, <1>n, <1>f, <1>i DEF ReadState, Outcomes, HandlerInv, Before, Patient, Finishing, Waited, Seen, Marked, Reading
  <2>4. CASE ReadFinished(h)
    BY <2>4, <1>n, <1>f, <1>i DEF ReadFinished, HandlerInv, Before, Patient, Finishing, Waited, Seen, Marked, Reading
  <2>. QED
    BY <1>6, <2>1, <2>2, <2>3, <2>4 DEF Read
<1>7. CASE Interpret(h)
  BY <1>7, <1>n, <1>f, <1>i DEF Interpret, HandlerInv, Before, Patient, Finishing, Waited, Seen, Marked, Reading
<1>8. CASE MarkAction(h)
  BY <1>8, <1>n, <1>f, <1>i DEF MarkAction, HandlerInv, Before, Patient, Finishing, Waited, Seen, Marked, Reading
<1>9. CASE FinishRequest(h)
  BY <1>9, <1>n, <1>f, <1>i DEF FinishRequest, HandlerInv, Before, Patient, Finishing, Waited, Seen, Marked, Reading
<1>. QED
  BY <1>1, <1>2, <1>3, <1>4, <1>5, <1>6, <1>7, <1>8, <1>9 DEF Handling

LEMMA IInvNext ==
  ASSUME IInv, [Next]_vars
  PROVE  IInv'
<1>t. TypeOK /\ TypeOK'
  BY TypesNext DEF IInv
<1>n. now \in Nat /\ events \in Nat
  BY <1>t, BoundsAssumption DEF TypeOK
<1>i. \A h \in Handler : HandlerInv(h)
  BY DEF IInv
<1>1. CASE UNCHANGED handling
  <2>1. \A h \in Handler : Same(h)
    BY <1>1 DEF handling, program, waiting, Same
  <2>2. now' = now /\ events' = events /\ pc' = pc
    BY <1>1 DEF handling
  <2>. QED
    BY <1>t, <1>n, <1>i, <2>1, <2>2, SameKept DEF IInv, Fresh
<1>2. CASE Tick
  <2>1. \A h \in Handler : Same(h)
    BY <1>2 DEF Tick, program, waiting, Same
  <2>2. now' >= now /\ events' = events /\ pc' = pc
    BY <1>2, <1>n DEF Tick
  <2>. QED
    BY <1>t, <1>i, <2>1, <2>2, SameKept DEF IInv, Fresh
<1>3. CASE \E i \in Implementation : Fire(i)
  <2>1. PICK i \in Implementation : Fire(i)
    BY <1>3
  <2>2. events + 1 \in Handler /\ pc[events + 1] = "none"
    <3>1. budget.events \in 0 .. MaxEvents /\ MaxEvents \in Nat
      BY <1>t, BoundsAssumption DEF TypeOK
    <3>2. events + 1 \in Handler
      BY <2>1, <1>n, <3>1 DEF Fire, Handler
    <3>. QED
      BY <3>2, <1>n DEF IInv, Fresh
  <2>k. PICK k \in Handler : k = events + 1 /\ pc[k] = "none"
    BY <2>2
  <2>3. \A h \in Handler \ {k} : Same(h)
    BY <2>1, <2>k, <1>t DEF Fire, program, waiting, Same, TypeOK
  <2>4. HandlerInv(k)'
    <3>1. pc'[k] = "start" /\ event'[k].start = now /\ now' = now
      BY <2>1, <2>k, <1>t DEF Fire, TypeOK
    <3>2. request'[k] = "none" /\ action'[k] = {} /\ ended'[k].how = "none"
      BY <2>1, <2>k, <1>i DEF Fire, program, waiting, HandlerInv, Before
    <3>3. Before(k)' /\ Waited(k)' /\ Seen(k)' /\ Marked(k)'
      BY <3>1, <3>2 DEF Before, Waited, Seen, Marked, Reading
    <3>4. Patient(k)' /\ Finishing(k)'
      BY <3>1, <3>2, <1>n DEF Patient, Finishing
    <3>. QED
      BY <3>3, <3>4 DEF HandlerInv
  <2>5. Fresh'
    BY <2>1, <1>n, <1>t DEF Fire, IInv, Fresh, TypeOK, Handler
  <2>6. now' >= now
    BY <2>1, <1>n DEF Fire
  <2>7. \A h \in Handler \ {k} : HandlerInv(h)'
    BY <1>t, <1>i, <2>3, <2>6, SameKept
  <2>. QED
    BY <1>t, <2>4, <2>5, <2>7 DEF IInv
<1>4. CASE \E h \in Handler : Handling(h) \/ Interpret(h) \/ MarkAction(h) \/ FinishRequest(h)
  <2>1. PICK h \in Handler : Handling(h) \/ Interpret(h) \/ MarkAction(h) \/ FinishRequest(h)
    BY <1>4
  <2>2. now' = now /\ events' = events
    BY <2>1 DEF Handling, NoProgram, Generate, Ask, Initiate, Wait, EndWait, Read, ReadState, ReadFinished, Step,
                Interpret, MarkAction, FinishRequest
  <2>3. \A g \in Handler \ {h} : Same(g)
    <3>. USE <1>t DEF Same, TypeOK, program, waiting
    <3>1. CASE NoProgram(h) \/ Generate(h) \/ Ask(h) \/ Initiate(h)
      <4>1. CASE NoProgram(h)
        BY <4>1 DEF NoProgram, Step
      <4>2. CASE Generate(h)
        BY <4>2 DEF Generate, Step
      <4>3. CASE Ask(h)
        BY <4>3 DEF Ask, Step
      <4>4. CASE Initiate(h)
        BY <4>4 DEF Initiate, Step
      <4>. QED
        BY <3>1, <4>1, <4>2, <4>3, <4>4
    <3>2. CASE Wait(h)
      <4>1. UNCHANGED <<event, patience, asked, request, left, action, report>>
        BY <3>2 DEF Wait, EndWait, Step
      <4>2. /\ pc' = [pc EXCEPT ![h] = "success"]
            /\ \E e : ended' = [ended EXCEPT ![h] = e]
        BY <3>2 DEF Wait, EndWait, Step
      <4>. QED
        BY <4>1, <4>2
    <3>3. CASE Read(h)
      <4>1. UNCHANGED <<event, patience, asked, request, left, action, ended>>
        BY <3>3 DEF Read, ReadState, ReadFinished, Step
      <4>2. PICK next \in {"unsuccess", "error", "finished", "done"} : pc' = [pc EXCEPT ![h] = next]
        BY <3>3 DEF Read, ReadState, ReadFinished, Step
      <4>3. \/ report' = report
            \/ \E answer \in {"ok", "no", "error", "unknown"} : report' = [report EXCEPT ![h] = answer]
        BY <3>3 DEF Read, ReadState, ReadFinished
      <4>. QED
        BY <4>1, <4>2, <4>3
    <3>4. CASE Interpret(h)
      BY <3>4 DEF Interpret
    <3>5. CASE MarkAction(h)
      BY <3>5 DEF MarkAction
    <3>6. CASE FinishRequest(h)
      BY <3>6 DEF FinishRequest
    <3>. QED
      BY <2>1, <3>1, <3>2, <3>3, <3>4, <3>5, <3>6 DEF Handling
  <2>4. HandlerInv(h)'
    BY <2>1, <1>t, <1>i, StepKept
  <2>5. h <= events
    BY <2>1, <1>i, <1>n DEF IInv, Fresh, Handler, Handling, NoProgram, Generate, Ask, Initiate, Wait, EndWait, Read,
                      ReadState, ReadFinished, Step, Interpret, MarkAction, FinishRequest, HandlerInv, Before
  <2>6. Fresh'
    BY <2>2, <2>3, <2>5, <1>n DEF IInv, Fresh, Same, Handler
  <2>. QED
    BY <1>t, <1>n, <1>i, <2>2, <2>3, <2>4, <2>6, SameKept DEF IInv
<1>5. CASE Next
  BY <1>5, <1>1, <1>2, <1>3, <1>4 DEF Next, Scanning, Initialize, Skip, SubscribeNext, UnsubscribeNext, Initialized,
                                   Shutdown, Stopped, ChangeActive, Handle
<1>. QED
  BY <1>1, <1>5 DEF vars

LEMMA IInvReports == IInv => ReportOutcome
<1>. SUFFICES ASSUME IInv, NEW h \in Handler, pc[h] = "done", request[h] # "none"
              PROVE  /\ \A o \in Outcomes \ {"error"} : report[h] = Reported(o) => o \in action[h]
                     /\ report[h] = "unknown" => "finished" \in action[h]
                     /\ ended[h].how = "answered" =>
                          /\ \A o \in Outcomes : action[h] \cap Outcomes = {o} => report[h] = Reported(o)
                          /\ action[h] \cap Outcomes = {} =>
                               report[h] = IF "finished" \in action[h] THEN "unknown" ELSE "error"
                     /\ ended[h].how = "abandoned" => ended[h].at >= asked[h] + Default
                     /\ ended[h].how = "expired" =>
                          ended[h].at >= IF event[h].limit = 0 THEN asked[h] + Default
                                         ELSE event[h].start + event[h].limit
  BY DEF ReportOutcome
<1>i. Patient(h) /\ Waited(h) /\ Seen(h) /\ Marked(h)
  BY DEF IInv, HandlerInv
<1>1. (\A o \in Outcomes \ {"error"} : report[h] = Reported(o) => o \in action[h])
      /\ (report[h] = "unknown" => "finished" \in action[h])
  BY <1>i DEF Marked, Outcomes, Reported
<1>2. ASSUME ended[h].how = "answered"
      PROVE  /\ \A o \in Outcomes : action[h] \cap Outcomes = {o} => report[h] = Reported(o)
             /\ action[h] \cap Outcomes = {} =>
                  report[h] = IF "finished" \in action[h] THEN "unknown" ELSE "error"
  BY <1>2, <1>i DEF Seen, Outcomes, Reported
<1>3. ended[h].how = "abandoned" => ended[h].at >= asked[h] + Default
  BY <1>i DEF Waited
<1>4. ended[h].how = "expired" =>
        ended[h].at >= IF event[h].limit = 0 THEN asked[h] + Default ELSE event[h].start + event[h].limit
  BY <1>i, Numbers DEF Waited, Patient, IInv
<1>. QED
  BY <1>1, <1>2, <1>3, <1>4

\* A handler reports what the program has left on the action of the agent, and
\* gives up neither the customer's time nor the default time early, however
\* the steps of the handler, of the program and of other handlers mix.
THEOREM ReportCorrect == Spec => []ReportOutcome
<1>1. Init => IInv
  BY InitIInv
<1>2. IInv /\ [Next]_vars => IInv'
  BY IInvNext
<1>3. IInv => ReportOutcome
  BY IInvReports
<1>. QED
  BY <1>1, <1>2, <1>3, PTL DEF Spec
=============================================================================
