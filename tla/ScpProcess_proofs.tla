-------------------------- MODULE ScpProcess_proofs -------------------------
(***************************************************************************)
(* What holds of ScpProcess for every set of operators, every program and  *)
(* every number of reactions in flight.                                    *)
(***************************************************************************)
EXTENDS ScpProcess, TLAPS

\* What a reaction is set to is a job.
LEMMA JobsTyped ==
  /\ Idle \in JobType
  /\ Destroying \in JobType
  /\ \A o \in Operator : Executing(o) \in JobType
  /\ \A o \in Operator, e \in Outcome, n \in 0..2 : Ending(o, e, n) \in JobType
  /\ \A o \in Operator, e \in Outcome : Synchronizing(o, e) \in JobType
BY DEF Idle, Destroying, Executing, Ending, Synchronizing, JobAt, JobType, PC,
       CheckPC, Outcome

\* So is a job moved to another step.
LEMMA MovedTyped ==
  ASSUME NEW j \in Job, job[j] \in JobType, NEW pc \in PC,
         NEW T \in SUBSET (Relation \X Operator)
  PROVE  Moved(j, pc, T) \in JobType
BY DEF Moved, JobType

\* The parts of a program have the types ProgramType gives them.
LEMMA ProgramTyped ==
  ASSUME NEW p \in ProgramType, NEW o \in Operator
  PROVE  /\ p.valid \in BOOLEAN /\ p.decomposed \in BOOLEAN
         /\ p.first \in Operator \cup {NoOperator}
         /\ p.kind[o] \in Kind
         /\ p.outcomes[o] \subseteq Outcome
BY DEF ProgramType

\* The state before the request is handled is well formed.
LEMMA TypeInit == Init => TypeOK
BY JobsTyped, ProgramsAssumption DEF Init, TypeOK

\* Every step of every agent keeps the state well formed.
LEMMA TypeNext == TypeOK /\ [Next]_vars => TypeOK'
<1> SUFFICES ASSUME TypeOK, [Next]_vars PROVE TypeOK'
  OBVIOUS
<1> USE JobsTyped, NoOperatorAssumption
<1>1. CASE Interpreter
  <2>1. CASE Refuse \/ Generate \/ Subscribe \/ Wake \/ Timeout
    BY <2>1 DEF Refuse, Generate, Subscribe, Wake, Timeout, TypeOK, ProgramType
  <2>2. ASSUME NEW k \in Job, StartFirst(k) PROVE TypeOK'
    <3>1. prog.first \in Operator
      BY <2>2 DEF StartFirst, HasFirst, TypeOK, ProgramType
    <3> QED BY <2>2, <3>1 DEF StartFirst, TypeOK, State
  <2>3. ASSUME NEW k \in Job, FinishEmpty(k) PROVE TypeOK'
    BY <2>3 DEF FinishEmpty, TypeOK
  <2> QED BY <1>1, <2>1, <2>2, <2>3 DEF Interpreter
<1>2. ASSUME NEW j \in Job, Execution(j) PROVE TypeOK'
  <2>0. job[j] \in JobType /\ job[j].op \in Operator \cup {NoOperator}
        /\ job[j].out \in Outcome /\ job[j].left \in 0..2
    BY DEF TypeOK, JobType
  <2>1. CASE Ignore(j) \/ Abandon(j)
    BY <2>1 DEF Ignore, Abandon, Drop, TypeOK
  <2>2. CASE Execute(j)
    <3>1. PICK e \in prog.outcomes[job[j].op] :
            job' = [job EXCEPT ![j] = Ending(job[j].op, e, 1)]
      BY <2>2 DEF Execute
    <3>2. job[j].op \in Operator
      BY <2>2 DEF Execute, About, TypeOK
    <3>3. e \in Outcome
      BY <3>2, ProgramTyped DEF TypeOK
    <3> QED BY <2>2, <3>1, <3>2, <3>3 DEF Execute, TypeOK
  <2>3. CASE ExecuteMalformedCall(j)
    <3>1. job[j].op \in Operator /\ "error" \in Outcome
      BY <2>3 DEF ExecuteMalformedCall, About, TypeOK, Outcome
    <3> QED BY <2>3, <3>1 DEF ExecuteMalformedCall, TypeOK
  <2>4. CASE FindProcess(j) \/ ClearExecutionState(j) \/ MarkOutcome(j)
    <3>1. \A pc \in {"return", "mark", "finish"} : Moved(j, pc, {}) \in JobType
      BY <2>0, MovedTyped DEF PC
    <3>2. job' \in [Job -> JobType]
      BY <2>4, <3>1 DEF FindProcess, ClearExecutionState, MarkOutcome, Goto, TypeOK
    <3> QED BY <2>0, <2>4, <3>2
            DEF FindProcess, ClearExecutionState, MarkOutcome, TypeOK, State
  <2>5. ASSUME NEW k \in Job, Return(j, k) PROVE TypeOK'
    BY <2>5 DEF Return, TypeOK
  <2>6. ASSUME NEW k \in Job, FinishExecution(j, k) PROVE TypeOK'
    <3>1. job[j].op \in Operator
      BY <2>6 DEF FinishExecution, About, TypeOK
    <3>2. job[j].left > 1 => job[j].left - 1 \in 0..2
      BY <2>0
    <3>3. job' \in [Job -> JobType]
      BY <2>0, <2>6, <3>1, <3>2 DEF FinishExecution, TypeOK
    <3> QED BY <2>6, <3>1, <3>3 DEF FinishExecution, TypeOK, State
  <2> QED BY <1>2, <2>1, <2>2, <2>3, <2>4, <2>5, <2>6 DEF Execution
<1>3. ASSUME NEW j \in Job, Synchronizer(j) PROVE TypeOK'
  <2>0. job[j] \in JobType
    BY DEF TypeOK
  <2>1. CASE CheckState(j)
    <3>1. \A T \in SUBSET (Relation \X Operator) : Moved(j, "activate", T) \in JobType
      BY <2>0, MovedTyped DEF PC
    <3>2. job[j].pc \in CheckPC /\ job[j].pc # "checkFinished" =>
            Moved(j, Follower[job[j].pc], {}) \in JobType
      BY <2>0, MovedTyped DEF PC, CheckPC, Follower
    <3>3. \A o, f : Successors(prog, o, f) \subseteq Relation \X Operator
      BY DEF Successors
    <3>4. job' \in [Job -> JobType]
      BY <2>1, <3>1, <3>2, <3>3 DEF CheckState, TypeOK
    <3> QED BY <2>1, <3>4 DEF CheckState, TypeOK
  <2>2. CASE StopActivating(j)
    BY <2>2 DEF StopActivating, Drop, TypeOK
  <2>3. ASSUME NEW k \in Job, NEW a \in Relation \X Operator, Activate(j, k, a)
        PROVE  TypeOK'
    <3>1. a[2] \in Operator
      OBVIOUS
    <3>2. Moved(j, "activate", job[j].todo \ {a}) \in JobType
      BY <2>0, MovedTyped DEF JobType, PC
    <3>3. job' \in [Job -> JobType]
      BY <2>3, <3>1, <3>2 DEF Activate, TypeOK
    <3> QED BY <2>3, <3>1, <3>3 DEF Activate, TypeOK, State
  <2> QED BY <1>3, <2>1, <2>2, <2>3 DEF Synchronizer
<1>4. ASSUME NEW j \in Job, Destroyer(j) PROVE TypeOK'
  <2>1. Moved(j, "erase", {}) \in JobType /\ Moved(j, "eraseProcess", {}) \in JobType
    BY MovedTyped DEF TypeOK, PC
  <2>2. CASE BeginDestroy(j) \/ EraseDecomposition(j) \/ EraseProcess(j)
    BY <2>1, <2>2 DEF BeginDestroy, EraseDecomposition, EraseProcess, Goto, Drop, TypeOK
  <2>3. ASSUME NEW o \in Operator, EraseOperator(j, o) PROVE TypeOK'
    BY <2>3 DEF EraseOperator, TypeOK
  <2> QED BY <1>4, <2>2, <2>3 DEF Destroyer
<1>5. CASE UNCHANGED vars
  BY <1>5 DEF vars, TypeOK
<1> QED BY <1>1, <1>2, <1>3, <1>4, <1>5 DEF Next

\* Every reachable state is well formed, whatever the program.
THEOREM TypeCorrect == Spec => []TypeOK
BY TypeInit, TypeNext, PTL DEF Spec

-----------------------------------------------------------------------------
(* Erasing, for every program. *)

\* Which handlers a job set to one of these belongs to.
LEMMA JobFields ==
  /\ Idle.pc = "idle" /\ Idle.op = NoOperator
  /\ Destroying.pc = "destroy" /\ Destroying.op = NoOperator
  /\ \A o : Executing(o).pc = "execute" /\ Executing(o).op = o
  /\ \A o, e, n : /\ Ending(o, e, n).pc = "clear" /\ Ending(o, e, n).op = o
                  /\ Ending(o, e, n).out = e /\ Ending(o, e, n).left = n
  /\ \A o, e : /\ Synchronizing(o, e).pc = "checkError"
               /\ Synchronizing(o, e).op = o /\ Synchronizing(o, e).out = e
  /\ \A j, pc, T : /\ Moved(j, pc, T).pc = pc /\ Moved(j, pc, T).op = job[j].op
                   /\ Moved(j, pc, T).out = job[j].out
                   /\ Moved(j, pc, T).left = job[j].left
                   /\ Moved(j, pc, T).todo = T
BY DEF Idle, Destroying, Executing, Ending, Synchronizing, JobAt, Moved

\* Nothing exists before the request is handled.
LEMMA ErasureInit == Init => ErasureInv
BY JobFields DEF Init, ErasureInv, ErasedLeavesNothing, Busy

\* A step adds arcs to operators that exist only, and only a finished process
\* is taken apart.
LEMMA ErasureNext == TypeOK /\ ErasureInv /\ [Next]_vars => ErasureInv'
<1> SUFFICES ASSUME TypeOK, ErasureInv, [Next]_vars PROVE ErasureInv'
  OBVIOUS
<1> USE JobFields DEF Busy, ErasureInv, ErasedLeavesNothing
<1>1. CASE Interpreter
  <2>1. CASE Refuse \/ Subscribe \/ Wake \/ Timeout
    BY <2>1 DEF Refuse, Subscribe, Wake, Timeout
  <2>2. CASE Generate
    BY <2>2 DEF Generate, TypeOK
  <2>3. ASSUME NEW k \in Job, StartFirst(k) PROVE ErasureInv'
    <3>1. prog.first \in Operator
      BY <2>3 DEF StartFirst, HasFirst, TypeOK, ProgramType
    <3> QED BY <2>3, <3>1 DEF StartFirst, HasFirst, TypeOK
  <2>4. ASSUME NEW k \in Job, FinishEmpty(k) PROVE ErasureInv'
    BY <2>4 DEF FinishEmpty, TypeOK
  <2> QED BY <1>1, <2>1, <2>2, <2>3, <2>4 DEF Interpreter
<1>2. ASSUME NEW j \in Job, Execution(j) PROVE ErasureInv'
  <2>1. CASE Ignore(j) \/ Abandon(j)
    BY <2>1 DEF Ignore, Abandon, Drop, TypeOK
  <2>2. CASE Execute(j) \/ ExecuteMalformedCall(j)
    BY <2>2 DEF Execute, ExecuteMalformedCall, About, TypeOK
  <2>3. CASE FindProcess(j) \/ ClearExecutionState(j)
    BY <2>3 DEF FindProcess, About, ClearExecutionState, Goto, TypeOK
  <2>4. CASE MarkOutcome(j)
    BY <2>4 DEF MarkOutcome, About, Goto, TypeOK
  <2>5. ASSUME NEW k \in Job, Return(j, k) PROVE ErasureInv'
    BY <2>5 DEF Return, About, NewJob, TypeOK
  <2>6. ASSUME NEW k \in Job, FinishExecution(j, k) PROVE ErasureInv'
    BY <2>6 DEF FinishExecution, About, NewJob, TypeOK
  <2> QED BY <1>2, <2>1, <2>2, <2>3, <2>4, <2>5, <2>6 DEF Execution
<1>3. ASSUME NEW j \in Job, Synchronizer(j) PROVE ErasureInv'
  <2>1. CASE CheckState(j)
    BY <2>1 DEF CheckState, CheckPC, Follower, TypeOK
  <2>2. CASE StopActivating(j)
    BY <2>2 DEF StopActivating, Drop, TypeOK
  <2>3. ASSUME NEW k \in Job, NEW a \in Relation \X Operator, Activate(j, k, a)
        PROVE  ErasureInv'
    BY <2>3 DEF Activate, About, NewJob, TypeOK
  <2> QED BY <1>3, <2>1, <2>2, <2>3 DEF Synchronizer
<1>4. ASSUME NEW j \in Job, Destroyer(j) PROVE ErasureInv'
  <2>1. CASE BeginDestroy(j) \/ EraseDecomposition(j) \/ EraseProcess(j)
    BY <2>1 DEF BeginDestroy, EraseDecomposition, EraseProcess, Goto, Drop, TypeOK
  <2>2. ASSUME NEW o \in Operator, EraseOperator(j, o) PROVE ErasureInv'
    BY <2>2 DEF EraseOperator, TypeOK
  <2> QED BY <1>4, <2>1, <2>2 DEF Destroyer
<1>5. CASE UNCHANGED vars
  BY <1>5 DEF vars
<1> QED BY <1>1, <1>2, <1>3, <1>4, <1>5 DEF Next

\* Hence ErasureInv, of every program.
LEMMA ErasureHolds == Spec => [](TypeOK /\ ErasureInv)
BY TypeInit, TypeNext, ErasureInit, ErasureNext, PTL DEF Spec

\* Late handlers of an erased process leave no arc in it.
THEOREM ErasureCorrect == Spec => []ErasedLeavesNothing
<1>1. ErasureInv => ErasedLeavesNothing
  BY DEF ErasureInv
<1> QED BY <1>1, ErasureHolds, PTL

\* Only a finished process loses operators.
THEOREM ErasureOrdered == Spec => ErasedOnlyWhenFinished
<1>1. TypeOK /\ ErasureInv /\ [Next]_vars =>
        [alive \subseteq alive' \/ process = "finished"]_vars
  <2> SUFFICES ASSUME TypeOK, ErasureInv, Next
               PROVE  alive \subseteq alive' \/ process = "finished"
    OBVIOUS
  <2>1. CASE Interpreter
    BY <2>1 DEF Interpreter, Refuse, Generate, Subscribe, Wake, Timeout, StartFirst,
                FinishEmpty, ErasureInv
  <2>2. ASSUME NEW j \in Job, Execution(j) \/ Synchronizer(j)
        PROVE  alive \subseteq alive'
    BY <2>2 DEF Execution, Synchronizer, Ignore, Execute, ExecuteMalformedCall,
                FindProcess, ClearExecutionState, MarkOutcome, Abandon, Return,
                FinishExecution, CheckState, StopActivating, Activate
  <2>3. ASSUME NEW j \in Job, Destroyer(j)
        PROVE  alive \subseteq alive' \/ process = "finished"
    BY <2>3 DEF Destroyer, BeginDestroy, EraseDecomposition, EraseProcess,
                EraseOperator, ErasureInv, ErasedLeavesNothing
  <2> QED BY <2>1, <2>2, <2>3 DEF Next
<1> QED BY <1>1, ErasureHolds, PTL DEF Spec, ErasedOnlyWhenFinished
-----------------------------------------------------------------------------
(* Control, for every program whose control never forks. *)

\* A request never changes its program.
LEMMA ProgramFixed == [Next]_vars => prog' = prog
<1> SUFFICES ASSUME Next PROVE prog' = prog
  BY DEF vars
<1>1. CASE Interpreter
  BY <1>1 DEF Interpreter, Refuse, Generate, Subscribe, Wake, Timeout, StartFirst,
              FinishEmpty
<1>2. ASSUME NEW j \in Job, Execution(j) PROVE prog' = prog
  BY <1>2 DEF Execution, Ignore, Execute, ExecuteMalformedCall, FindProcess, Return,
              ClearExecutionState, MarkOutcome, Abandon, FinishExecution
<1>3. ASSUME NEW j \in Job, Synchronizer(j) PROVE prog' = prog
  BY <1>3 DEF Synchronizer, CheckState, StopActivating, Activate
<1>4. ASSUME NEW j \in Job, Destroyer(j) PROVE prog' = prog
  BY <1>4 DEF Destroyer, BeginDestroy, EraseDecomposition, EraseProcess, EraseOperator
<1> QED BY <1>1, <1>2, <1>3, <1>4 DEF Next

\* The one reaction in flight has the others idle.
LEMMA Alone ==
  ASSUME ControlInv, Sequential(prog), NEW j \in Job, Busy(j)
  PROVE  \A i \in Job : i # j => job[i].pc = "idle" /\ job[i].op = NoOperator
BY DEF ControlInv, SingleReaction, Busy

\* No reaction is in flight at first.
LEMMA ControlInit == Init => ControlInv
BY JobFields DEF Init, ControlInv, SingleReaction, ActiveMeansExecuting, Busy

\* Each step of a sequential process either moves its one reaction on or ends
\* it as the next one is queued.
LEMMA ControlNext == TypeOK /\ ErasureInv /\ ControlInv /\ [Next]_vars => ControlInv'
<1> SUFFICES ASSUME TypeOK, ErasureInv, ControlInv, [Next]_vars
             PROVE  ControlInv'
  OBVIOUS
<1>p. prog' = prog
  BY ProgramFixed
<1> SUFFICES ASSUME Sequential(prog) PROVE ControlInv'
  BY <1>p DEF ControlInv, Sequential, Successors
<1> USE JobFields, NoOperatorAssumption
<1>0. /\ SingleReaction /\ ActiveMeansExecuting
      /\ \A j \in Job : IF job[j].pc \in {"idle", "destroy", "erase", "eraseProcess"}
                        THEN job[j].op = NoOperator
                        ELSE job[j].op \in Operator /\ Handled(j)
  BY DEF ControlInv
<1>3. CASE UNCHANGED <<prog, process, alive, state, job>>
  BY <1>0, <1>3 DEF vars, ControlInv, SingleReaction, ActiveMeansExecuting, Busy,
                    Handled, Successors
<1>1. CASE Interpreter
  <2>1. CASE Refuse \/ Subscribe \/ Wake \/ Timeout
    BY <1>3, <2>1 DEF Refuse, Subscribe, Wake, Timeout
  <2>2. CASE Generate
    BY <1>0, <2>2 DEF Generate, ControlInv, SingleReaction, ActiveMeansExecuting,
                      Busy, ErasureInv
  <2>3. ASSUME NEW k \in Job, StartFirst(k) PROVE ControlInv'
    <3>1. /\ prog.first \in Operator /\ alive = Operator /\ process = "running"
          /\ \A i \in Job : ~Busy(i)
      BY <2>3 DEF StartFirst, HasFirst, ErasureInv, TypeOK, ProgramType
    <3>2. SingleReaction'
      BY <2>3, <3>1 DEF StartFirst, SingleReaction, Busy, TypeOK
    <3>3. ActiveMeansExecuting'
      BY <1>0, <2>3, <3>1 DEF StartFirst, ActiveMeansExecuting, Busy, TypeOK
    <3> QED BY <1>0, <2>3, <3>1, <3>2, <3>3
            DEF StartFirst, ControlInv, Handled, Busy, TypeOK, CheckPC
  <2>4. ASSUME NEW k \in Job, FinishEmpty(k) PROVE ControlInv'
    <3>1. \A i \in Job : ~Busy(i)
      BY <2>4 DEF FinishEmpty, ErasureInv
    <3> QED BY <1>0, <2>4, <3>1 DEF FinishEmpty, ControlInv, SingleReaction,
                                    ActiveMeansExecuting, Busy, TypeOK
  <2> QED BY <1>1, <2>1, <2>2, <2>3, <2>4 DEF Interpreter
<1>2. ASSUME NEW j \in Job, Busy(j),
             Execution(j) \/ Synchronizer(j) \/ Destroyer(j)
      PROVE  ControlInv'
  <2>0. \A i \in Job : i # j => job[i].pc = "idle" /\ job[i].op = NoOperator
    BY <1>2, Alone
  <2>t. job[j].pc \in PC /\ job[j].out \in Outcome /\ job[j].left \in 0..2
    BY DEF TypeOK, JobType
  <2>1. ASSUME Drop(j), UNCHANGED state,
               \/ job[j].op = NoOperator
               \/ prog.kind[job[j].op] \in {"return", "untyped"}
               \/ job[j].pc \notin {"execute", "clear"}
        PROVE  ControlInv'
    BY <1>0, <1>p, <2>0, <2>1 DEF Drop, ControlInv, SingleReaction,
                                  ActiveMeansExecuting, Busy, TypeOK
  <2>2. ASSUME NEW pc \in {"erase", "eraseProcess"}, Goto(j, pc),
               job[j].pc \in {"destroy", "erase"}, UNCHANGED state
        PROVE  ControlInv'
    BY <1>0, <1>p, <2>0, <2>2 DEF Goto, ControlInv, SingleReaction,
                                  ActiveMeansExecuting, Busy, TypeOK
  <2>3. ASSUME NEW i \in Job, job'[i].op \in Operator, Handled(i)',
               job'[i].pc \notin {"idle", "destroy", "erase", "eraseProcess"},
               \A h \in Job : h # i => job'[h].pc = "idle" /\ job'[h].op = NoOperator,
               ActiveMeansExecuting'
        PROVE  ControlInv'
    BY <2>3 DEF ControlInv, SingleReaction, Busy
  <2>4. CASE Execution(j)
    <3>0. job[j].pc \in {"execute", "return", "clear", "mark", "finish"}
          /\ job[j].op \in Operator /\ Handled(j)
      BY <1>0, <2>4 DEF Execution, Ignore, Execute, ExecuteMalformedCall, FindProcess,
                        About, Abandon, ClearExecutionState, MarkOutcome, Return,
                        FinishExecution
    <3>1. CASE Ignore(j)
      BY <2>1, <3>0, <3>1 DEF Ignore, Handled
    <3>2. CASE Execute(j)
      <4>1. PICK e \in prog.outcomes[job[j].op] :
              job' = [job EXCEPT ![j] = Ending(job[j].op, e, 1)]
        BY <3>2 DEF Execute
      <4>2. Handled(j)'
        BY <1>p, <3>0, <3>2, <4>1 DEF Execute, About, Handled, TypeOK, CheckPC
      <4>3. ActiveMeansExecuting'
        BY <1>0, <1>p, <2>0, <3>2, <4>1 DEF Execute, ActiveMeansExecuting, TypeOK
      <4> QED BY <2>0, <2>3, <3>0, <4>1, <4>2, <4>3 DEF TypeOK
    <3>3. CASE ExecuteMalformedCall(j)
      BY <3>0, <3>3 DEF ExecuteMalformedCall, Sequential
    <3>4. CASE ClearExecutionState(j)
      <4>1. Handled(j)'
        BY <1>p, <3>0, <3>4 DEF ClearExecutionState, Goto, Handled, TypeOK, CheckPC
      <4>2. ActiveMeansExecuting'
        BY <1>0, <1>p, <2>0, <3>0, <3>4
           DEF ClearExecutionState, Goto, ActiveMeansExecuting, TypeOK
      <4> QED BY <2>0, <2>3, <3>0, <3>4, <4>1, <4>2
              DEF ClearExecutionState, Goto, TypeOK
    <3>5. CASE MarkOutcome(j)
      <4>1. Handled(j)'
        BY <1>p, <3>0, <3>5 DEF MarkOutcome, About, Goto, Handled, TypeOK, CheckPC
      <4>2. ActiveMeansExecuting'
        BY <1>0, <1>p, <2>0, <2>t, <3>0, <3>5
           DEF MarkOutcome, About, Goto, ActiveMeansExecuting, TypeOK, Outcome
      <4> QED BY <2>0, <2>3, <3>0, <3>5, <4>1, <4>2 DEF MarkOutcome, Goto, TypeOK
    <3>6. CASE Abandon(j)
      BY <3>0, <3>6 DEF Abandon, Handled
    <3>9. CASE FindProcess(j)
      <4>1. Handled(j)'
        BY <1>p, <3>0, <3>9 DEF FindProcess, About, Goto, Handled, TypeOK, CheckPC
      <4>2. ActiveMeansExecuting'
        BY <1>0, <1>p, <2>0, <3>0, <3>9
           DEF FindProcess, Goto, ActiveMeansExecuting, TypeOK
      <4> QED BY <2>0, <2>3, <3>0, <3>9, <4>1, <4>2 DEF FindProcess, Goto, TypeOK
    <3>7. ASSUME NEW k \in Job, Return(j, k) PROVE ControlInv'
      <4>1. job' = [job EXCEPT ![j] = Idle, ![k] = Destroying] /\ k # j
            /\ prog.kind[job[j].op] = "return" /\ state' = state
        BY <1>2, <3>0, <3>7 DEF Return, NewJob, Handled
      <4>2. ActiveMeansExecuting'
        BY <1>0, <1>p, <2>0, <4>1 DEF ActiveMeansExecuting, TypeOK
      <4> QED BY <2>0, <4>1, <4>2 DEF ControlInv, SingleReaction, Busy, TypeOK
    <3>8. ASSUME NEW k \in Job, FinishExecution(j, k) PROVE ControlInv'
      <4>1. /\ job' = [job EXCEPT ![j] = Idle,
                                  ![k] = Synchronizing(job[j].op, job[j].out)]
            /\ k # j /\ state[job[j].op] = {job[j].out}
            /\ state' = [state EXCEPT ![job[j].op] = {job[j].out, "finished"}]
        <5>1. job[j].pc = "finish" /\ job[j].left = 1 /\ state[job[j].op] = {job[j].out}
          BY <3>0, <3>8 DEF FinishExecution, About, Handled
        <5>2. k # j
          BY <1>2, <3>8 DEF FinishExecution, NewJob
        <5>3. state[job[j].op] \cup {"finished"} = {job[j].out, "finished"}
          BY <5>1
        <5>4. job' = [job EXCEPT ![j] = Idle,
                                 ![k] = Synchronizing(job[j].op, job[j].out)]
          BY <3>8, <5>1 DEF FinishExecution
        <5>5. state' = [state EXCEPT ![job[j].op] = state[job[j].op] \cup {"finished"}]
          BY <3>8 DEF FinishExecution
        <5> QED BY <5>1, <5>2, <5>3, <5>4, <5>5
      <4>2. Handled(k)'
        BY <1>p, <3>0, <3>8, <4>1 DEF FinishExecution, About, Handled, TypeOK, CheckPC
      <4>3. ActiveMeansExecuting'
        BY <1>0, <1>p, <2>0, <2>t, <3>0, <3>8, <4>1
           DEF FinishExecution, About, ActiveMeansExecuting, TypeOK, Outcome
      <4> QED BY <2>0, <2>3, <3>0, <4>1, <4>2, <4>3 DEF TypeOK, CheckPC
    <3> QED BY <2>4, <3>1, <3>2, <3>3, <3>4, <3>5, <3>6, <3>7, <3>8, <3>9
        DEF Execution
  <2>5. CASE Synchronizer(j)
    <3>0. job[j].pc \in CheckPC \cup {"activate"} /\ job[j].op \in Operator /\ Handled(j)
      BY <1>0, <2>5 DEF Synchronizer, CheckState, StopActivating, Activate, About, CheckPC
    <3>1. CASE CheckState(j)
      <4>1. CASE Drop(j)
        BY <2>1, <3>0, <3>1, <4>1 DEF CheckState, CheckPC
      <4>2. ASSUME NEW pc \in CheckPC, job[j].pc \in CheckPC, pc = Follower[job[j].pc],
                   Sought[job[j].pc] \notin state[job[j].op],
                   job' = [job EXCEPT ![j] = Moved(j, pc, {})]
            PROVE  ControlInv'
        <5>3. /\ job'[j].pc = pc /\ job'[j].op = job[j].op /\ job'[j].out = job[j].out
              /\ state' = state /\ process' = process /\ alive' = alive
          BY <1>p, <3>1, <4>2 DEF CheckState, Moved, TypeOK
        <5>4. /\ process = "running" /\ alive = Operator
              /\ prog.kind[job[j].op] = "plain"
              /\ job[j].out \in prog.outcomes[job[j].op]
              /\ state[job[j].op] = {job[j].out, "finished"}
          BY <3>0, <4>2 DEF Handled, CheckPC
        <5>5. /\ job[j].out \in Outcome /\ job[j].pc # "checkFinished"
              /\ job[j].pc = "checkSuccess" => job[j].out # "error"
              /\ job[j].pc = "checkUnsuccess" => job[j].out = "unsuccess"
          BY <2>t, <3>0 DEF Handled
        <5>6. Sought[job[j].pc] # job[j].out
          BY <4>2, <5>4
        <5>7. \/ pc = "checkSuccess" /\ job[j].out # "error"
              \/ pc = "checkUnsuccess" /\ job[j].out = "unsuccess"
          BY <4>2, <5>5, <5>6 DEF Sought, Follower, CheckPC, Outcome
        <5>1. Handled(j)'
          BY <1>p, <5>3, <5>4, <5>7 DEF Handled, CheckPC
        <5>2. ActiveMeansExecuting'
          BY <1>0, <1>p, <2>0, <3>1, <4>2
             DEF CheckState, ActiveMeansExecuting, TypeOK, CheckPC
        <5> QED BY <2>0, <2>3, <3>0, <4>2, <5>1, <5>2 DEF TypeOK, CheckPC
      <4>3. ASSUME job[j].pc \in CheckPC, Sought[job[j].pc] \in state[job[j].op],
                   NEW T, T = Successors(prog, job[j].op, Sought[job[j].pc]), T # {},
                   job' = [job EXCEPT ![j] = Moved(j, "activate", T)]
            PROVE  ControlInv'
        <5>1. Sought[job[j].pc] = job[j].out
          BY <2>t, <3>0, <4>3 DEF Handled, Sought, CheckPC, Outcome
        <5>2. Handled(j)'
          BY <1>p, <3>0, <3>1, <4>3, <5>1 DEF CheckState, Handled, TypeOK, CheckPC
        <5>3. ActiveMeansExecuting'
          BY <1>0, <1>p, <2>0, <3>1, <4>3
             DEF CheckState, ActiveMeansExecuting, TypeOK, CheckPC
        <5> QED BY <2>0, <2>3, <3>0, <4>3, <5>2, <5>3 DEF TypeOK
      <4>4. job[j].pc \in CheckPC /\ job[j].pc # "checkFinished"
        BY <3>0, <3>1 DEF CheckState, Handled
      <4>5. CASE Sought[job[j].pc] \in state[job[j].op]
        BY <3>1, <4>1, <4>3, <4>4, <4>5 DEF CheckState, Drop
      <4>6. CASE Sought[job[j].pc] \notin state[job[j].op]
        <5>1. Follower[job[j].pc] \in CheckPC
          BY <4>4 DEF Follower, CheckPC
        <5> QED BY <3>1, <4>2, <4>4, <4>6, <5>1 DEF CheckState
      <4> QED BY <4>5, <4>6
    <3>2. CASE StopActivating(j)
      BY <2>1, <3>2 DEF StopActivating
    <3>3. ASSUME NEW k \in Job, NEW a \in Relation \X Operator, Activate(j, k, a)
          PROVE  ControlInv'
      <4>0. a \in job[j].todo /\ job[j].todo \subseteq Successors(prog, job[j].op, job[j].out)
        BY <3>0, <3>3 DEF Activate, About, NextArc, Handled
      <4>1. job[j].todo = {a}
        BY <2>t, <3>0, <4>0 DEF Sequential
      <4>2. /\ job' = [job EXCEPT ![j] = Idle, ![k] = Executing(a[2])] /\ k # j
            /\ state' = [state EXCEPT ![a[2]] = @ \cup {"active"}]
            /\ a[2] \in Operator /\ process' = "running" /\ alive' = Operator
        BY <1>2, <3>0, <3>3, <4>1 DEF Activate, NewJob, Handled
      <4>3. Handled(k)'
        BY <1>p, <4>2 DEF Handled, TypeOK, CheckPC
      <4>4. ActiveMeansExecuting'
        BY <1>0, <1>p, <2>0, <3>0, <4>2 DEF ActiveMeansExecuting, TypeOK, CheckPC
      <4> QED BY <2>0, <2>3, <4>2, <4>3, <4>4 DEF TypeOK
    <3> QED BY <2>5, <3>1, <3>2, <3>3 DEF Synchronizer
  <2>6. CASE Destroyer(j)
    <3>1. CASE BeginDestroy(j) \/ EraseDecomposition(j) \/ EraseProcess(j)
      BY <1>0, <2>1, <2>2, <3>1 DEF BeginDestroy, EraseDecomposition, EraseProcess
    <3>2. ASSUME NEW o \in Operator, EraseOperator(j, o) PROVE ControlInv'
      BY <1>0, <1>p, <2>0, <3>2 DEF EraseOperator, ControlInv, SingleReaction,
                                    ActiveMeansExecuting, Busy, TypeOK
    <3> QED BY <2>6, <3>1, <3>2 DEF Destroyer
  <2> QED BY <1>2, <2>4, <2>5, <2>6
<1>4. ASSUME NEW j \in Job, Execution(j) \/ Synchronizer(j) \/ Destroyer(j)
      PROVE  Busy(j)
  BY <1>4 DEF Busy, Execution, Synchronizer, Destroyer, Ignore, Execute,
              ExecuteMalformedCall, FindProcess, About, ClearExecutionState, MarkOutcome,
              Abandon, Return, FinishExecution, CheckState, CheckPC, StopActivating, Activate,
              BeginDestroy, EraseDecomposition, EraseProcess, EraseOperator
<1> QED BY <1>1, <1>2, <1>3, <1>4 DEF Next, vars

\* Hence ControlInv.
LEMMA ControlHolds == Spec => [](TypeOK /\ ErasureInv /\ ControlInv)
BY TypeInit, TypeNext, ErasureInit, ErasureNext, ControlInit, ControlNext, PTL DEF Spec

\* A sequential process has one reaction in flight at most.
THEOREM SequentialReaction == Spec => []SingleReaction
<1>1. ControlInv => SingleReaction
  BY DEF ControlInv, SingleReaction
<1> QED BY <1>1, ControlHolds, PTL

\* Its synchronizer follows the outcome it was told of.
THEOREM SequentialOutcome == Spec => []SynchronizedOutcome
<1>1. ControlInv => SynchronizedOutcome
  BY DEF ControlInv, Handled, SynchronizedOutcome, OutcomeFollowed
<1> QED BY <1>1, ControlHolds, PTL

\* No handler of it meets an erased operator.
THEOREM SequentialLiveness == Spec => []HandledOperatorsLive
<1>1. ControlInv => HandledOperatorsLive
  BY DEF ControlInv, Handled, HandledOperatorsLive
<1> QED BY <1>1, ControlHolds, PTL

\* Only an operator that its interpreter has yet to finish is active.
THEOREM SequentialActive == Spec => []ActiveMeansExecuting
<1>1. ControlInv => ActiveMeansExecuting
  BY DEF ControlInv, ActiveMeansExecuting
<1> QED BY <1>1, ControlHolds, PTL

-----------------------------------------------------------------------------
(* Refinement. *)

\* The synchronizer's relations lead where the abstract machine goes.
LEMMA SuccessorsOnward ==
  ASSUME NEW o, NEW e \in Outcome
  PROVE  /\ \A a \in Successors(prog, o, e) : a[2] \in Flow!Onward(o, e)
         /\ prog \in ProgramType /\ o \in Operator /\ Successors(prog, o, e) = {} =>
              Flow!Onward(o, e) = {}
<1>1. ASSUME NEW a \in Successors(prog, o, e) PROVE a[2] \in Flow!Onward(o, e)
  BY <1>1 DEF Successors, Taken, Flow!Onward, Outcome
<1>2. ASSUME prog \in ProgramType, o \in Operator, NEW t \in Flow!Onward(o, e)
      PROVE  Successors(prog, o, e) # {}
  <2>1. PICK r \in Taken[e] : t \in prog.next[r][o]
    BY <1>2 DEF Taken, Flow!Onward, Outcome
  <2>2. r \in Relation
    BY <2>1 DEF Taken, Relation, Outcome
  <2>3. t \in Operator
    BY <1>2, <2>1, <2>2 DEF ProgramType
  <2>4. <<r, t>> \in Relation \X Operator /\ <<r, t>>[1] = r /\ <<r, t>>[2] = t
    BY <2>2, <2>3
  <2>5. <<r, t>> \in Successors(prog, o, e)
    BY <2>1, <2>4 DEF Successors
  <2> QED BY <2>5
<1> QED BY <1>1, <1>2

\* The only job at an operator is the one CHOOSE finds.
LEMMA ChosenJob ==
  ASSUME NEW f, NEW j \in Job, f[j].op # NoOperator,
         \A i \in Job : i # j => f[i].op = NoOperator
  PROVE  (CHOOSE i \in Job : f[i].op # NoOperator) = j
OBVIOUS

\* The initial states are those of the abstract machine.
LEMMA FlowInit == Init => Flow!Init
BY JobFields, NoOperatorAssumption
   DEF Init, Flow!Init, Phase, At

\* A step of an agent is one step of the abstract machine, or none.
LEMMA FlowNext ==
  TypeOK /\ ErasureInv /\ ControlInv /\ Sequential(prog) /\ [Next]_vars
    => [Flow!Next]_Flow!vars
<1> SUFFICES ASSUME TypeOK, ErasureInv, ControlInv, Sequential(prog), [Next]_vars
             PROVE  Flow!Next \/ UNCHANGED Flow!vars
  OBVIOUS
<1>p. prog' = prog
  BY ProgramFixed
<1> DEFINE Early == {"initiated", "generated", "unsuccessful"}
\* Where the abstract machine is when no job is at an operator, and when one is.
<1>a. ASSUME \A i \in Job : job[i].op = NoOperator
      PROVE  /\ Phase # "running" /\ At = NoOperator /\ ~AtOperator
  BY <1>a DEF Phase, At, AtOperator
<1>b. ASSUME \A i \in Job : job'[i].op = NoOperator
      PROVE  /\ Phase' # "running" /\ At' = NoOperator /\ ~AtOperator'
  BY <1>b DEF Phase, At, AtOperator
<1>c. ASSUME NEW j \in Job, job[j].op # NoOperator
      PROVE  /\ Busy(j) /\ job[j].op \in Operator /\ Handled(j) /\ request \notin Early
             /\ Phase = "running" /\ At = job[j].op
             /\ \A i \in Job : i # j => job[i].op = NoOperator
  <2>1. Busy(j) /\ job[j].op \in Operator /\ Handled(j)
    BY <1>c DEF ControlInv, Busy
  <2>2. \A i \in Job : i # j => job[i].op = NoOperator
    BY <2>1, Alone
  <2>3. request \notin Early /\ process = "running"
    BY <2>1 DEF ErasureInv, Handled
  <2>4. Current = j
    BY <1>c, <2>2, ChosenJob DEF Current
  <2> QED BY <1>c, <2>1, <2>2, <2>3, <2>4 DEF Phase, At, AtOperator
<1>d. ASSUME NEW j \in Job, job'[j].op # NoOperator, request' \notin Early,
             process' = "running", \A i \in Job : i # j => job'[i].op = NoOperator
      PROVE  Phase' = "running" /\ At' = job'[j].op
  <2>1. Current' = j
    BY <1>d, ChosenJob DEF Current
  <2> QED BY <1>d, <2>1 DEF Phase, At, AtOperator
<1>3. CASE UNCHANGED vars
  BY <1>3 DEF vars, Flow!vars, Phase, At, AtOperator, Current
<1>4. ASSUME NEW j \in Job, NEW k \in Job, job[j].op # NoOperator,
             job'[k].op = job[j].op, UNCHANGED <<request, process>>,
             \A i \in Job : i # k => job'[i].op = NoOperator
      PROVE  UNCHANGED Flow!vars
  <2>1. Phase = "running" /\ At = job[j].op /\ process' = "running" /\ request' \notin Early
    BY <1>4, <1>c DEF Handled
  <2> QED BY <1>4, <1>p, <1>d, <2>1 DEF Flow!vars
<1>5. CASE Interpreter
  <2>1. CASE Refuse
    <3>1. Phase = "ready" /\ Phase' = "refused" /\ At = NoOperator /\ At' = NoOperator
      BY <2>1 DEF Refuse, Phase, At
    <3> QED BY <1>p, <2>1, <3>1 DEF Refuse, Flow!Next, Flow!Refuse, Flow!Stop
  <2>2. CASE Generate
    BY <1>p, <2>2 DEF Generate, Phase, At, Flow!vars
  <2>3. CASE Subscribe \/ Wake \/ Timeout
    <3>1. UNCHANGED <<process, job>> /\ request \notin Early /\ request' \notin Early
      BY <2>3 DEF Subscribe, Wake, Timeout
    <3>2. UNCHANGED <<AtOperator, Current>>
      BY <3>1 DEF AtOperator, Current
    <3>3. Phase' = Phase
      BY <3>1, <3>2 DEF Phase
    <3> QED BY <1>p, <3>1, <3>2, <3>3 DEF At, Flow!vars
  <2>4. ASSUME NEW k \in Job, StartFirst(k) PROVE Flow!Next
    <3>1. /\ prog.valid /\ HasFirst /\ prog.first \in Operator
          /\ job' = [job EXCEPT ![k] = Executing(prog.first)]
          /\ process' = "running" /\ request' = "started"
          /\ \A i \in Job : job[i].op = NoOperator
      BY <2>4 DEF StartFirst, HasFirst, ErasureInv, ControlInv, Busy, TypeOK, ProgramType
    <3>2. Phase = "ready" /\ At = NoOperator
      BY <2>4 DEF StartFirst, Phase, At
    <3>3. Phase' = "running" /\ At' = prog.first
      BY <1>d, <3>1, JobFields, NoOperatorAssumption DEF TypeOK
    <3> QED BY <1>p, <3>1, <3>2, <3>3 DEF HasFirst, Flow!Next, Flow!Begin
  <2>5. ASSUME NEW k \in Job, FinishEmpty(k) PROVE Flow!Next
    <3>1. /\ Phase = "ready" /\ At = NoOperator /\ prog.valid /\ ~HasFirst
          /\ Phase' = "returned" /\ At' = NoOperator
      BY <2>5 DEF FinishEmpty, Phase, At, ErasureInv
    <3> QED BY <1>p, <3>1 DEF HasFirst, Flow!Next, Flow!Skip, Flow!Stop
  <2> QED BY <1>5, <2>1, <2>2, <2>3, <2>4, <2>5 DEF Interpreter
<1>6. ASSUME NEW j \in Job, Execution(j) PROVE Flow!Next \/ UNCHANGED Flow!vars
  <2>1. job[j].op # NoOperator
    <3>1. job[j].pc \in {"execute", "return", "clear", "mark", "finish"}
      BY <1>6 DEF Execution, Ignore, Execute, ExecuteMalformedCall, FindProcess, About,
                  Abandon, ClearExecutionState, MarkOutcome, Return, FinishExecution
    <3> QED BY <3>1, NoOperatorAssumption DEF ControlInv
  <2>2. /\ job[j].op \in Operator /\ Handled(j) /\ request \notin Early
        /\ Phase = "running" /\ At = job[j].op /\ alive = Operator /\ process = "running"
        /\ \A i \in Job : i # j => job[i].op = NoOperator
    BY <1>c, <2>1 DEF Handled
  <2>3. CASE Ignore(j)
    <3>1. /\ \A i \in Job : job'[i].op = NoOperator
          /\ prog.kind[job[j].op] = "untyped" /\ UNCHANGED <<request, process>>
      BY <2>2, <2>3, JobFields DEF Ignore, Drop, TypeOK
    <3>2. Phase' = "halted" /\ At' = NoOperator
      BY <1>b, <2>2, <3>1 DEF Phase
    <3> QED BY <1>p, <2>2, <3>1, <3>2 DEF Flow!Next, Flow!Halt, Flow!Stop
  <2>4. CASE Execute(j) \/ FindProcess(j) \/ ClearExecutionState(j) \/ MarkOutcome(j)
    <3>1. /\ UNCHANGED <<request, process>> /\ job'[j].op = job[j].op
          /\ \A i \in Job : i # j => job'[i] = job[i]
      BY <2>4, JobFields
         DEF Execute, FindProcess, ClearExecutionState, MarkOutcome, Goto, TypeOK
    <3> QED BY <1>4, <2>1, <2>2, <3>1
  <2>5. CASE ExecuteMalformedCall(j) \/ Abandon(j)
    BY <1>c, <2>1, <2>2, <2>5 DEF ExecuteMalformedCall, Abandon, Handled, Sequential
  <2>6. ASSUME NEW k \in Job, Return(j, k) PROVE Flow!Next
    <3>1. /\ \A i \in Job : job'[i].op = NoOperator
          /\ prog.kind[job[j].op] = "return" /\ process' = "finished"
          /\ request' \notin Early
      BY <1>c, <2>1, <2>2, <2>6, JobFields DEF Return, Handled, TypeOK
    <3>2. Phase' = "returned" /\ At' = NoOperator
      BY <1>b, <3>1 DEF Phase
    <3> QED BY <1>p, <2>2, <3>1, <3>2 DEF Flow!Next, Flow!Return, Flow!Stop
  <2>7. ASSUME NEW k \in Job, FinishExecution(j, k) PROVE UNCHANGED Flow!vars
    <3>1. job[j].pc = "finish" /\ job[j].left = 1 /\ k # j
      BY <1>c, <2>1, <2>2, <2>7 DEF FinishExecution, About, NewJob, Handled
    <3>2. job' = [job EXCEPT ![j] = Idle, ![k] = Synchronizing(job[j].op, job[j].out)]
          /\ UNCHANGED <<request, process>>
      BY <2>7, <3>1 DEF FinishExecution
    <3>3. job'[k].op = job[j].op /\ \A i \in Job : i # k => job'[i].op = NoOperator
      BY <2>2, <3>1, <3>2, JobFields DEF TypeOK
    <3> QED BY <1>4, <2>1, <3>2, <3>3
  <2> QED BY <1>6, <2>3, <2>4, <2>5, <2>6, <2>7 DEF Execution
<1>7. ASSUME NEW j \in Job, Synchronizer(j) PROVE Flow!Next \/ UNCHANGED Flow!vars
  <2>1. job[j].op # NoOperator
    <3>1. job[j].pc \in CheckPC \cup {"activate"}
      BY <1>7 DEF Synchronizer, CheckState, StopActivating, Activate, About
    <3> QED BY <3>1, NoOperatorAssumption DEF ControlInv, CheckPC
  <2>2. /\ job[j].op \in Operator /\ Handled(j) /\ request \notin Early
        /\ Phase = "running" /\ At = job[j].op /\ alive = Operator /\ process = "running"
        /\ \A i \in Job : i # j => job[i].op = NoOperator
    BY <1>c, <2>1 DEF Handled
  <2>t. job[j].out \in Outcome /\ prog \in ProgramType
    BY DEF TypeOK, JobType
  <2>3. CASE CheckState(j)
    <3>0. /\ job[j].pc \in CheckPC /\ job[j].pc # "checkFinished"
          /\ prog.kind[job[j].op] = "plain" /\ job[j].out \in prog.outcomes[job[j].op]
          /\ UNCHANGED <<request, process>>
      BY <2>2, <2>3 DEF CheckState, Handled, CheckPC
    <3>1. CASE Drop(j)
      <4>1. Sought[job[j].pc] = job[j].out
            /\ Successors(prog, job[j].op, job[j].out) = {}
        <5>1. Moved(j, Follower[job[j].pc], {}) # Idle
              /\ \A T : Moved(j, "activate", T) # Idle
          BY <2>1, JobFields
        <5>2. Sought[job[j].pc] \in state[job[j].op]
              /\ Successors(prog, job[j].op, Sought[job[j].pc]) = {}
          BY <2>3, <3>0, <3>1, <5>1 DEF CheckState, Drop, TypeOK
        <5> QED BY <2>2, <2>t, <3>0, <5>2 DEF Handled, Sought, CheckPC, Outcome
      <4>2. Flow!Onward(job[j].op, job[j].out) = {}
        BY <2>2, <2>t, <4>1, SuccessorsOnward
      <4>3. \A i \in Job : job'[i].op = NoOperator
        BY <2>2, <3>1, JobFields DEF Drop, TypeOK
      <4>4. Phase' = "halted" /\ At' = NoOperator
        BY <1>b, <2>2, <3>0, <4>3 DEF Phase
      <4> QED BY <1>p, <2>2, <3>0, <4>2, <4>4 DEF Flow!Next, Flow!Halt, Flow!Stop
    <3>2. CASE \E pc, T : job' = [job EXCEPT ![j] = Moved(j, pc, T)]
      <4>1. job'[j].op = job[j].op /\ \A i \in Job : i # j => job'[i] = job[i]
        BY <3>2, JobFields DEF TypeOK
      <4> QED BY <1>4, <2>1, <2>2, <3>0, <4>1
    <3> QED BY <2>3, <3>0, <3>1, <3>2 DEF CheckState, Drop
  <2>4. CASE StopActivating(j)
    <3>1. \A a \in job[j].todo : a[2] \in Operator
      BY DEF TypeOK, JobType
    <3> QED BY <2>2, <2>4, <3>1 DEF StopActivating
  <2>5. ASSUME NEW k \in Job, NEW a \in Relation \X Operator, Activate(j, k, a)
        PROVE  Flow!Next
    <3>1. /\ prog.kind[job[j].op] = "plain" /\ job[j].out \in prog.outcomes[job[j].op]
          /\ a \in job[j].todo /\ job[j].todo \subseteq Successors(prog, job[j].op, job[j].out)
          /\ k # j
      BY <1>c, <2>1, <2>2, <2>5 DEF Activate, About, NextArc, NewJob, Handled
    <3>2. job[j].todo = {a}
      BY <2>2, <2>t, <3>1 DEF Sequential
    <3>3. /\ job' = [job EXCEPT ![j] = Idle, ![k] = Executing(a[2])]
          /\ UNCHANGED <<request, process>> /\ a[2] \in Operator
      BY <2>5, <3>2 DEF Activate
    <3>4. Phase' = "running" /\ At' = a[2]
      BY <1>d, <2>2, <3>1, <3>3, JobFields, NoOperatorAssumption DEF TypeOK
    <3>5. a[2] \in Flow!Onward(job[j].op, job[j].out)
      BY <2>t, <3>1, SuccessorsOnward
    <3>6. Flow!Pass(job[j].out)
      BY <1>p, <2>2, <3>1, <3>4, <3>5 DEF Flow!Pass
    <3> QED BY <2>t, <3>6 DEF Flow!Next, Outcome
  <2> QED BY <1>7, <2>3, <2>4, <2>5 DEF Synchronizer
<1>8. ASSUME NEW j \in Job, Destroyer(j) PROVE UNCHANGED Flow!vars
  <2>1. /\ job[j].pc \in {"destroy", "erase", "eraseProcess"} /\ request' = request
        /\ process' \in {process, "erased"}
        /\ \A i \in Job : job'[i].op = job[i].op
    BY <1>8, JobFields DEF Destroyer, BeginDestroy, EraseDecomposition, EraseProcess,
                           EraseOperator, Goto, Drop, ControlInv, TypeOK
  <2>2. /\ process \in {"finished", "erased"} /\ request \notin Early
        /\ \A i \in Job : job[i].op = NoOperator
    <3>1. process \in {"finished", "erased"} /\ request \notin Early
      BY <2>1 DEF ErasureInv, Busy
    <3> QED BY <1>c, <3>1 DEF Handled
  <2>3. Phase = "returned" /\ Phase' = "returned"
    BY <2>1, <2>2 DEF Phase
  <2> QED BY <1>a, <1>b, <1>p, <2>1, <2>2, <2>3 DEF Flow!vars
<1> QED BY <1>3, <1>5, <1>6, <1>7, <1>8 DEF Next

\* Whatever the operators do, the agents pass control in a program that never
\* forks as the abstract machine does.
THEOREM Refinement == Spec /\ Sequential(prog) => ImplementsFlow
<1>1. Sequential(prog) /\ [Next]_vars => Sequential(prog)'
  BY ProgramFixed DEF Sequential, Successors
<1> QED BY <1>1, FlowInit, FlowNext, ControlHolds, PTL DEF Spec, ImplementsFlow, Flow!Spec

-----------------------------------------------------------------------------
\* Programs that fork, into branches that never meet, with any number of branches
\* and of destroyers.
Apart == {"idle", "destroy", "erase", "eraseProcess"}

\* What BranchInv says of one reaction.
Placed(j) ==
  IF job[j].pc \in Apart THEN job[j].op = NoOperator
                         ELSE job[j].op \in Operator /\ Along(j)

\* An arc is one of its program's.
LEMMA ArcsTyped ==
  ASSUME NEW a \in Arcs(prog)
  PROVE  /\ a[1] \in Operator /\ a[2] \in Relation /\ a[3] \in Operator
         /\ a[3] \in prog.next[a[2]][a[1]]
BY DEF Arcs

\* What a synchronizer follows are arcs of its operator.
LEMMA SuccessorArcs ==
  ASSUME NEW o \in Operator, NEW f, NEW a \in Successors(prog, o, f)
  PROVE  <<o, a[1], a[2]>> \in Arcs(prog) /\ a[2] \in Operator /\ a = <<a[1], a[2]>>
BY DEF Successors, Arcs

\* A reaction that does not move stays where it was, even if its operator is
\* erased: no other one changes the state of an operator that is left.
LEMMA PlacedStays ==
  ASSUME NEW j \in Job, Placed(j), prog' = prog, job'[j] = job[j],
         alive' \subseteq alive, ErasureInv',
         \/ job[j].op = NoOperator
         \/ state'[job[j].op] = state[job[j].op]
         \/ job[j].op \in Operator \ alive'
  PROVE  Placed(j)'
<1>1. \A o, e : Successors(prog', o, e) = Successors(prog, o, e)
  BY DEF Successors
<1>2. CASE job[j].op = NoOperator
  BY <1>2, NoOperatorAssumption DEF Placed
<1>3. CASE job[j].op \in Operator /\ Along(j)
  <2>1. /\ job[j].pc = "mark" => state'[job[j].op] = {}
        /\ job[j].op \in alive' => job[j].op \in alive /\ state'[job[j].op] = state[job[j].op]
    BY <1>3, NoOperatorAssumption DEF Along, ErasureInv, ErasedLeavesNothing
  <2>2. Along(j)'
    BY <1>1, <1>3, <2>1 DEF Along
  <2> QED BY <1>3, <2>2, NoOperatorAssumption DEF Placed
<1> QED BY <1>2, <1>3 DEF Placed

\* What has been activated is the same after a step that activates nothing, but
\* ends a reaction or moves it, perhaps to another slot.
LEMMA EnteredStays ==
  ASSUME NEW D, Entered(D), prog' = prog,
         request' \in {"initiated", "generated"} => request \in {"initiated", "generated"},
         NEW j \in Job, NEW k \in Job,
         \A i \in Job : i # j /\ i # k => job'[i] = job[i],
         k # j => job'[j].op = NoOperator /\ job[k].op = NoOperator,
         \/ job'[k].op = NoOperator
         \/ job'[k].op = job[j].op /\ job[j].pc # "activate"
  PROVE  Entered(D)'
<1>1. \A t \in D : t = prog'.first \/ \E a \in Arcs(prog') : a[1] \in D /\ a[3] = t
  BY DEF Entered
<1>2. \A i \in Job : job'[i].op # NoOperator =>
        IF i = k THEN job'[i].op = job[j].op /\ job[j].pc # "activate"
                 ELSE i # j /\ job'[i] = job[i]
  OBVIOUS
<1>3. \A i \in Job : job'[i].op # NoOperator => job'[i].op \in D
  BY <1>2 DEF Entered
<1>4. \A h, i \in Job : job'[h].op = job'[i].op /\ job'[h].op # NoOperator => h = i
  BY <1>2 DEF Entered
<1>5. \A i \in Job, a \in Arcs(prog') : job'[i].op = a[1] /\ a[3] \in D =>
        job'[i].pc = "activate" /\ <<a[2], a[3]>> \notin job'[i].todo
  <2> SUFFICES ASSUME NEW i \in Job, NEW a \in Arcs(prog), job'[i].op = a[1], a[3] \in D
               PROVE  job'[i].pc = "activate" /\ <<a[2], a[3]>> \notin job'[i].todo
    OBVIOUS
  <2>1. job'[i].op # NoOperator
    BY ArcsTyped, NoOperatorAssumption
  <2> QED BY <1>2, <2>1 DEF Entered
<1> QED BY <1>1, <1>3, <1>4, <1>5 DEF Entered

\* A synchronizer that has found its outcome is about to activate operators
\* that have not been activated.
LEMMA EnteredFound ==
  ASSUME NEW D, Entered(D), NEW j \in Job, NEW T,
         UNCHANGED <<prog, request>>, job \in [Job -> JobType],
         job[j].pc # "activate",
         job' = [job EXCEPT ![j] = Moved(j, "activate", T)]
  PROVE  Entered(D)'
<1>1. /\ job'[j].op = job[j].op
      /\ \A i \in Job : i # j => job'[i] = job[i]
  BY JobFields
<1>2. \A a \in Arcs(prog) : job[j].op = a[1] => a[3] \notin D
  BY DEF Entered
<1> QED BY <1>1, <1>2 DEF Entered

\* One operator more, the target of an arc yet to be followed, is activated: in
\* a program whose branches never meet it is not in D, nor is what follows it.
LEMMA EnteredNext ==
  ASSUME NEW D \in SUBSET Operator, Entered(D), Branching(prog),
         NEW j \in Job, NEW k \in Job, NEW a \in job[j].todo,
         job[j].pc = "activate", job[j].op \in Operator, job[k].op = NoOperator,
         job[j].todo \subseteq Relation \X Operator,
         \A b \in job[j].todo : <<job[j].op, b[1], b[2]>> \in Arcs(prog),
         prog' = prog, request' = request,
         job'[j].op \in {NoOperator, job[j].op},
         job'[j].op = job[j].op => job'[j].pc = "activate" /\ job'[j].todo = job[j].todo \ {a},
         job'[k].op = a[2],
         \A i \in Job : i # j /\ i # k => job'[i] = job[i]
  PROVE  Entered(D \cup {a[2]})'
<1> DEFINE o == job[j].op
           t == a[2]
           E == D \cup {t}
<1>0. /\ <<o, a[1], t>> \in Arcs(prog) /\ a = <<a[1], t>> /\ t \in Operator
      /\ o # NoOperator /\ o \in D /\ t # NoOperator /\ k # j
  BY NoOperatorAssumption DEF Entered
<1>1. t \notin D
  BY <1>0 DEF Entered
<1>2. \A b \in Arcs(prog) : b[3] = t => b = <<o, a[1], t>>
  BY <1>0 DEF Branching
<1>3. \A b \in Arcs(prog) : b[1] = t => b[3] \notin E
  <2> SUFFICES ASSUME NEW b \in Arcs(prog), b[1] = t, b[3] \in E PROVE FALSE
    OBVIOUS
  <2>1. b[3] # t
    BY <1>0, <1>1, <1>2
  <2>2. b[3] \in D /\ b[3] # prog.first
    BY <2>1 DEF Branching
  <2>3. PICK c \in Arcs(prog) : c[1] \in D /\ c[3] = b[3]
    BY <2>2 DEF Entered
  <2>4. c = b
    BY <2>3 DEF Branching
  <2> QED BY <1>1, <2>3, <2>4
<1>4. \A s \in E : s = prog.first \/ \E b \in Arcs(prog) : b[1] \in E /\ b[3] = s
  <2>1. <<o, a[1], t>>[1] \in E /\ <<o, a[1], t>>[3] = t
    BY <1>0
  <2> QED BY <1>0, <2>1 DEF Entered
<1>5. \A i \in Job : job'[i].op # NoOperator =>
        CASE i = k -> job'[i].op = t
          [] i = j -> job'[i].op = o
          [] OTHER -> job'[i] = job[i]
  BY <1>0
<1>6. \A i \in Job : job'[i].op # NoOperator => job'[i].op \in E
  BY <1>0, <1>5 DEF Entered
<1>7. \A h, i \in Job : job'[h].op = job'[i].op /\ job'[h].op # NoOperator => h = i
  <2>1. \A i \in Job : i # k /\ job'[i].op # NoOperator => job'[i].op = job[i].op /\ job[i].op \in D
    BY <1>0, <1>5 DEF Entered
  <2> QED BY <1>0, <1>1, <1>5, <2>1 DEF Entered
<1>8. \A i \in Job, b \in Arcs(prog) : job'[i].op = b[1] /\ b[3] \in E =>
        job'[i].pc = "activate" /\ <<b[2], b[3]>> \notin job'[i].todo
  <2> SUFFICES ASSUME NEW i \in Job, NEW b \in Arcs(prog), job'[i].op = b[1], b[3] \in E
               PROVE  job'[i].pc = "activate" /\ <<b[2], b[3]>> \notin job'[i].todo
    OBVIOUS
  <2>1. job'[i].op # NoOperator
    BY ArcsTyped, NoOperatorAssumption
  <2>2. CASE i = k
    BY <1>3, <1>5, <2>1, <2>2
  <2>3. CASE i = j
    <3>1. job'[j].op = o /\ job'[j].pc = "activate" /\ job'[j].todo = job[j].todo \ {a}
      BY <1>0, <1>5, <2>1, <2>3
    <3>2. CASE b[3] = t
      <4>1. b[2] = a[1]
        BY <1>2, <3>2
      <4> QED BY <1>0, <2>3, <3>1, <3>2, <4>1
    <3>3. CASE b[3] \in D
      BY <2>3, <3>1, <3>3 DEF Entered
    <3> QED BY <3>2, <3>3
  <2>4. CASE i # j /\ i # k
    <3>1. job'[i] = job[i] /\ job[i].op # o
      BY <1>0, <1>5, <2>1, <2>4 DEF Entered
    <3>2. b[3] # t
      BY <1>2, <3>1
    <3> QED BY <3>1, <3>2 DEF Entered
  <2> QED BY <2>2, <2>3, <2>4
<1>9. request \notin {"initiated", "generated"}
  BY <1>0 DEF Entered
<1> HIDE DEF E
<1>10. Entered(E)'
  BY <1>4, <1>6, <1>7, <1>8, <1>9 DEF Entered
<1> QED BY <1>10 DEF E

-----------------------------------------------------------------------------
(* The inductive invariant. *)

\* Nothing is activated at first.
LEMMA BranchInit == Init => BranchInv
<1> SUFFICES ASSUME Init PROVE BranchInv
  OBVIOUS
<1>1. \A j \in Job : job[j].pc = "idle" /\ job[j].op = NoOperator
  BY JobFields DEF Init
<1>2. Entered({})
  BY <1>1, ArcsTyped, NoOperatorAssumption DEF Entered
<1> QED BY <1>1, <1>2 DEF BranchInv

\* Every step ends or moves one reaction, and activates at most one operator,
\* which has not been activated before.
LEMMA BranchNext == TypeOK /\ ErasureInv /\ BranchInv /\ [Next]_vars => BranchInv'
<1> SUFFICES ASSUME TypeOK, ErasureInv, BranchInv, [Next]_vars PROVE BranchInv'
  OBVIOUS
<1>p. prog' = prog
  BY ProgramFixed
<1>e. ErasureInv'
  BY ErasureNext
<1> SUFFICES ASSUME Branching(prog) PROVE BranchInv'
  BY <1>p DEF BranchInv, Branching, Arcs
<1>0. \A j \in Job : Placed(j)
  BY DEF BranchInv, Placed, Apart
<1>D. PICK D \in SUBSET Operator : Entered(D)
  BY DEF BranchInv
<1>q. (\A j \in Job : Placed(j)') /\ (\E E \in SUBSET Operator : Entered(E)') => BranchInv'
  BY DEF BranchInv, Placed, Apart
<1>t. \A j \in Job : /\ job[j] \in JobType /\ job[j].pc \in PC /\ job[j].out \in Outcome
                     /\ job[j].todo \subseteq Relation \X Operator
  BY DEF TypeOK, JobType
\* A step without reactions, and one that moves or ends a reaction.
<1>u. ASSUME UNCHANGED <<prog, job>>, alive' \subseteq alive,
             \A o \in Operator : state'[o] = state[o] \/ o \notin alive',
             request' \in {"initiated", "generated"} => request \in {"initiated", "generated"}
      PROVE  BranchInv'
  <2>1. \A j \in Job : Placed(j)'
    <3> SUFFICES ASSUME NEW j \in Job PROVE Placed(j)'
      OBVIOUS
    <3>1. job[j].op = NoOperator \/ job[j].op \in Operator
      BY <1>0 DEF Placed
    <3> QED BY <1>0, <1>e, <1>u, <3>1, PlacedStays
  <2>2. Entered(D)'
    BY <1>D, <1>u DEF Entered
  <2> QED BY <1>q, <2>1, <2>2
<1>k. ASSUME NEW j \in Job, NEW k \in Job, alive' \subseteq alive,
             \A o \in Operator : state'[o] = state[o] \/ o \notin alive' \/ o = job[j].op,
             request' \in {"initiated", "generated"} => request \in {"initiated", "generated"},
             \A i \in Job : i # j /\ i # k => job'[i] = job[i],
             k # j => job'[j].op = NoOperator /\ job[k].op = NoOperator,
             \/ job'[k].op = NoOperator
             \/ job'[k].op = job[j].op /\ job[j].pc # "activate",
             Placed(j)', Placed(k)'
      PROVE  BranchInv'
  <2>1. ASSUME NEW i \in Job, i # j, i # k PROVE Placed(i)'
    <3>1. \/ job[i].op = NoOperator
          \/ job[i].op \in Operator /\ job[i].op # job[j].op
      BY <1>0, <1>D, <2>1 DEF Placed, Entered
    <3> QED BY <1>0, <1>p, <1>e, <1>k, <2>1, <3>1, PlacedStays
  <2>2. Entered(D)'
    BY <1>D, <1>p, <1>k, EnteredStays
  <2> QED BY <1>q, <1>k, <2>1, <2>2
<1> USE JobFields, NoOperatorAssumption
<1>1. CASE Interpreter
  <2>1. CASE Refuse \/ Subscribe \/ Wake \/ Timeout
    BY <1>u, <2>1 DEF Refuse, Subscribe, Wake, Timeout
  <2>2. CASE Generate
    <3>1. UNCHANGED job /\ \A j \in Job : job[j].pc = "idle" /\ job[j].op = NoOperator
      BY <1>0, <2>2 DEF Generate, ErasureInv, Busy, Placed, Apart
    <3>2. Entered({})'
      BY <3>1, ArcsTyped, <1>p DEF Entered, Arcs
    <3>3. \A j \in Job : Placed(j)'
      BY <3>1 DEF Placed, Apart
    <3> QED BY <1>q, <3>2, <3>3
  <2>3. ASSUME NEW k \in Job, StartFirst(k) PROVE BranchInv'
    <3>1. \A j \in Job : job[j].pc = "idle" /\ job[j].op = NoOperator
      BY <1>0, <2>3 DEF StartFirst, ErasureInv, Busy, Placed, Apart
    <3>2. /\ prog.first \in Operator /\ prog.first # NoOperator /\ request' = "started"
          /\ job'[k].op = prog.first /\ job'[k].pc = "execute"
          /\ \A j \in Job : j # k => job'[j].pc = "idle" /\ job'[j].op = NoOperator
      BY <2>3, <3>1 DEF StartFirst, HasFirst, TypeOK, ProgramType
    <3>3. \A j \in Job : Placed(j)'
      BY <3>2 DEF Placed, Apart, Along, CheckPC
    <3>4. \A a \in Arcs(prog) : a[3] # prog.first
      BY DEF Branching
    <3>5. \E E \in SUBSET Operator : Entered(E)'
      <4>1. PICK E \in SUBSET Operator : E = {prog.first}
        BY <3>2
      <4>2. Entered(E)'
        BY <1>p, <3>2, <3>4, <4>1, ArcsTyped DEF Entered, Arcs
      <4> QED BY <4>2
    <3> QED BY <1>q, <3>3, <3>5
  <2>4. ASSUME NEW k \in Job, FinishEmpty(k) PROVE BranchInv'
    <3>1. /\ job'[k].op = NoOperator /\ job'[k].pc = "destroy"
          /\ \A i \in Job : i # k => job'[i] = job[i]
          /\ UNCHANGED <<alive, state>> /\ request' = "successful"
      BY <2>4 DEF FinishEmpty, TypeOK
    <3>2. Placed(k)'
      BY <3>1 DEF Placed, Apart
    <3> QED BY <1>k, <3>1, <3>2
  <2> QED BY <1>1, <2>1, <2>2, <2>3, <2>4 DEF Interpreter
\* A reaction ends.
<1>d. ASSUME NEW j \in Job, Drop(j), UNCHANGED <<alive, state, request>> PROVE BranchInv'
  <2>1. /\ job'[j].op = NoOperator /\ job'[j].pc = "idle"
        /\ \A i \in Job : i # j => job'[i] = job[i]
    BY <1>d DEF Drop, TypeOK
  <2>2. Placed(j)'
    BY <2>1 DEF Placed, Apart
  <2> QED BY <1>d, <1>k, <2>1, <2>2
<1>2. ASSUME NEW j \in Job, Execution(j) PROVE BranchInv'
  <2>0. job[j].pc \in {"execute", "return", "clear", "mark", "finish"}
    BY <1>2 DEF Execution, Ignore, Execute, ExecuteMalformedCall, FindProcess, About,
                Abandon, ClearExecutionState, MarkOutcome, Return, FinishExecution
  <2>o. job[j].op \in Operator /\ Along(j)
    BY <1>0, <2>0 DEF Placed, Apart
  \* It moves to another step of its interpreter.
  <2>m. ASSUME job' \in [Job -> JobType], job'[j].op = job[j].op,
               \A i \in Job : i # j => job'[i] = job[i],
               UNCHANGED <<alive, request>>,
               \A o \in Operator : o # job[j].op => state'[o] = state[o],
               job'[j].pc \in {"return", "clear", "mark", "finish"}, Along(j)'
        PROVE  BranchInv'
    <3>1. Placed(j)'
      BY <2>o, <2>m DEF Placed, Apart
    <3> QED BY <1>k, <2>0, <2>m, <3>1
  <2>1. CASE Ignore(j) \/ Abandon(j)
    BY <1>d, <2>1 DEF Ignore, Abandon
  <2>2. CASE Execute(j)
    <3>1. PICK e : job' = [job EXCEPT ![j] = Ending(job[j].op, e, 1)]
      BY <2>2 DEF Execute
    <3>2. /\ job'[j].op = job[j].op /\ job'[j].pc = "clear" /\ job'[j].left = 1
          /\ \A i \in Job : i # j => job'[i] = job[i]
      BY <3>1 DEF TypeOK
    <3>3. Along(j)'
      BY <3>2 DEF Along, CheckPC
    <3> QED BY <2>2, <2>m, <3>2, <3>3, TypeNext DEF Execute, TypeOK
  <2>3. CASE ExecuteMalformedCall(j)
    BY <2>o, <2>3 DEF ExecuteMalformedCall, Branching
  <2>4. CASE FindProcess(j)
    <3>1. /\ job'[j].op = job[j].op /\ job'[j].pc = "return"
          /\ \A i \in Job : i # j => job'[i] = job[i]
      BY <2>4 DEF FindProcess, Goto, TypeOK
    <3>2. Along(j)'
      BY <3>1 DEF Along, CheckPC
    <3> QED BY <2>4, <2>m, <3>1, <3>2, TypeNext DEF FindProcess, TypeOK
  <2>5. CASE ClearExecutionState(j)
    <3>1. /\ job'[j].op = job[j].op /\ job'[j].pc = "mark" /\ job'[j].left = job[j].left
          /\ \A i \in Job : i # j => job'[i] = job[i]
          /\ state' = [state EXCEPT ![job[j].op] = {}] /\ job[j].pc = "clear"
      BY <2>5 DEF ClearExecutionState, Goto, TypeOK
    <3>2. Along(j)'
      BY <2>o, <3>1 DEF Along, CheckPC, TypeOK
    <3> QED BY <2>5, <2>m, <3>1, <3>2, TypeNext DEF ClearExecutionState, TypeOK
  <2>6. CASE MarkOutcome(j)
    <3>1. /\ job'[j].op = job[j].op /\ job'[j].pc = "finish" /\ job'[j].left = job[j].left
          /\ job'[j].out = job[j].out
          /\ \A i \in Job : i # j => job'[i] = job[i]
          /\ state' = [state EXCEPT ![job[j].op] = state[job[j].op] \cup {job[j].out}]
          /\ job[j].pc = "mark"
      BY <2>6 DEF MarkOutcome, About, Goto, TypeOK
    <3>2. Along(j)'
      BY <2>o, <3>1 DEF Along, CheckPC, TypeOK
    <3> QED BY <2>6, <2>m, <3>1, <3>2, TypeNext DEF MarkOutcome, TypeOK
  <2>7. ASSUME NEW k \in Job, Return(j, k) PROVE BranchInv'
    <3>1. job[k].pc = "idle" /\ job[k].op = NoOperator /\ k # j
      BY <1>0, <2>0, <2>7 DEF Return, NewJob, Busy, Placed, Apart
    <3>2. /\ job'[j].op = NoOperator /\ job'[j].pc = "idle"
          /\ job'[k].op = NoOperator /\ job'[k].pc = "destroy"
          /\ \A i \in Job : i # j /\ i # k => job'[i] = job[i]
          /\ UNCHANGED <<alive, state>>
          /\ request' \in {"initiated", "generated"} => request \in {"initiated", "generated"}
      BY <2>7, <3>1 DEF Return, TypeOK
    <3>3. Placed(j)' /\ Placed(k)'
      BY <3>2 DEF Placed, Apart
    <3> QED BY <1>k, <3>1, <3>2, <3>3
  <2>8. ASSUME NEW k \in Job, FinishExecution(j, k) PROVE BranchInv'
    <3>1. job[k].pc = "idle" /\ job[k].op = NoOperator /\ k # j
      BY <1>0, <2>0, <2>8 DEF FinishExecution, NewJob, Busy, Placed, Apart
    <3>2. job[j].pc = "finish" /\ job[j].op \in alive /\ job[j].left = 1
      BY <2>o, <2>8 DEF FinishExecution, About, Along
    <3>3. /\ job' = [job EXCEPT ![j] = Idle, ![k] = Synchronizing(job[j].op, job[j].out)]
          /\ state' = [state EXCEPT ![job[j].op] = state[job[j].op] \cup {"finished"}]
          /\ UNCHANGED <<alive, request>>
      BY <2>8, <3>2 DEF FinishExecution
    <3>4. /\ job'[j].op = NoOperator /\ job'[j].pc = "idle"
          /\ job'[k].op = job[j].op /\ job'[k].pc = "checkError" /\ job'[k].out = job[j].out
          /\ \A i \in Job : i # j /\ i # k => job'[i] = job[i]
      BY <3>1, <3>3 DEF TypeOK
    <3>5. state'[job[j].op] = {job[j].out, "finished"}
      BY <2>o, <3>2, <3>3 DEF Along, TypeOK
    <3>6. Along(k)'
      BY <3>4, <3>5 DEF Along
    <3>7. Placed(j)' /\ Placed(k)'
      BY <2>o, <3>4, <3>6 DEF Placed, Apart
    <3>8. \A o \in Operator : o # job[j].op => state'[o] = state[o]
      BY <3>3 DEF TypeOK
    <3> QED BY <1>k, <3>1, <3>2, <3>3, <3>4, <3>7, <3>8
  <2> QED BY <1>2, <2>1, <2>2, <2>3, <2>4, <2>5, <2>6, <2>7, <2>8 DEF Execution
<1>3. ASSUME NEW j \in Job, Synchronizer(j) PROVE BranchInv'
  <2>0. job[j].pc \in CheckPC \cup {"activate"}
    BY <1>3 DEF Synchronizer, CheckState, StopActivating, Activate, About
  <2>o. job[j].op \in Operator /\ Along(j)
    BY <1>0, <2>0 DEF Placed, Apart, CheckPC
  <2>1. CASE CheckState(j)
    <3> DEFINE o == job[j].op
               e == job[j].out
               f == Sought[job[j].pc]
               T == Successors(prog, o, f)
    <3>0. /\ job[j].pc \in CheckPC /\ UNCHANGED <<request, alive, state>>
          /\ f \in {"error", "success", "unsuccess", "finished"}
      BY <2>1 DEF CheckState, CheckPC, Sought
    <3>1. CASE Drop(j)
      BY <1>d, <3>0, <3>1
    <3>2. CASE f \in state[o] /\ job' = [job EXCEPT ![j] = Moved(j, "activate", T)]
      <4>1. o \in alive
        BY <2>o, <3>2 DEF ErasureInv, ErasedLeavesNothing
      <4>2. f = e
        BY <1>t, <2>o, <3>0, <3>2, <4>1 DEF Along, Outcome, CheckPC, Sought
      <4>3. /\ job'[j].op = o /\ job'[j].pc = "activate" /\ job'[j].out = e
            /\ job'[j].todo = T /\ \A i \in Job : i # j => job'[i] = job[i]
        BY <3>2 DEF TypeOK
      <4>4. Placed(j)'
        BY <1>p, <2>o, <4>2, <4>3 DEF Placed, Apart, Along, Successors, CheckPC
      <4>5. \A i \in Job : i # j => Placed(i)'
        BY <1>0, <1>p, <1>e, <3>0, <4>3, PlacedStays
      <4>6. Entered(D)'
        BY <1>D, <1>p, <3>0, <3>2, EnteredFound DEF TypeOK, CheckPC
      <4> QED BY <1>q, <4>4, <4>5, <4>6
    <3>3. CASE /\ f \notin state[o] /\ job[j].pc # "checkFinished"
               /\ job' = [job EXCEPT ![j] = Moved(j, Follower[job[j].pc], {})]
      <4>1. /\ job'[j].op = o /\ job'[j].pc = Follower[job[j].pc] /\ job'[j].out = e
            /\ \A i \in Job : i # j => job'[i] = job[i]
        BY <3>3 DEF TypeOK
      <4>2. job'[j].pc \in CheckPC
        BY <3>0, <3>3, <4>1 DEF CheckPC, Follower
      <4>3. o \in alive =>
              /\ state[o] = {e, "finished"} /\ f \notin {e, "finished"}
              /\ job[j].pc = "checkSuccess" => e # "error"
              /\ job[j].pc = "checkUnsuccess" => e = "unsuccess"
        BY <2>o, <3>0, <3>3 DEF Along
      <4>4. o \in alive => /\ job'[j].pc = "checkSuccess" => e # "error"
                           /\ job'[j].pc = "checkUnsuccess" => e = "unsuccess"
                           /\ job'[j].pc # "checkFinished"
        BY <1>t, <3>0, <3>3, <4>1, <4>3 DEF CheckPC, Follower, Sought, Outcome
      <4>5. Along(j)'
        BY <3>0, <4>1, <4>2, <4>3, <4>4 DEF Along, CheckPC
      <4>6. Placed(j)'
        BY <2>o, <4>1, <4>2, <4>5 DEF Placed, Apart, CheckPC
      <4> QED BY <1>k, <3>0, <4>1, <4>6 DEF CheckPC
    <3> QED BY <2>1, <3>0, <3>1, <3>2, <3>3 DEF CheckState, Drop
  <2>2. CASE StopActivating(j)
    BY <1>d, <2>2 DEF StopActivating
  <2>3. ASSUME NEW k \in Job, NEW a \in Relation \X Operator, Activate(j, k, a)
        PROVE  BranchInv'
    <3>1. job[k].pc = "idle" /\ job[k].op = NoOperator /\ k # j
      BY <1>0, <2>0, <2>3 DEF Activate, NewJob, Busy, Placed, Apart, CheckPC
    <3>2. /\ job[j].pc = "activate" /\ a \in job[j].todo /\ a[2] \in Operator
          /\ UNCHANGED <<alive, request>>
          /\ state' = [state EXCEPT ![a[2]] = state[a[2]] \cup {"active"}]
      BY <2>3 DEF Activate, About, NextArc
    <3>3. \/ job'[j] = Idle
          \/ job'[j] = Moved(j, "activate", job[j].todo \ {a})
      BY <2>3, <3>1 DEF Activate, TypeOK
    <3>4. /\ job'[k] = Executing(a[2])
          /\ \A i \in Job : i # j /\ i # k => job'[i] = job[i]
      BY <2>3, <3>1 DEF Activate, TypeOK
    <3>5. \A b \in job[j].todo : <<job[j].op, b[1], b[2]>> \in Arcs(prog)
      BY <2>o, <3>2, SuccessorArcs DEF Along
    <3>6. a[2] \notin D
      <4>1. <<job[j].op, a[1], a[2]>> \in Arcs(prog) /\ a = <<a[1], a[2]>>
        BY <3>2, <3>5
      <4> QED BY <1>D, <3>2, <4>1 DEF Entered
    <3>7. Entered(D \cup {a[2]})'
      BY <1>D, <1>p, <1>t, <2>o, <3>1, <3>2, <3>3, <3>4, <3>5, EnteredNext
    <3>8. ASSUME NEW i \in Job, i # j, i # k PROVE Placed(i)'
      <4>1. job[i].op = NoOperator \/ state'[job[i].op] = state[job[i].op]
        BY <1>0, <1>D, <3>2, <3>6 DEF Entered, TypeOK, Placed
      <4> QED BY <1>0, <1>p, <1>e, <3>2, <3>4, <3>8, <4>1, PlacedStays
    <3>9. Placed(k)'
      BY <3>2, <3>4 DEF Placed, Along, Apart, CheckPC
    <3>10. Placed(j)'
      <4>1. CASE job'[j] = Idle
        BY <4>1 DEF Placed, Apart
      <4>2. CASE job'[j] = Moved(j, "activate", job[j].todo \ {a})
        BY <1>p, <2>o, <3>2, <4>2 DEF Placed, Along, Apart, CheckPC, Successors
      <4> QED BY <3>3, <4>1, <4>2
    <3> QED BY <1>q, <3>2, <3>7, <3>8, <3>9, <3>10
  <2> QED BY <1>3, <2>1, <2>2, <2>3 DEF Synchronizer
<1>4. ASSUME NEW j \in Job, Destroyer(j) PROVE BranchInv'
  <2>1. ASSUME NEW o \in Operator, EraseOperator(j, o) PROVE BranchInv'
    BY <1>p, <1>u, <2>1 DEF EraseOperator, TypeOK
  <2>2. CASE BeginDestroy(j) \/ EraseDecomposition(j) \/ EraseProcess(j)
    <3>1. /\ UNCHANGED <<alive, state, request>> /\ job[j].op = NoOperator
          /\ Drop(j) \/ Goto(j, "erase") \/ Goto(j, "eraseProcess")
      BY <1>0, <2>2 DEF BeginDestroy, EraseDecomposition, EraseProcess, Placed, Apart
    <3>2. ASSUME NEW pc \in {"erase", "eraseProcess"}, Goto(j, pc) PROVE BranchInv'
      <4>1. /\ job'[j].op = NoOperator /\ job'[j].pc = pc
            /\ \A i \in Job : i # j => job'[i] = job[i]
        BY <3>1, <3>2 DEF Goto, TypeOK
      <4>2. Placed(j)'
        BY <4>1 DEF Placed, Apart
      <4> QED BY <1>k, <3>1, <4>1, <4>2
    <3> QED BY <1>d, <3>1, <3>2
  <2> QED BY <1>4, <2>1, <2>2 DEF Destroyer
<1>5. CASE UNCHANGED vars
  BY <1>u, <1>5 DEF vars
<1> QED BY <1>1, <1>2, <1>3, <1>4, <1>5 DEF Next

\* Hence BranchInv.
LEMMA BranchHolds == Spec => [](TypeOK /\ ErasureInv /\ BranchInv)
BY TypeInit, TypeNext, ErasureInit, ErasureNext, BranchInit, BranchNext, PTL DEF Spec

\* In a program whose branches never meet no operator is handled twice at once,
\* whatever the destroyers erase meanwhile.
THEOREM BranchReaction == Spec => []OneReactionPerOperator
<1>1. BranchInv => OneReactionPerOperator
  BY DEF BranchInv, Entered, OneReactionPerOperator
<1> QED BY <1>1, BranchHolds, PTL

\* Nor does its synchronizer follow another outcome than the one announced.
THEOREM BranchFollowed == Spec => []BranchOutcome
<1>1. BranchInv => BranchOutcome
  BY DEF BranchInv, Along, BranchOutcome, OutcomeFollowed
<1> QED BY <1>1, BranchHolds, PTL
=============================================================================
