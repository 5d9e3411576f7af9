----------------------------- MODULE ScpProcess -----------------------------
(***************************************************************************)
(* Interpretation of one scp-process: the agents that generate it from its *)
(* program, execute its operators, pass control between them and erase it. *)
(* No agent calls another: each reacts, on a thread of the pool, to an arc *)
(* that another one added to `active_action' or `action_finished'.  A Job  *)
(* is one such reaction, from the moment its event is queued to the end of *)
(* the handler; steps of different jobs interleave at every sc-memory call.*)
(*                                                                         *)
(* What an operator computes is not modelled here, only how its execution  *)
(* ends.  ClearExecutionState is one step: only a second execution of the  *)
(* same operator could tell its collecting from its erasing.               *)
(***************************************************************************)
EXTENDS Naturals

CONSTANTS
  Operator,    \* operators of the process
  NoOperator,  \* stands where a job concerns no operator
  Programs,    \* the scp-programs a request may name
  MaxJobs      \* agent reactions in flight at once, at most

Outcome  == {"success", "unsuccess", "error"}
State    == {"active", "finished"} \cup Outcome
Relation == {"then", "else", "error", "goto"}
Kind     == {"plain", "malformedCall", "return", "untyped"}

(***************************************************************************)
(* A program: may it be interpreted (arguments given, key element found),  *)
(* does its process have a decomposition, its first operator, and for each *)
(* operator its kind, the ways its execution can end, and its successors.  *)
(***************************************************************************)
ProgramType ==
  [ valid      : BOOLEAN,
    decomposed : BOOLEAN,
    first      : Operator \cup {NoOperator},
    kind       : [Operator -> Kind],
    outcomes   : [Operator -> SUBSET Outcome],
    next       : [Relation -> [Operator -> SUBSET Operator]] ]

ASSUME NoOperatorAssumption == NoOperator \notin Operator
ASSUME ProgramsAssumption   == Programs \subseteq ProgramType
ASSUME MaxJobsAssumption    == MaxJobs \in Nat

Job == 1 .. MaxJobs

VARIABLES
  prog,           \* the program the request names
  request,        \* where the interpretation request stands
  process,        \* the generated process node
  decomposition,  \* does the process have its decomposition node
  alive,          \* operators generated and not erased
  state,          \* state[o]: classes with an arc to operator o
  job             \* job[j]: what reaction j is doing

vars == <<prog, request, process, decomposition, alive, state, job>>

-----------------------------------------------------------------------------
(* Jobs.  pc "idle" is a free slot; "execute", "return", "clear", "mark"   *)
(* and "finish" belong to an operator interpreter; the "check" steps and   *)
(* "activate" to the synchronizer; "destroy", "erase", "eraseProcess" to   *)
(* the destroyer.                                                          *)

CheckPC == {"checkError", "checkSuccess", "checkUnsuccess", "checkFinished"}
PC == {"idle", "execute", "return", "clear", "mark", "finish", "activate",
       "destroy", "erase", "eraseProcess"} \cup CheckPC

\* `out' is how the execution ended: for a synchronizer it is history, the
\* outcome whose event it reacts to.  `left' counts the Finish calls to come.
JobType ==
  [ pc   : PC,
    op   : Operator \cup {NoOperator},
    out  : Outcome,
    left : 0..2,
    todo : SUBSET (Relation \X Operator) ]

JobAt(pc, o, e, n) == [pc |-> pc, op |-> o, out |-> e, left |-> n, todo |-> {}]

Idle       == JobAt("idle", NoOperator, "success", 0)
Destroying == JobAt("destroy", NoOperator, "success", 0)
Executing(o)        == JobAt("execute", o, "success", 0)
Ending(o, e, n)     == JobAt("clear", o, e, n)
\* Mutant: the synchronizer does not look for an error.
Synchronizing_NoError(o, e) == JobAt("checkSuccess", o, e, 0)
Synchronizing(o, e) == JobAt("checkError", o, e, 0)

Busy(j) == job[j].pc # "idle"
NewJob(k) == ~Busy(k) /\ \A j \in Job : j < k => Busy(j)

Drop(j) == job' = [job EXCEPT ![j] = Idle]
Moved(j, pc, T) == [pc |-> pc, op |-> job[j].op, out |-> job[j].out,
                    left |-> job[j].left, todo |-> T]
Goto(j, pc) == job' = [job EXCEPT ![j] = Moved(j, pc, {})]

-----------------------------------------------------------------------------
(* ASCPProcessInterpreter *)

Init ==
  /\ prog \in Programs
  /\ request = "initiated"
  /\ process = "absent"
  /\ decomposition = FALSE
  /\ alive = {}
  /\ state = [o \in Operator |-> {}]
  /\ job = [j \in Job |-> Idle]

\* An argument is missing or the program has no key element.
Refuse ==
  /\ request = "initiated" /\ ~prog.valid
  /\ request' = "unsuccessful"
  /\ UNCHANGED <<prog, process, decomposition, alive, state, job>>

\* GenerateByTemplate: the process, its decomposition and its operators.
Generate ==
  /\ request = "initiated" /\ prog.valid
  /\ request' = "generated"
  /\ process' = "running"
  /\ decomposition' = prog.decomposed
  /\ alive' = IF prog.decomposed THEN Operator ELSE {}
  /\ UNCHANGED <<prog, state, job>>

HasFirst == prog.decomposed /\ prog.first # NoOperator

StartFirst(k) ==
  /\ request = "generated" /\ HasFirst /\ NewJob(k)
  /\ request' = "started"
  /\ state' = [state EXCEPT ![prog.first] = @ \cup {"active"}]
  /\ job' = [job EXCEPT ![k] = Executing(prog.first)]
  /\ UNCHANGED <<prog, process, decomposition, alive>>

\* No first operator: the process is declared finished and nothing is awaited.
FinishEmpty(k) ==
  /\ request = "generated" /\ ~HasFirst /\ NewJob(k)
  /\ request' = "successful"
  /\ process' = "finished"
  /\ job' = [job EXCEPT ![k] = Destroying]
  /\ UNCHANGED <<prog, decomposition, alive, state>>

\* The waiter is created after the first operator was activated, when the
\* process may be over.  What sc-memory does for an element already erased
\* (a waiter that never fires, or an exception) is outside this repository.
Subscribe ==
  /\ request = "started"
  /\ request' \in IF process = "erased" THEN {"waiting", "error"}
                                        ELSE {"waiting"}
  /\ UNCHANGED <<prog, process, decomposition, alive, state, job>>

Wake ==
  /\ request = "woken"
  /\ request' = "successful"
  /\ UNCHANGED <<prog, process, decomposition, alive, state, job>>

\* Mutant: the waiter waits without limit.
Timeout_Never == request = "never" /\ UNCHANGED vars

\* The waiting time is over: the request is reported as successful all the same.
Timeout ==
  /\ request = "waiting"
  /\ request' = "successful"
  /\ UNCHANGED <<prog, process, decomposition, alive, state, job>>

-----------------------------------------------------------------------------
(* ASCPOperatorInterpreter and SCPOperator *)

About(j, pc) == job[j].pc = pc /\ job[j].op \in alive

\* The event concerns an operator no interpreter supports, or an erased one.
Ignore(j) ==
  /\ job[j].pc = "execute"
  /\ job[j].op \notin alive \/ prog.kind[job[j].op] = "untyped"
  /\ Drop(j)
  /\ UNCHANGED <<prog, request, process, decomposition, alive, state>>

\* Mutant: an operator announces its end twice.
Execute_EndsTwice(j) ==
  LET o == job[j].op IN
  /\ About(j, "execute")
  /\ prog.kind[o] = "plain"
  /\ \E e \in prog.outcomes[o] : job' = [job EXCEPT ![j] = Ending(o, e, 2)]
  /\ UNCHANGED <<prog, request, process, decomposition, alive, state>>

Execute(j) ==
  LET o == job[j].op IN
  /\ About(j, "execute")
  /\ prog.kind[o] = "plain"
  /\ \E e \in prog.outcomes[o] : job' = [job EXCEPT ![j] = Ending(o, e, 1)]
  /\ UNCHANGED <<prog, request, process, decomposition, alive, state>>

\* SCPOperatorElStr3::Parse ends the operator with an error, and so does the
\* SCPOperatorCall::Parse that called it.
ExecuteMalformedCall(j) ==
  LET o == job[j].op IN
  /\ About(j, "execute")
  /\ prog.kind[o] = "malformedCall"
  /\ job' = [job EXCEPT ![j] = Ending(o, "error", 2)]
  /\ UNCHANGED <<prog, request, process, decomposition, alive, state>>

\* SCPOperatorReturn looks for the process whose decomposition holds it ...
FindProcess(j) ==
  /\ About(j, "execute")
  /\ prog.kind[job[j].op] = "return"
  /\ Goto(j, "return")
  /\ UNCHANGED <<prog, request, process, decomposition, alive, state>>

\* Mutant: a return operator is finished like any other.
Return_Finishes(j, k) ==
  /\ job[j].pc = "return" /\ process # "erased"
  /\ NewJob(k)
  /\ process' = "finished"
  /\ request' = IF request = "waiting" THEN "woken" ELSE request
  /\ job' = [job EXCEPT ![j] = Ending(job[j].op, "success", 1), ![k] = Destroying]
  /\ UNCHANGED <<prog, decomposition, alive, state>>

\* ... and finishes the process; its own operator is never finished.
Return(j, k) ==
  /\ job[j].pc = "return" /\ process # "erased"
  /\ NewJob(k)
  /\ process' = "finished"
  /\ request' = IF request = "waiting" THEN "woken" ELSE request
  /\ job' = [job EXCEPT ![j] = Idle, ![k] = Destroying]
  /\ UNCHANGED <<prog, decomposition, alive, state>>

\* Mutants: the outcome of the execution before, or active_action, is left.
ClearExecutionState_KeepsOutcome(j) ==
  /\ job[j].pc = "clear"
  /\ state' = [state EXCEPT ![job[j].op] = @ \ {"active", "finished"}]
  /\ Goto(j, "mark")
  /\ UNCHANGED <<prog, request, process, decomposition, alive>>
ClearExecutionState_KeepsActive(j) ==
  /\ job[j].pc = "clear"
  /\ state' = [state EXCEPT ![job[j].op] = @ \cap {"active"}]
  /\ Goto(j, "mark")
  /\ UNCHANGED <<prog, request, process, decomposition, alive>>

ClearExecutionState(j) ==
  /\ job[j].pc = "clear"
  /\ state' = [state EXCEPT ![job[j].op] = {}]
  /\ Goto(j, "mark")
  /\ UNCHANGED <<prog, request, process, decomposition, alive>>

\* Mutant: an arc is added to an operator that no longer exists.
MarkOutcome_Unchecked(j) ==
  /\ job[j].pc = "mark"
  /\ state' = [state EXCEPT ![job[j].op] = @ \cup {job[j].out}]
  /\ Goto(j, "finish")
  /\ UNCHANGED <<prog, request, process, decomposition, alive>>

MarkOutcome(j) ==
  /\ About(j, "mark")
  /\ state' = [state EXCEPT ![job[j].op] = @ \cup {job[j].out}]
  /\ Goto(j, "finish")
  /\ UNCHANGED <<prog, request, process, decomposition, alive>>

\* Mutants: the handler never ends; the destroyer takes an operator for a process.
FinishExecution_Forever(j, k) ==
  LET o == job[j].op
      e == job[j].out
  IN
  /\ About(j, "finish")
  /\ NewJob(k)
  /\ state' = [state EXCEPT ![o] = @ \cup {"finished"}]
  /\ job' = [job EXCEPT ![j] = Ending(o, e, job[j].left - 1), ![k] = Synchronizing(o, e)]
  /\ UNCHANGED <<prog, request, process, decomposition, alive>>
FinishExecution_Destroys(j, k) ==
  /\ About(j, "finish")
  /\ NewJob(k)
  /\ state' = [state EXCEPT ![job[j].op] = @ \cup {"finished"}]
  /\ job' = [job EXCEPT ![j] = Idle, ![k] = Destroying]
  /\ UNCHANGED <<prog, request, process, decomposition, alive>>

FinishExecution(j, k) ==
  LET o == job[j].op
      e == job[j].out
      n == job[j].left
  IN
  /\ About(j, "finish")
  /\ NewJob(k)
  /\ state' = [state EXCEPT ![o] = @ \cup {"finished"}]
  /\ job' = [job EXCEPT
               ![j] = IF n > 1 THEN Ending(o, e, n - 1) ELSE Idle,
               ![k] = Synchronizing(o, e)]
  /\ UNCHANGED <<prog, request, process, decomposition, alive>>

\* An arc to an erased element cannot be generated: the handler is abandoned.
Abandon(j) ==
  /\ \/ job[j].pc \in {"mark", "finish"} /\ job[j].op \notin alive
     \/ job[j].pc = "return" /\ process = "erased"
  /\ Drop(j)
  /\ UNCHANGED <<prog, request, process, decomposition, alive, state>>

-----------------------------------------------------------------------------
(* ASCPProgramExecutionSyncronizer *)

\* The state each check looks for, the check that follows it when the state is
\* absent, and the relations whose targets are activated when it is present.
Sought == [checkError |-> "error", checkSuccess |-> "success",
           checkUnsuccess |-> "unsuccess", checkFinished |-> "finished"]
Follower == [checkError |-> "checkSuccess", checkSuccess |-> "checkUnsuccess",
             checkUnsuccess |-> "checkFinished"]
Taken_NoGoto == [error |-> {"error"}, success |-> {"then"},
                 unsuccess |-> {"else", "goto"}, finished |-> {"goto"}]
Taken == [error |-> {"error"}, success |-> {"then", "goto"},
          unsuccess |-> {"else", "goto"}, finished |-> {"goto"}]

Successors(p, o, f) ==
  { a \in Relation \X Operator : a[1] \in Taken[f] /\ a[2] \in p.next[a[1]][o] }

CheckState(j) ==
  LET o == job[j].op
      f == Sought[job[j].pc]
      T == Successors(prog, o, f)
  IN
  /\ job[j].pc \in CheckPC
  /\ job' = [job EXCEPT ![j] =
       IF f \in state[o]
       THEN IF T = {} THEN Idle ELSE Moved(j, "activate", T)
       ELSE IF job[j].pc = "checkFinished" THEN Idle
                                           ELSE Moved(j, Follower[job[j].pc], {})]
  /\ UNCHANGED <<prog, request, process, decomposition, alive, state>>

\* The arcs InitOperatorsByRelation may come to next: nrel_goto is iterated
\* after nrel_then or nrel_else.
NextArc(j, a) ==
  /\ a \in job[j].todo
  /\ a[1] = "goto" => \A b \in job[j].todo : b[1] = "goto"

\* Mutant: the iterator does not advance.
Activate_Again(j, k, a) ==
  /\ About(j, "activate")
  /\ NextArc(j, a)
  /\ a[2] \in alive
  /\ NewJob(k)
  /\ state' = [state EXCEPT ![a[2]] = @ \cup {"active"}]
  /\ job' = [job EXCEPT ![k] = Executing(a[2])]
  /\ UNCHANGED <<prog, request, process, decomposition, alive>>

Activate(j, k, a) ==
  /\ About(j, "activate")
  /\ NextArc(j, a)
  /\ a[2] \in alive
  /\ NewJob(k)
  /\ state' = [state EXCEPT ![a[2]] = @ \cup {"active"}]
  /\ job' = [job EXCEPT
               ![j] = IF job[j].todo = {a}
                      THEN Idle ELSE Moved(j, "activate", job[j].todo \ {a}),
               ![k] = Executing(a[2])]
  /\ UNCHANGED <<prog, request, process, decomposition, alive>>

\* The iterator ends with the operator it starts from; an erased target makes
\* GenerateConnector throw.
StopActivating(j) ==
  /\ job[j].pc = "activate"
  /\ \/ job[j].op \notin alive
     \/ \E a \in job[j].todo : NextArc(j, a) /\ a[2] \notin alive
  /\ Drop(j)
  /\ UNCHANGED <<prog, request, process, decomposition, alive, state>>

-----------------------------------------------------------------------------
(* ASCPProcessDestroyer *)

BeginDestroy(j) ==
  /\ job[j].pc = "destroy"
  /\ IF decomposition THEN Goto(j, "erase") ELSE Drop(j)
  /\ UNCHANGED <<prog, request, process, decomposition, alive, state>>

\* Mutant: operators still in active_action are spared.
EraseOperator_Inactive(j, o) ==
  /\ job[j].pc = "erase"
  /\ o \in alive /\ "active" \notin state[o]
  /\ alive' = alive \ {o}
  /\ state' = [state EXCEPT ![o] = {}]
  /\ UNCHANGED <<prog, request, process, decomposition, job>>

EraseOperator(j, o) ==
  /\ job[j].pc = "erase"
  /\ o \in alive
  /\ alive' = alive \ {o}
  /\ state' = [state EXCEPT ![o] = {}]
  /\ UNCHANGED <<prog, request, process, decomposition, job>>

EraseDecomposition(j) ==
  /\ job[j].pc = "erase"
  /\ alive = {}
  /\ decomposition' = FALSE
  /\ Goto(j, "eraseProcess")
  /\ UNCHANGED <<prog, request, process, alive, state>>

EraseProcess(j) ==
  /\ job[j].pc = "eraseProcess"
  /\ process' = "erased"
  /\ Drop(j)
  /\ UNCHANGED <<prog, request, decomposition, alive, state>>

-----------------------------------------------------------------------------
Interpreter ==
  \/ Refuse \/ Generate \/ Subscribe \/ Wake \/ Timeout
  \/ \E k \in Job : StartFirst(k) \/ FinishEmpty(k)

Execution(j) ==
  \/ Ignore(j) \/ Execute(j) \/ ExecuteMalformedCall(j) \/ FindProcess(j)
  \/ ClearExecutionState(j) \/ MarkOutcome(j) \/ Abandon(j)
  \/ \E k \in Job : Return(j, k) \/ FinishExecution(j, k)

Synchronizer(j) ==
  \/ CheckState(j) \/ StopActivating(j)
  \/ \E k \in Job, a \in Relation \X Operator : Activate(j, k, a)

Destroyer(j) ==
  \/ BeginDestroy(j) \/ EraseDecomposition(j) \/ EraseProcess(j)
  \/ \E o \in Operator : EraseOperator(j, o)

Next ==
  \/ Interpreter
  \/ \E j \in Job : Execution(j) \/ Synchronizer(j) \/ Destroyer(j)

Spec == Init /\ [][Next]_vars

\* A queued event is handled and a handler runs on: the pool's threads are not
\* withheld from it.  A waiter waits for a limited time.
Fairness ==
  /\ WF_vars(Interpreter)
  /\ \A j \in Job : WF_vars(Execution(j) \/ Synchronizer(j) \/ Destroyer(j))

FairSpec == Spec /\ Fairness

-----------------------------------------------------------------------------
(***************************************************************************)
(* Programs whose control never forks: every way an operator can end leads *)
(* to at most one operator, and every operator finishes once.              *)
(***************************************************************************)
Sequential(p) ==
  \A o \in Operator :
    /\ p.kind[o] # "malformedCall"
    /\ \A e \in Outcome : \A a, b \in Successors(p, o, e) : a = b

(***************************************************************************)
(* Programs whose parallel branches never meet again: an operator follows  *)
(* at most one other one, in one way, and none leads back to the first.    *)
(***************************************************************************)
Arcs(p) == { a \in Operator \X Relation \X Operator : a[3] \in p.next[a[2]][a[1]] }
Branching(p) ==
  /\ \A o \in Operator : p.kind[o] # "malformedCall"
  /\ \A a, b \in Arcs(p) : a[3] = b[3] => a = b
  /\ \A a \in Arcs(p) : a[3] # p.first

\* The state, the process and every reaction have the shape the code gives them.
TypeOK ==
  /\ prog \in ProgramType
  /\ request \in {"initiated", "generated", "started", "waiting", "woken",
                  "successful", "unsuccessful", "error"}
  /\ process \in {"absent", "running", "finished", "erased"}
  /\ decomposition \in BOOLEAN
  /\ alive \subseteq Operator
  /\ state \in [Operator -> SUBSET State]
  /\ job \in [Job -> JobType]

\* A sequential process has one reaction in flight at most: no two operators
\* of it run at once, and it is not erased while one of them runs.
SingleReaction ==
  Sequential(prog) => \A j, k \in Job : Busy(j) /\ Busy(k) => j = k

OutcomeFollowed ==
  \A j \in Job : job[j].pc = "activate" =>
    job[j].todo \subseteq Successors(prog, job[j].op, job[j].out)

\* The synchronizer reads an operator's state after the event that made it
\* run.  It still follows the relations of the outcome the event announced:
\* no later execution of the operator, in a loop, has changed the state.
SynchronizedOutcome == Sequential(prog) => OutcomeFollowed

\* Nor does it take another way when branches run beside it, one of which may
\* return and have the operators erased.
BranchOutcome == Branching(prog) => OutcomeFollowed

\* No interpreter, synchronizer or finish of a sequential process ever meets
\* an operator that the destroyer has erased.
HandledOperatorsLive ==
  Sequential(prog) => \A j \in Job : job[j].op # NoOperator => job[j].op \in alive

\* An operator is in active_action only while its interpreter has yet to finish
\* it: whoever looks for active operators finds no operator executed before.
ActiveMeansExecuting ==
  Sequential(prog) =>
    \A o \in Operator : "active" \in state[o] =>
      \/ prog.kind[o] \in {"return", "untyped"}
      \/ \E j \in Job : job[j].op = o /\ job[j].pc \in {"execute", "clear"}

\* In a program whose branches never meet, no operator is handled twice at once,
\* whatever the destroyer does meanwhile.
OneReactionPerOperator ==
  Branching(prog) =>
    \A j, k \in Job : job[j].op = job[k].op /\ job[j].op # NoOperator => j = k

\* Handlers that outlive their process, of any program, leave no arc in it.
ErasedLeavesNothing ==
  /\ \A o \in Operator \ alive : state[o] = {}
  /\ process = "erased" => alive = {} /\ ~decomposition

\* Nothing of a process is erased before it was finished by a return operator.
ErasedOnlyWhenFinished ==
  [][alive \subseteq alive' \/ process = "finished"]_vars

\* docs/agents/ASCPProcessInterpreter.tex:9, "wait until the interpretation of
\* the process is over": a request reported successful has its process finished.
ReportedWhenFinished ==
  request = "successful" => process \in {"finished", "erased"}

\* Whatever becomes of the process, its request is answered: the waiter may
\* have been created too late, and then only its timeout ends it.
RequestAnswered ==
  <>(request \in {"successful", "unsuccessful", "error"})

\* A process whose every branch comes to a return operator is erased whole,
\* though several returns may each have set a destroyer on it.
ProcessErased ==
  prog.valid ~> process = "erased" /\ alive = {} /\ \A j \in Job : ~Busy(j)

-----------------------------------------------------------------------------
(* The agents implement ProgramFlow: control is at the operator that the   *)
(* one reaction in flight is about, until the next operator is activated.  *)

AtOperator == \E j \in Job : job[j].op # NoOperator
Current    == (CHOOSE j \in Job : job[j].op # NoOperator)

Phase ==
  CASE request \in {"initiated", "generated"} -> "ready"
    [] request = "unsuccessful"               -> "refused"
    [] OTHER -> IF process # "running" THEN "returned"
                ELSE IF AtOperator THEN "running" ELSE "halted"

At == IF Phase = "running" THEN job[Current].op ELSE NoOperator

Flow == INSTANCE ProgramFlow WITH phase <- Phase, at <- At

\* Control passes as ProgramFlow says: from one operator to one successor that
\* its outcome allows, until a return, an operator without one, or a refusal.
ImplementsFlow == Flow!Spec

-----------------------------------------------------------------------------
(***************************************************************************)
(* Inductive invariants behind the safety properties: ErasureInv for every *)
(* program, ControlInv for those whose control never forks, BranchInv for  *)
(* those whose branches never meet.                                        *)
(***************************************************************************)
ErasureInv ==
  /\ ErasedLeavesNothing
  /\ request = "initiated" => process = "absent" /\ alive = {} /\ ~decomposition
  /\ request = "generated" =>
       /\ prog.valid /\ process = "running"
       /\ alive = IF prog.decomposed THEN Operator ELSE {}
  /\ request \in {"initiated", "generated", "unsuccessful"} => \A j \in Job : ~Busy(j)
  /\ \A j \in Job : job[j].pc \in {"destroy", "erase", "eraseProcess"} =>
       process \in {"finished", "erased"}
  /\ \A j \in Job : job[j].pc = "eraseProcess" => alive = {} /\ ~decomposition

\* The state arcs of an operator say how far its handler has come.
Handled(j) ==
  LET o == job[j].op
      e == job[j].out
      pc == job[j].pc
  IN
  /\ process = "running" /\ alive = Operator
  /\ pc = "return" => prog.kind[o] = "return"
  /\ pc \notin {"execute", "return"} => prog.kind[o] = "plain" /\ e \in prog.outcomes[o]
  /\ pc \in {"clear", "mark", "finish"} => job[j].left = 1
  /\ pc = "mark" => state[o] = {}
  /\ pc = "finish" => state[o] = {e}
  /\ pc \in CheckPC \cup {"activate"} => state[o] = {e, "finished"}
  /\ pc = "checkSuccess" => e # "error"
  /\ pc = "checkUnsuccess" => e = "unsuccess"
  /\ pc # "checkFinished"
  /\ pc = "activate" =>
       job[j].todo # {} /\ job[j].todo \subseteq Successors(prog, o, e)

ControlInv ==
  Sequential(prog) =>
    /\ SingleReaction /\ ActiveMeansExecuting
    /\ \A j \in Job :
         IF job[j].pc \in {"idle", "destroy", "erase", "eraseProcess"}
         THEN job[j].op = NoOperator
         ELSE job[j].op \in Operator /\ Handled(j)

\* The same for a reaction of a program whose branches never meet, but that the
\* destroyer may have erased the operator meanwhile.
Along(j) ==
  LET o == job[j].op
      e == job[j].out
      pc == job[j].pc
  IN
  /\ pc \in {"clear", "mark", "finish"} => job[j].left = 1
  /\ pc = "mark" => state[o] = {}
  /\ o \in alive =>
       /\ pc = "finish" => state[o] = {e}
       /\ pc \in CheckPC => state[o] = {e, "finished"}
       /\ pc = "checkSuccess" => e # "error"
       /\ pc = "checkUnsuccess" => e = "unsuccess"
       /\ pc # "checkFinished"
  /\ pc = "activate" => job[j].todo \subseteq Successors(prog, o, e)

\* D has been activated, which the code does not keep: the first operator and
\* what followed; every reaction is about one of D, each about another, and the
\* operators it may still activate are not in D.
Entered(D) ==
  /\ request \in {"initiated", "generated"} => D = {}
  /\ \A t \in D : t = prog.first \/ \E a \in Arcs(prog) : a[1] \in D /\ a[3] = t
  /\ \A j \in Job : job[j].op # NoOperator => job[j].op \in D
  /\ \A j, k \in Job : job[j].op = job[k].op /\ job[j].op # NoOperator => j = k
  /\ \A j \in Job, a \in Arcs(prog) : job[j].op = a[1] /\ a[3] \in D =>
       job[j].pc = "activate" /\ <<a[2], a[3]>> \notin job[j].todo

BranchInv ==
  Branching(prog) =>
    /\ \A j \in Job :
         IF job[j].pc \in {"idle", "destroy", "erase", "eraseProcess"}
         THEN job[j].op = NoOperator
         ELSE job[j].op \in Operator /\ Along(j)
    /\ \E D \in SUBSET Operator : Entered(D)
=============================================================================
