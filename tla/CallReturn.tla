----------------------------- MODULE CallReturn -----------------------------
(***************************************************************************)
(* How one scp-program calls another: the operator `call' requests the     *)
(* interpretation of a program and stores the request, an action, in a     *)
(* variable; `waitReturn' ends when that action is finished, either        *)
(* because its interpreter sees so or because the agent that processes     *)
(* finished interpretation actions finds the operator active.  Neither     *)
(* knows of the other, so an operator may be ended by both.                *)
(*                                                                         *)
(* What the called program does is ScpProcess's; here an action is just    *)
(* initiated and, some time later, finished.  A Job is one reaction of an  *)
(* agent; SCPOperator::ClearExecutionState and FinishExecution are the two *)
(* steps of an operator's end.                                             *)
(***************************************************************************)
EXTENDS Naturals

CONSTANTS
  Caller,      \* operators `call'
  Waiter,      \* operators `waitReturn'
  NoOperator,
  Variable,    \* scp-variables of the process
  Action,      \* interpretation requests there can be, at most
  NoAction,
  Programs,    \* the programs considered
  MaxJobs      \* agent reactions in flight at once, at most

Operator == Caller \cup Waiter

(***************************************************************************)
(* The operators activated at first, the variable each call assigns, what  *)
(* each waitReturn has as its operand (a variable, or an action when it is *)
(* rrel_scp_const), and the operators activated when one succeeds.         *)
(***************************************************************************)
ProgramType ==
  [ start    : SUBSET Operator,
    assigned : [Caller -> Variable],
    operand  : [Waiter -> Variable \cup Action],
    next     : [Operator -> SUBSET Operator] ]

ASSUME NamesAssumption ==
  /\ Caller \cap Waiter = {} /\ Variable \cap Action = {}
  /\ NoOperator \notin Operator /\ NoAction \notin Action
ASSUME ProgramsAssumption == Programs \subseteq ProgramType
ASSUME MaxJobsAssumption  == MaxJobs \in Nat

Job == 1 .. MaxJobs

VARIABLES
  prog,    \* the program interpreted
  action,  \* action[a]: what became of request a
  value,   \* value[v]: targets of the temporary arcs from variable v
  active,  \* operators in active_action
  job      \* job[j]: what reaction j is doing

vars == <<prog, action, value, active, job>>

-----------------------------------------------------------------------------
\* "reset", "request", "assign": a call; "parse", "look": a waitReturn; "clear",
\* "finish": the end of an operator; "sync": the synchronizer; "scan": the
\* processor of finished action `act', which has been through the variables
\* `seen' and the waiters of the last one but `ops'.
PC == {"idle", "reset", "request", "assign", "parse", "look", "clear", "finish",
       "sync", "scan"}

JobType ==
  [ pc   : PC,
    op   : Operator \cup {NoOperator},
    act  : Action \cup {NoAction},
    out  : {"success", "error"},
    scan : BOOLEAN,
    seen : SUBSET Variable,
    ops  : SUBSET Operator ]

NewReaction(pc, o, a, scan, ops) ==
  [pc |-> pc, op |-> o, act |-> a, out |-> "success", scan |-> scan, seen |-> {},
   ops |-> ops]

Idle       == NewReaction("idle", NoOperator, NoAction, FALSE, {})
Execute(o) == NewReaction(IF o \in Caller THEN "reset" ELSE "parse", o, NoAction, FALSE, {})
\* A synchronizer that finds no operator to activate leaves no trace.
Synchronize(o, ops) ==
  IF ops = {} THEN Idle ELSE NewReaction("sync", o, NoAction, FALSE, ops)
Process(a) ==
  NewReaction("scan", NoOperator, a, TRUE, {w \in Waiter : prog.operand[w] = a})

Busy(j) == job[j].pc # "idle"
NewJob(k) == ~Busy(k) /\ \A j \in Job : j < k => Busy(j)
Set(j, r) == job' = [job EXCEPT ![j] = r]
Goto(j, pc) == Set(j, [job[j] EXCEPT !.pc = pc])

Init ==
  /\ prog \in Programs
  /\ action = [a \in Action |-> "free"]
  /\ value = [v \in Variable |-> {}]
  /\ active = {}
  /\ job = [j \in Job |->
             IF j = 1 THEN Synchronize(NoOperator, prog.start) ELSE Idle]

-----------------------------------------------------------------------------
(* The called program, and requests made by others for a constant action. *)

Constants == {prog.operand[w] : w \in Waiter} \cap Action

RequestFromOutside(a) ==
  /\ a \in Constants /\ action[a] = "free"
  /\ action' = [action EXCEPT ![a] = "initiated"]
  /\ UNCHANGED <<prog, value, active, job>>

\* Mutant: the end of an action is announced again and again.
FinishAction_Again(a, k) ==
  /\ action[a] # "free"
  /\ NewJob(k)
  /\ action' = [action EXCEPT ![a] = "finished"]
  /\ Set(k, Process(a))
  /\ UNCHANGED <<prog, value, active>>

FinishAction(a, k) ==
  /\ action[a] = "initiated"
  /\ NewJob(k)
  /\ action' = [action EXCEPT ![a] = "finished"]
  /\ Set(k, Process(a))
  /\ UNCHANGED <<prog, value, active>>

-----------------------------------------------------------------------------
(* SCPOperatorCall::Execute *)

ResetOperand(j) ==
  /\ job[j].pc = "reset"
  /\ value' = [value EXCEPT ![prog.assigned[job[j].op]] = {}]
  /\ Goto(j, "request")
  /\ UNCHANGED <<prog, action, active>>

\* Mutant: the call does not keep the action it generates.
RequestInterpretation_Forgets(j, a) ==
  /\ job[j].pc = "request"
  /\ action[a] = "free" /\ a \notin Constants
  /\ action' = [action EXCEPT ![a] = "initiated"]
  /\ Goto(j, "assign")
  /\ UNCHANGED <<prog, value, active>>

\* The action is initiated before the variable gets it.
RequestInterpretation(j, a) ==
  /\ job[j].pc = "request"
  /\ action[a] = "free" /\ a \notin Constants
  /\ action' = [action EXCEPT ![a] = "initiated"]
  /\ Set(j, [job[j] EXCEPT !.pc = "assign", !.act = a])
  /\ UNCHANGED <<prog, value, active>>

\* A call whose operands or parameters do not fit the program ends in error.
RejectCall(j) ==
  /\ job[j].pc = "request"
  /\ Set(j, [job[j] EXCEPT !.pc = "clear", !.out = "error"])
  /\ UNCHANGED <<prog, action, value, active>>

SetOperand(j) ==
  /\ job[j].pc = "assign"
  /\ value' = [value EXCEPT ![prog.assigned[job[j].op]] = @ \cup {job[j].act}]
  /\ Goto(j, "clear")
  /\ UNCHANGED <<prog, action, active>>

-----------------------------------------------------------------------------
(* SCPOperatorWaitReturn: the operand's value is read when it is parsed. *)

Awaited(w) ==
  IF prog.operand[w] \in Variable THEN value[prog.operand[w]] ELSE {prog.operand[w]}

Parse(j) ==
  LET w == job[j].op IN
  /\ job[j].pc = "parse"
  /\ \/ \E a \in Awaited(w) : Set(j, [job[j] EXCEPT !.pc = "look", !.act = a])
     \/ /\ Awaited(w) = {}
        /\ Set(j, [job[j] EXCEPT !.pc = "clear", !.out = "error"])
  /\ UNCHANGED <<prog, action, value, active>>

\* Mutants: only the processor ends a waiter; or it does not wait at all.
LookAtAction_Leaves(j) ==
  /\ job[j].pc = "look"
  /\ Set(j, Idle)
  /\ UNCHANGED <<prog, action, value, active>>
LookAtAction_Hastens(j) ==
  /\ job[j].pc = "look"
  /\ Goto(j, "clear")
  /\ UNCHANGED <<prog, action, value, active>>

\* Left active, the operator is for the processor of finished actions to end.
LookAtAction(j) ==
  /\ job[j].pc = "look"
  /\ IF action[job[j].act] = "finished" THEN Goto(j, "clear") ELSE Set(j, Idle)
  /\ UNCHANGED <<prog, action, value, active>>

-----------------------------------------------------------------------------
(* SCPOperator and ASCPProgramExecutionSyncronizer *)

ClearExecutionState(j) ==
  /\ job[j].pc = "clear"
  /\ active' = active \ {job[j].op}
  /\ Goto(j, "finish")
  /\ UNCHANGED <<prog, action, value>>

\* The processor goes on with its scan, an operator's interpreter has ended.
FinishExecution(j, k) ==
  /\ job[j].pc = "finish"
  /\ NewJob(k)
  /\ job' = [job EXCEPT
               ![j] = IF job[j].scan THEN [job[j] EXCEPT !.pc = "scan"] ELSE Idle,
               ![k] = Synchronize(job[j].op, IF job[j].out = "success"
                                             THEN prog.next[job[j].op] ELSE {})]
  /\ UNCHANGED <<prog, action, value, active>>

Activate(j, k, o) ==
  /\ job[j].pc = "sync" /\ o \in job[j].ops
  /\ NewJob(k)
  /\ active' = active \cup {o}
  /\ job' = [job EXCEPT ![j] = Synchronize(job[j].op, job[j].ops \ {o}),
                        ![k] = Execute(o)]
  /\ UNCHANGED <<prog, action, value>>

-----------------------------------------------------------------------------
(* ASCPFinishedInterpretationActionProcessor *)

\* The first active one is ended, and the rest of them left.
ScanWaiter(j, w) ==
  /\ job[j].pc = "scan" /\ w \in job[j].ops
  /\ Set(j, IF w \in active
            THEN [job[j] EXCEPT !.pc = "clear", !.op = w, !.ops = {}]
            ELSE [job[j] EXCEPT !.ops = job[j].ops \ {w}])
  /\ UNCHANGED <<prog, action, value, active>>

\* Constant operands come first; then each variable with the action as value.
ScanVariable(j, v) ==
  /\ job[j].pc = "scan" /\ job[j].ops = {}
  /\ job[j].act \in value[v] /\ v \notin job[j].seen
  /\ Set(j, [job[j] EXCEPT !.seen = job[j].seen \cup {v},
                           !.ops = {w \in Waiter : prog.operand[w] = v}])
  /\ UNCHANGED <<prog, action, value, active>>

EndScan(j) ==
  /\ job[j].pc = "scan" /\ job[j].ops = {}
  /\ \A v \in Variable \ job[j].seen : job[j].act \notin value[v]
  /\ Set(j, Idle)
  /\ UNCHANGED <<prog, action, value, active>>

-----------------------------------------------------------------------------
Call(j) ==
  \/ ResetOperand(j) \/ RejectCall(j) \/ SetOperand(j)
  \/ \E a \in Action : RequestInterpretation(j, a)

End(j) ==
  \/ ClearExecutionState(j)
  \/ \E k \in Job : FinishExecution(j, k)
  \/ \E k \in Job, o \in Operator : Activate(j, k, o)

Scan(j) ==
  \/ EndScan(j)
  \/ \E w \in Waiter : ScanWaiter(j, w)
  \/ \E v \in Variable : ScanVariable(j, v)

React(j) == Call(j) \/ Parse(j) \/ LookAtAction(j) \/ End(j) \/ Scan(j)

Next ==
  \/ \E a \in Action : RequestFromOutside(a)
  \/ \E a \in Action, k \in Job : FinishAction(a, k)
  \/ \E j \in Job : React(j)

Spec == Init /\ [][Next]_vars

\* Handlers run on, and a called program is answered (ScpProcess's
\* RequestAnswered); nobody has to make a request from outside.
Fairness ==
  /\ \A j \in Job : WF_vars(React(j))
  /\ \A a \in Action : WF_vars(\E k \in Job : FinishAction(a, k))

FairSpec == Spec /\ Fairness

-----------------------------------------------------------------------------
(***************************************************************************)
(* Programs in which every operator is activated at most once, a waiter is *)
(* the last operator of its branch, as its successors may be activated     *)
(* twice, and no two calls assign, no two waiters have, the same operand.  *)
(***************************************************************************)
Arcs(p) == {a \in Operator \X Operator : a[2] \in p.next[a[1]]}
Straight(p) ==
  /\ \A a, b \in Arcs(p) : a[2] = b[2] => a = b
  /\ \A a \in Arcs(p) : a[1] \in Caller /\ a[2] \notin p.start
  /\ \A c, d \in Caller : p.assigned[c] = p.assigned[d] => c = d
  /\ \A v, w \in Waiter : p.operand[v] = p.operand[w] => v = w

TypeOK ==
  /\ prog \in ProgramType
  /\ action \in [Action -> {"free", "initiated", "finished"}]
  /\ value \in [Variable -> SUBSET Action]
  /\ active \subseteq Operator
  /\ job \in [Job -> JobType]

Returning(j, w) == job[j].op = w /\ job[j].pc \in {"clear", "finish"}

\* A waitReturn succeeds because the very action it waits for is finished,
\* whoever ends it and however late that agent comes.
ReturnAfterAction ==
  Straight(prog) =>
    \A j \in Job, w \in Waiter : Returning(j, w) /\ job[j].out = "success" =>
      job[j].act \in Awaited(w) /\ action[job[j].act] = "finished"

\* Its interpreter and the processor may both end it, and nobody else: its
\* successors are activated twice at most.
EndedByTwoAtMost ==
  Straight(prog) =>
    \A w \in Waiter : \A i, j, k \in Job :
      Returning(i, w) /\ Returning(j, w) /\ Returning(k, w) => i = j \/ j = k \/ i = k

\* No wake-up is lost: whether the action is finished before the variable has
\* it, before the operator is active or while its interpreter looks, a
\* waitReturn whose action is finished ends.
Due(w) == w \in active /\ \E a \in Awaited(w) : action[a] = "finished"
NoLostReturn ==
  \A w \in Waiter : Straight(prog) /\ Due(w) ~> w \notin active

\* docs/agents/ASCPFinishedInterpretationActionProcessor.tex:7 has all the
\* waiters of the finished action end, however many there are.
AllWaitersReturn == \A w \in Waiter : Due(w) ~> w \notin active

\* The same line has only waiters of the finished action end: an operator the
\* processor is about to end is not waiting for an action still running.
OnlyItsWaitersReturn ==
  \A j \in Job, w \in Waiter :
    Returning(j, w) /\ job[j].scan /\ w \in active /\ Awaited(w) # {} =>
      \E a \in Awaited(w) : action[a] = "finished"
=============================================================================
