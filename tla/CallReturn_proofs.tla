-------------------------- MODULE CallReturn_proofs --------------------------
(***************************************************************************)
(* Proofs about CallReturn, for any program and any number of reactions:   *)
(* states are well formed, and in a program whose operators are activated  *)
(* at most once a waiter returns after its own action only, and is ended   *)
(* by two agents at most.                                                  *)
(***************************************************************************)
EXTENDS CallReturn, TLAPS

Calling   == {"reset", "request", "assign"}
Waiting   == {"parse", "look"}
Ending    == {"clear", "finish"}

\* What TypeOK does not say of a reaction: which operators, actions and scans
\* there are in each of its phases.
JobInv(j) ==
  /\ job[j].pc \in Calling => job[j].op \in Caller /\ ~job[j].scan
  /\ job[j].pc \in Waiting => job[j].op \in Waiter /\ ~job[j].scan /\ job[j].out = "success"
  /\ job[j].pc \in Ending => job[j].op \in Operator
  /\ job[j].pc \in {"assign", "look"} => job[j].act \in Action
  /\ job[j].pc = "scan" => job[j].scan
  /\ job[j].scan =>
       /\ job[j].pc \in Ending \cup {"scan"}
       /\ job[j].act \in Action /\ job[j].ops \subseteq Waiter /\ job[j].out = "success"
       /\ job[j].pc \in Ending => job[j].op \in Waiter

TypeInv == TypeOK /\ \A j \in Job : JobInv(j)

\* What holds in straight programs.  Every operator is activated once: there
\* are a set of those that have been, and one of those that have ended, which
\* the code does not keep; an operator waits for its activation, executes, or
\* is past both, and those after it have not begun before it has ended.
Executes(j, o) == job[j].op = o /\ ~job[j].scan /\ job[j].pc \in Calling \cup Waiting \cup Ending
Calls(j, o)    == Executes(j, o) /\ job[j].pc \in Calling
Pending(j, o)  == job[j].pc = "sync" /\ o \in job[j].ops
Led(o, F)      == o \in prog.start \/ \E p \in F : o \in prog.next[p]

Once(D, F) ==
  /\ F \subseteq D /\ D \subseteq Operator
  /\ \A o \in D : Led(o, F)
  /\ \A j \in Job, o \in Operator : Pending(j, o) => o \notin D /\ Led(o, F)
  /\ \A i, j \in Job, o \in Operator : Pending(i, o) /\ Pending(j, o) => i = j
  /\ \A j \in Job, o \in Operator : Executes(j, o) => o \in D \ F
  /\ \A i, j \in Job, o \in Operator : Executes(i, o) /\ Executes(j, o) => i = j

\* A variable has a value only when its one call has given it one.
Given(D) ==
  \A c \in Caller : value[prog.assigned[c]] # {} => c \in D /\ \A j \in Job : ~Calls(j, c)
Single == \A v \in Variable : \A a, b \in value[v] : a = b

\* A waiter is looked at, or ended, for the action it waits for; an action is
\* processed once.
Awaits(j) ==
  /\ job[j].scan => action[job[j].act] = "finished" /\ \A w \in job[j].ops : job[j].act \in Awaited(w)
  /\ job[j].pc = "look" => job[j].act \in Awaited(job[j].op)
  /\ job[j].pc \in Ending /\ job[j].op \in Waiter /\ job[j].out = "success" =>
       job[j].act \in Awaited(job[j].op) /\ action[job[j].act] = "finished"
OneScan == \A i, j \in Job : job[i].scan /\ job[j].scan /\ job[i].act = job[j].act => i = j

StraightInv ==
  /\ \A j \in Job : Awaits(j)
  /\ OneScan /\ Single
  /\ \E D, F \in SUBSET Operator : Once(D, F) /\ Given(D)

IInv == TypeInv /\ (Straight(prog) => StraightInv)

-----------------------------------------------------------------------------
(* Records of reactions *)

LEMMA ReactionTyped ==
  ASSUME NEW pc \in PC, NEW o \in Operator \cup {NoOperator}, NEW a \in Action \cup {NoAction},
         NEW scan \in BOOLEAN, NEW ops \in SUBSET Operator
  PROVE  NewReaction(pc, o, a, scan, ops) \in JobType
  BY DEF NewReaction, JobType

LEMMA IdleTyped == Idle \in JobType /\ Idle.pc = "idle" /\ ~Idle.scan
  BY DEF Idle, NewReaction, JobType, PC

LEMMA SynchronizeTyped ==
  ASSUME NEW o \in Operator \cup {NoOperator}, NEW ops \in SUBSET Operator
  PROVE  /\ Synchronize(o, ops) \in JobType
         /\ ~Synchronize(o, ops).scan
         /\ \/ ops = {} /\ Synchronize(o, ops).pc = "idle"
            \/ /\ Synchronize(o, ops).pc = "sync"
               /\ Synchronize(o, ops).ops = ops
<1>1. CASE ops = {}
  BY <1>1, IdleTyped DEF Synchronize
<1>2. CASE ops # {}
  BY <1>2 DEF Synchronize, NewReaction, JobType, PC
<1>. QED
  BY <1>1, <1>2

LEMMA ExecuteTyped ==
  ASSUME NEW o \in Operator
  PROVE  /\ Execute(o) \in JobType
         /\ Execute(o).pc \in {"reset", "parse"} /\ Execute(o).op = o /\ ~Execute(o).scan
         /\ Execute(o).out = "success"
         /\ Execute(o).pc = "reset" <=> o \in Caller
  BY DEF Execute, NewReaction, JobType, PC

LEMMA ProcessTyped ==
  ASSUME NEW a \in Action
  PROVE  /\ Process(a) \in JobType
         /\ Process(a).pc = "scan" /\ Process(a).act = a /\ Process(a).scan /\ Process(a).out = "success"
         /\ Process(a).ops = {w \in Waiter : prog.operand[w] = a}
  BY DEF Process, NewReaction, JobType, PC, Operator

LEMMA WithPC ==
  ASSUME NEW r \in JobType, NEW pc \in PC
  PROVE  LET s == [r EXCEPT !.pc = pc]
         IN  /\ s \in JobType /\ s.pc = pc
             /\ s.op = r.op /\ s.act = r.act /\ s.out = r.out /\ s.scan = r.scan /\ s.seen = r.seen /\ s.ops = r.ops
  BY DEF JobType

LEMMA WithAct ==
  ASSUME NEW r \in JobType, NEW a \in Action
  PROVE  LET s == [r EXCEPT !.act = a]
         IN  /\ s \in JobType /\ s.act = a
             /\ s.pc = r.pc /\ s.op = r.op /\ s.out = r.out /\ s.scan = r.scan /\ s.ops = r.ops
  BY DEF JobType

LEMMA WithPCOut ==
  ASSUME NEW r \in JobType, NEW pc \in PC
  PROVE  LET s == [r EXCEPT !.pc = pc, !.out = "error"]
         IN  /\ s \in JobType /\ s.pc = pc /\ s.out = "error"
             /\ s.op = r.op /\ s.act = r.act /\ s.scan = r.scan /\ s.ops = r.ops
<1>. DEFINE q == [r EXCEPT !.pc = pc]
<1>1. q \in JobType /\ q.pc = pc /\ q.op = r.op /\ q.act = r.act /\ q.scan = r.scan /\ q.ops = r.ops
  BY WithPC
<1>2. [r EXCEPT !.pc = pc, !.out = "error"] = [q EXCEPT !.out = "error"]
  OBVIOUS
<1>. HIDE DEF q
<1>. QED
  BY <1>1, <1>2 DEF JobType

LEMMA WithOps ==
  ASSUME NEW r \in JobType, NEW ops \in SUBSET Operator
  PROVE  LET s == [r EXCEPT !.ops = ops]
         IN  /\ s \in JobType /\ s.ops = ops
             /\ s.pc = r.pc /\ s.op = r.op /\ s.act = r.act /\ s.out = r.out /\ s.scan = r.scan /\ s.seen = r.seen
  BY DEF JobType

LEMMA WithSeen ==
  ASSUME NEW r \in JobType, NEW seen \in SUBSET Variable
  PROVE  LET s == [r EXCEPT !.seen = seen]
         IN  /\ s \in JobType
             /\ s.pc = r.pc /\ s.op = r.op /\ s.act = r.act /\ s.out = r.out /\ s.scan = r.scan
  BY DEF JobType

LEMMA WithWaiter ==
  ASSUME NEW r \in JobType, NEW w \in Operator
  PROVE  LET s == [r EXCEPT !.pc = "clear", !.op = w, !.ops = {}]
         IN  /\ s \in JobType /\ s.pc = "clear" /\ s.op = w /\ s.ops = {}
             /\ s.act = r.act /\ s.out = r.out /\ s.scan = r.scan
<1>. DEFINE p == [r EXCEPT !.pc = "clear"]
            q == [p EXCEPT !.op = w]
<1>1. p \in JobType /\ p.pc = "clear" /\ p.act = r.act /\ p.out = r.out /\ p.scan = r.scan
  BY WithPC DEF PC
<1>2. q = [r EXCEPT !.pc = "clear", !.op = w]
  OBVIOUS
<1>3. q \in JobType /\ q.pc = "clear" /\ q.op = w /\ q.act = r.act /\ q.out = r.out /\ q.scan = r.scan
  <2>. HIDE DEF p
  <2>. QED
    BY <1>1 DEF JobType
<1>4. [r EXCEPT !.pc = "clear", !.op = w, !.ops = {}] = [q EXCEPT !.ops = {}]
  OBVIOUS
<1>. HIDE DEF p, q
<1>. QED
  BY <1>3, <1>4, WithOps

-----------------------------------------------------------------------------
(* Steps of one reaction *)

LEMMA Replaced ==
  ASSUME TypeInv, NEW j \in Job, NEW r \in JobType, job' = [job EXCEPT ![j] = r]
  PROVE  /\ job' \in [Job -> JobType] /\ job'[j] = r
         /\ \A i \in Job \ {j} : job'[i] = job[i]
  BY DEF TypeInv, TypeOK

\* What all steps of one reaction have in common: no operator is activated by
\* it, no action becomes processed, and what it ends still waits for its action.
Moved(j) ==
  /\ prog' = prog
  /\ job' \in [Job -> JobType] /\ \A i \in Job \ {j} : job'[i] = job[i]
  /\ JobInv(j)'
  /\ \A o \in Operator :
       /\ Pending(j, o)' => Pending(j, o)
       /\ Executes(j, o)' => Executes(j, o)
       /\ Calls(j, o)' => Calls(j, o)
  /\ job'[j].scan => job[j].scan /\ job'[j].act = job[j].act
  /\ Awaits(j) => Awaits(j)'

LEMMA MovedCall ==
  ASSUME TypeInv, NEW j \in Job, Call(j)
  PROVE  Moved(j)
<1>r. job[j] \in JobType /\ JobInv(j)
  BY DEF TypeInv, TypeOK
<1>p. {"request", "assign", "clear"} \subseteq PC
  BY DEF PC
<1>c. job[j].op \in Caller /\ job[j].op \notin Waiter /\ ~job[j].scan /\ job[j].pc \in Calling
  BY <1>r, NamesAssumption DEF JobInv, Calling, Call, ResetOperand, RejectCall, SetOperand, RequestInterpretation
<1>u. prog' = prog
  BY DEF Call, ResetOperand, RejectCall, SetOperand, RequestInterpretation
<1>1. PICK r \in JobType : /\ job' = [job EXCEPT ![j] = r]
                           /\ r.op = job[j].op /\ ~r.scan
                           /\ r.pc \in {"request", "assign", "clear"} /\ (r.pc = "assign" => r.act \in Action)
  <2>1. CASE ResetOperand(j)
    <3>. DEFINE s == [job[j] EXCEPT !.pc = "request"]
    <3>s. job' = [job EXCEPT ![j] = s] /\ s \in JobType /\ s.pc = "request" /\ s.op = job[j].op /\ s.scan = job[j].scan
      BY <2>1, <1>r, <1>p, WithPC DEF ResetOperand, Goto, Set
    <3>. HIDE DEF s
    <3>. QED
      BY <3>s, <1>c
  <2>2. CASE RejectCall(j)
    <3>. DEFINE s == [job[j] EXCEPT !.pc = "clear", !.out = "error"]
    <3>s. job' = [job EXCEPT ![j] = s] /\ s \in JobType /\ s.pc = "clear" /\ s.op = job[j].op /\ s.scan = job[j].scan
      BY <2>2, <1>r, <1>p, WithPCOut DEF RejectCall, Set
    <3>. HIDE DEF s
    <3>. QED
      BY <3>s, <1>c
  <2>3. CASE SetOperand(j)
    <3>. DEFINE s == [job[j] EXCEPT !.pc = "clear"]
    <3>s. job' = [job EXCEPT ![j] = s] /\ s \in JobType /\ s.pc = "clear" /\ s.op = job[j].op /\ s.scan = job[j].scan
      BY <2>3, <1>r, <1>p, WithPC DEF SetOperand, Goto, Set
    <3>. HIDE DEF s
    <3>. QED
      BY <3>s, <1>c
  <2>4. ASSUME NEW a \in Action, RequestInterpretation(j, a)
        PROVE  \E r \in JobType :
                 /\ job' = [job EXCEPT ![j] = r]
                 /\ r.op = job[j].op /\ ~r.scan
                 /\ r.pc \in {"request", "assign", "clear"} /\ (r.pc = "assign" => r.act \in Action)
    <3>. DEFINE q == [job[j] EXCEPT !.pc = "assign"]
                s == [q EXCEPT !.act = a]
    <3>1. [job[j] EXCEPT !.pc = "assign", !.act = a] = s
      OBVIOUS
    <3>2. job' = [job EXCEPT ![j] = s]
      BY <2>4, <3>1 DEF RequestInterpretation, Set
    <3>3. q \in JobType /\ q.pc = "assign" /\ q.op = job[j].op /\ q.out = job[j].out /\ q.scan = job[j].scan
      BY <1>r, <1>p, WithPC
    <3>. HIDE DEF q
    <3>4. s \in JobType /\ s.pc = "assign" /\ s.act = a /\ s.op = job[j].op /\ s.out = job[j].out /\ s.scan = job[j].scan
      BY <3>3, WithAct
    <3>. HIDE DEF s
    <3>. QED
      BY <3>2, <3>4, <1>c
  <2>. QED
    BY <2>1, <2>2, <2>3, <2>4 DEF Call
<1>2. /\ job' \in [Job -> JobType] /\ job'[j] = r
      /\ \A i \in Job \ {j} : job'[i] = job[i]
  BY <1>1, Replaced
<1>3. JobInv(j)'
  BY <1>1, <1>2, <1>c DEF JobInv, Calling, Waiting, Ending, Operator
<1>4. Awaits(j)'
  BY <1>1, <1>2, <1>c DEF Awaits, Ending
<1>. QED
  BY <1>u, <1>1, <1>2, <1>3, <1>4, <1>c DEF Moved, Pending, Executes, Calls, Calling

LEMMA MovedWait ==
  ASSUME TypeInv, NEW j \in Job, Parse(j) \/ LookAtAction(j)
  PROVE  Moved(j)
<1>r. job[j] \in JobType /\ JobInv(j) /\ prog \in ProgramType /\ value \in [Variable -> SUBSET Action]
  BY DEF TypeInv, TypeOK
<1>p. {"look", "clear"} \subseteq PC
  BY DEF PC
<1>w. job[j].op \in Waiter /\ ~job[j].scan /\ job[j].pc \in Waiting /\ job[j].out = "success"
  BY <1>r DEF JobInv, Waiting, Parse, LookAtAction
<1>u. UNCHANGED <<prog, value, action>>
  BY DEF Parse, LookAtAction
<1>a. Awaited(job[j].op) \subseteq Action /\ \A w \in Waiter : Awaited(w)' = Awaited(w)
  <2>1. prog.operand \in [Waiter -> Variable \cup Action]
    BY <1>r DEF ProgramType
  <2>. QED
    BY <2>1, <1>r, <1>w, <1>u DEF Awaited
<1>1. PICK r \in JobType :
        /\ job' = [job EXCEPT ![j] = r]
        /\ ~r.scan
        /\ \/ r.pc = "idle"
           \/ /\ r.op = job[j].op
              /\ \/ r.pc = "look" /\ r.act \in Awaited(job[j].op) /\ r.out = "success"
                 \/ r.pc = "clear" /\ r.out = "error"
                 \/ r.pc = "clear" /\ r.act = job[j].act /\ job[j].pc = "look" /\ action[job[j].act] = "finished"
  <2>1. CASE Parse(j)
    <3>1. CASE \E a \in Awaited(job[j].op) : Set(j, [job[j] EXCEPT !.pc = "look", !.act = a])
      <4>a. PICK a \in Awaited(job[j].op) : Set(j, [job[j] EXCEPT !.pc = "look", !.act = a])
        BY <3>1
      <4>. DEFINE q == [job[j] EXCEPT !.pc = "look"]
                  s == [q EXCEPT !.act = a]
      <4>1. [job[j] EXCEPT !.pc = "look", !.act = a] = s
        OBVIOUS
      <4>2. job' = [job EXCEPT ![j] = s]
        BY <4>a, <4>1 DEF Set
      <4>3. q \in JobType /\ q.pc = "look" /\ q.op = job[j].op /\ q.out = job[j].out /\ q.scan = job[j].scan
        BY <1>r, <1>p, WithPC
      <4>. HIDE DEF q
      <4>4. s \in JobType /\ s.pc = "look" /\ s.act = a /\ s.op = job[j].op /\ s.out = job[j].out /\ s.scan = job[j].scan
        BY <4>3, <4>a, <1>a, WithAct
      <4>. HIDE DEF s
      <4>. QED
        BY <4>2, <4>4, <4>a, <1>w
    <3>2. CASE Set(j, [job[j] EXCEPT !.pc = "clear", !.out = "error"])
      <4>. DEFINE s == [job[j] EXCEPT !.pc = "clear", !.out = "error"]
      <4>s. job' = [job EXCEPT ![j] = s] /\ s \in JobType /\ s.pc = "clear" /\ s.out = "error" /\ s.op = job[j].op /\ s.scan = job[j].scan
        BY <3>2, <1>r, <1>p, WithPCOut DEF Set
      <4>. HIDE DEF s
      <4>. QED
        BY <4>s, <1>w
    <3>. QED
      BY <2>1, <3>1, <3>2 DEF Parse
  <2>2. CASE LookAtAction(j)
    <3>1. CASE action[job[j].act] = "finished"
      <4>. DEFINE s == [job[j] EXCEPT !.pc = "clear"]
      <4>s. job' = [job EXCEPT ![j] = s] /\ s \in JobType /\ s.pc = "clear" /\ s.op = job[j].op /\ s.act = job[j].act /\ s.scan = job[j].scan
        BY <2>2, <3>1, <1>r, <1>p, WithPC DEF LookAtAction, Goto, Set
      <4>. HIDE DEF s
      <4>. QED
        BY <2>2, <3>1, <4>s, <1>w DEF LookAtAction
    <3>2. CASE action[job[j].act] # "finished"
      BY <2>2, <3>2, IdleTyped DEF LookAtAction, Set
    <3>. QED
      BY <3>1, <3>2
  <2>. QED
    BY <2>1, <2>2
<1>2. /\ job' \in [Job -> JobType] /\ job'[j] = r
      /\ \A i \in Job \ {j} : job'[i] = job[i]
  BY <1>1, Replaced
<1>3. JobInv(j)'
  BY <1>1, <1>2, <1>w, <1>a DEF JobInv, Calling, Waiting, Ending, Operator
<1>4. Awaits(j) => Awaits(j)'
  BY <1>1, <1>2, <1>w, <1>a, <1>u DEF Awaits, Ending
<1>. QED
  BY <1>u, <1>1, <1>2, <1>3, <1>4, <1>w DEF Moved, Pending, Executes, Calls, Calling, Waiting, Ending

LEMMA MovedClear ==
  ASSUME TypeInv, NEW j \in Job, ClearExecutionState(j)
  PROVE  Moved(j)
<1>r. job[j] \in JobType /\ JobInv(j)
  BY DEF TypeInv, TypeOK
<1>u. UNCHANGED <<prog, value, action>> /\ job[j].pc = "clear"
  BY DEF ClearExecutionState
<1>. DEFINE r == [job[j] EXCEPT !.pc = "finish"]
<1>1. /\ job' = [job EXCEPT ![j] = r] /\ r \in JobType /\ r.pc = "finish"
      /\ r.op = job[j].op /\ r.act = job[j].act /\ r.out = job[j].out /\ r.scan = job[j].scan /\ r.ops = job[j].ops
  BY <1>r, WithPC DEF ClearExecutionState, Goto, Set, PC
<1>. HIDE DEF r
<1>2. /\ job' \in [Job -> JobType] /\ job'[j] = r
      /\ \A i \in Job \ {j} : job'[i] = job[i]
  BY <1>1, Replaced
<1>3. JobInv(j)'
  BY <1>r, <1>u, <1>1, <1>2 DEF JobInv, Calling, Waiting, Ending
<1>4. Awaits(j) => Awaits(j)'
  BY <1>u, <1>1, <1>2 DEF Awaits, Awaited, Ending
<1>. QED
  BY <1>u, <1>1, <1>2, <1>3, <1>4 DEF Moved, Pending, Executes, Calls, Calling, Waiting, Ending

LEMMA MovedScan ==
  ASSUME TypeInv, NEW j \in Job, Scan(j)
  PROVE  Moved(j)
<1>r. job[j] \in JobType /\ JobInv(j)
  BY DEF TypeInv, TypeOK
<1>u. UNCHANGED <<prog, value, action>> /\ job[j].pc = "scan"
  BY DEF Scan, ScanWaiter, ScanVariable, EndScan
<1>s. job[j].scan /\ job[j].act \in Action /\ job[j].ops \subseteq Waiter /\ job[j].out = "success"
      /\ job[j].seen \subseteq Variable
  BY <1>r, <1>u DEF JobInv, JobType
<1>1. PICK r \in JobType :
        /\ job' = [job EXCEPT ![j] = r]
        /\ \/ r.pc = "idle" /\ ~r.scan
           \/ /\ r.act = job[j].act /\ r.scan /\ r.out = "success"
              /\ \/ r.pc = "clear" /\ r.ops = {} /\ r.op \in job[j].ops
                 \/ r.pc = "scan" /\ r.ops \subseteq job[j].ops
                 \/ /\ r.pc = "scan"
                    /\ \E u \in Variable : job[j].act \in value[u] /\ r.ops = {x \in Waiter : prog.operand[x] = u}
  <2>1. ASSUME NEW w \in Waiter, ScanWaiter(j, w)
        PROVE  \E r \in JobType :
                 /\ job' = [job EXCEPT ![j] = r]
                 /\ \/ r.pc = "idle" /\ ~r.scan
                    \/ /\ r.act = job[j].act /\ r.scan /\ r.out = "success"
                       /\ \/ r.pc = "clear" /\ r.ops = {} /\ r.op \in job[j].ops
                          \/ r.pc = "scan" /\ r.ops \subseteq job[j].ops
                          \/ /\ r.pc = "scan"
                             /\ \E u \in Variable : job[j].act \in value[u] /\ r.ops = {x \in Waiter : prog.operand[x] = u}
    <3>1. CASE w \in active
      <4>. DEFINE s == [job[j] EXCEPT !.pc = "clear", !.op = w, !.ops = {}]
      <4>j. job' = [job EXCEPT ![j] = s]
        BY <2>1, <3>1 DEF ScanWaiter, Set
      <4>s. s \in JobType /\ s.pc = "clear" /\ s.op = w /\ s.ops = {} /\ s.act = job[j].act /\ s.out = job[j].out /\ s.scan = job[j].scan
        BY <1>r, WithWaiter DEF Operator
      <4>. HIDE DEF s
      <4>. QED
        BY <2>1, <4>j, <4>s, <1>s DEF ScanWaiter
    <3>2. CASE w \notin active
      <4>1. job[j].ops \ {w} \in SUBSET Operator
        BY <1>s DEF Operator
      <4>. DEFINE s == [job[j] EXCEPT !.ops = job[j].ops \ {w}]
      <4>s. job' = [job EXCEPT ![j] = s] /\ s \in JobType /\ s.pc = job[j].pc /\ s.ops = job[j].ops \ {w} /\ s.act = job[j].act /\ s.out = job[j].out /\ s.scan = job[j].scan
        BY <2>1, <3>2, <4>1, <1>r, WithOps DEF ScanWaiter, Set
      <4>. HIDE DEF s
      <4>. QED
        BY <4>s, <1>s, <1>u
    <3>. QED
      BY <3>1, <3>2
  <2>2. ASSUME NEW v \in Variable, ScanVariable(j, v)
        PROVE  \E r \in JobType :
                 /\ job' = [job EXCEPT ![j] = r]
                 /\ \/ r.pc = "idle" /\ ~r.scan
                    \/ /\ r.act = job[j].act /\ r.scan /\ r.out = "success"
                       /\ \/ r.pc = "clear" /\ r.ops = {} /\ r.op \in job[j].ops
                          \/ r.pc = "scan" /\ r.ops \subseteq job[j].ops
                          \/ /\ r.pc = "scan"
                             /\ \E u \in Variable : job[j].act \in value[u] /\ r.ops = {x \in Waiter : prog.operand[x] = u}
    <3>0. job[j].seen \cup {v} \in SUBSET Variable /\ {x \in Waiter : prog.operand[x] = v} \in SUBSET Operator
      BY <1>s DEF Operator
    <3>. DEFINE ops == {x \in Waiter : prog.operand[x] = v}
    <3>. DEFINE q == [job[j] EXCEPT !.seen = job[j].seen \cup {v}]
                s == [q EXCEPT !.ops = ops]
    <3>1. [job[j] EXCEPT !.seen = job[j].seen \cup {v}, !.ops = ops] = s
      OBVIOUS
    <3>2. job' = [job EXCEPT ![j] = s]
      BY <2>2, <3>1 DEF ScanVariable, Set
    <3>3. q \in JobType /\ q.pc = "scan" /\ q.act = job[j].act /\ q.out = job[j].out /\ q.scan = job[j].scan
      BY <3>0, <1>r, <1>u, WithSeen
    <3>. HIDE DEF q
    <3>4. s \in JobType /\ s.pc = "scan" /\ s.ops = ops /\ s.act = job[j].act /\ s.out = job[j].out /\ s.scan = job[j].scan
      BY <3>0, <3>3, WithOps
    <3>. HIDE DEF s
    <3>. QED
      BY <2>2, <3>2, <3>4, <1>s, <1>u DEF ScanVariable
  <2>3. CASE EndScan(j)
    BY <2>3, IdleTyped DEF EndScan, Set
  <2>. QED
    BY <2>1, <2>2, <2>3 DEF Scan
<1>2. /\ job' \in [Job -> JobType] /\ job'[j] = r
      /\ \A i \in Job \ {j} : job'[i] = job[i]
  BY <1>1, Replaced
<1>3. JobInv(j)'
  BY <1>s, <1>1, <1>2 DEF JobInv, Calling, Waiting, Ending, Operator
<1>4. Awaits(j) => Awaits(j)'
  BY <1>s, <1>u, <1>1, <1>2 DEF Awaits, Awaited, Ending
<1>. QED
  BY <1>u, <1>s, <1>1, <1>2, <1>3, <1>4 DEF Moved, Pending, Executes, Calls, Calling, Waiting, Ending

LEMMA MovedTyped ==
  ASSUME TypeInv, NEW j \in Job, Moved(j),
         action' \in [Action -> {"free", "initiated", "finished"}],
         value' \in [Variable -> SUBSET Action], active' \subseteq Operator
  PROVE  TypeInv'
<1>1. TypeOK'
  BY DEF TypeInv, TypeOK, Moved
<1>2. ASSUME NEW i \in Job
      PROVE  JobInv(i)'
  <2>1. CASE i = j
    BY <2>1 DEF Moved
  <2>2. CASE i # j
    <3>1. job'[i] = job[i] /\ JobInv(i)
      BY <2>2 DEF Moved, TypeInv
    <3>. QED
      BY <3>1 DEF JobInv
  <2>. QED
    BY <2>1, <2>2
<1>. QED
  BY <1>1, <1>2 DEF TypeInv

\* The two steps by which a reaction begins another one: j ends or goes on, and
\* k, idle so far, begins.
LEMMA TwoReplaced ==
  ASSUME TypeInv, NEW j \in Job, NEW k \in Job, j # k, NEW r \in JobType, NEW s \in JobType,
         job' = [job EXCEPT ![j] = r, ![k] = s]
  PROVE  /\ job' \in [Job -> JobType] /\ job'[j] = r /\ job'[k] = s
         /\ \A i \in Job \ {j, k} : job'[i] = job[i]
  BY DEF TypeInv, TypeOK

\* j ends an operator: what becomes of j and of the synchronizer k.
LEMMA FinishExecutionEffect ==
  ASSUME TypeInv, NEW j \in Job, NEW k \in Job, FinishExecution(j, k)
  PROVE  /\ UNCHANGED <<prog, action, value, active>>
         /\ j # k /\ job[j].pc = "finish" /\ job[j].op \in Operator /\ job[k].pc = "idle"
         /\ job' \in [Job -> JobType] /\ \A i \in Job \ {j, k} : job'[i] = job[i]
         /\ IF job[j].scan
            THEN /\ job'[j].pc = "scan" /\ job'[j].scan /\ job'[j].act = job[j].act
                 /\ job'[j].ops = job[j].ops /\ job'[j].out = job[j].out
            ELSE job'[j].pc = "idle" /\ ~job'[j].scan
         /\ ~job'[k].scan
         /\ \/ job'[k].pc = "idle"
            \/ /\ job'[k].pc = "sync" /\ job'[k].ops # {}
               /\ job'[k].ops \subseteq prog.next[job[j].op]
<1>r. job[j] \in JobType /\ JobInv(j) /\ prog \in ProgramType
  BY DEF TypeInv, TypeOK
<1>u. UNCHANGED <<prog, action, value, active>> /\ job[j].pc = "finish" /\ job[k].pc = "idle" /\ j # k
  BY DEF FinishExecution, NewJob, Busy
<1>o. job[j].op \in Operator
  BY <1>r, <1>u DEF JobInv, Ending
<1>. DEFINE X == IF job[j].out = "success" THEN prog.next[job[j].op] ELSE {}
            p == [job[j] EXCEPT !.pc = "scan"]
            r == IF job[j].scan THEN p ELSE Idle
            s == Synchronize(job[j].op, X)
<1>1. job' = [job EXCEPT ![j] = r, ![k] = s]
  BY DEF FinishExecution
<1>2. X \in SUBSET Operator /\ X \subseteq prog.next[job[j].op]
  BY <1>r, <1>o DEF ProgramType
<1>3. p \in JobType /\ p.pc = "scan" /\ p.act = job[j].act /\ p.scan = job[j].scan
      /\ p.ops = job[j].ops /\ p.out = job[j].out
  BY <1>r, WithPC DEF PC
<1>. HIDE DEF X, p
<1>4. /\ r \in JobType
      /\ IF job[j].scan THEN r = p ELSE r.pc = "idle" /\ ~r.scan
  BY <1>3, IdleTyped
<1>5. /\ s \in JobType /\ ~s.scan
      /\ \/ s.pc = "idle"
         \/ s.pc = "sync" /\ s.ops = X /\ X # {}
  <2>1. CASE X = {}
    BY <2>1, IdleTyped DEF Synchronize
  <2>2. CASE X # {}
    BY <2>2, <1>2, <1>o, SynchronizeTyped
  <2>. QED
    BY <2>1, <2>2
<1>. HIDE DEF r, s
<1>6. /\ job' \in [Job -> JobType] /\ job'[j] = r /\ job'[k] = s
      /\ \A i \in Job \ {j, k} : job'[i] = job[i]
  BY <1>1, <1>4, <1>5, <1>u, TwoReplaced
<1>. QED
  BY <1>u, <1>o, <1>2, <1>3, <1>4, <1>5, <1>6

\* j activates the operator o, whose interpreter is k.
LEMMA ActivateEffect ==
  ASSUME TypeInv, NEW j \in Job, NEW k \in Job, NEW o \in Operator, Activate(j, k, o)
  PROVE  /\ UNCHANGED <<prog, action, value>> /\ active' = active \cup {o}
         /\ j # k /\ job[j].pc = "sync" /\ o \in job[j].ops /\ job[k].pc = "idle"
         /\ job' \in [Job -> JobType] /\ \A i \in Job \ {j, k} : job'[i] = job[i]
         /\ ~job'[j].scan
         /\ \/ job'[j].pc = "idle"
            \/ job'[j].pc = "sync" /\ job'[j].ops = job[j].ops \ {o}
         /\ job'[k].op = o /\ ~job'[k].scan /\ job'[k].out = "success"
         /\ job'[k].pc = IF o \in Caller THEN "reset" ELSE "parse"
<1>r. job[j] \in JobType
  BY DEF TypeInv, TypeOK
<1>u. /\ UNCHANGED <<prog, action, value>> /\ active' = active \cup {o}
      /\ job[j].pc = "sync" /\ o \in job[j].ops /\ job[k].pc = "idle" /\ j # k
  BY DEF Activate, NewJob, Busy
<1>o. job[j].op \in Operator \cup {NoOperator} /\ job[j].ops \ {o} \in SUBSET Operator
  BY <1>r DEF JobType
<1>. DEFINE r == Synchronize(job[j].op, job[j].ops \ {o})
            s == Execute(o)
<1>1. job' = [job EXCEPT ![j] = r, ![k] = s]
  BY DEF Activate
<1>2. /\ r \in JobType /\ ~r.scan
      /\ \/ r.pc = "idle"
         \/ r.pc = "sync" /\ r.ops = job[j].ops \ {o}
  BY <1>o, SynchronizeTyped
<1>3. /\ s \in JobType /\ s.op = o /\ ~s.scan /\ s.out = "success"
      /\ s.pc = IF o \in Caller THEN "reset" ELSE "parse"
  BY ExecuteTyped
<1>. HIDE DEF r, s
<1>4. /\ job' \in [Job -> JobType] /\ job'[j] = r /\ job'[k] = s
      /\ \A i \in Job \ {j, k} : job'[i] = job[i]
  BY <1>1, <1>2, <1>3, <1>u, TwoReplaced
<1>. QED
  BY <1>u, <1>2, <1>3, <1>4

-----------------------------------------------------------------------------
(* Type correctness *)

LEMMA InitTyped == Init => TypeInv
<1>. SUFFICES ASSUME Init
              PROVE  TypeInv
  OBVIOUS
<1>1. prog \in ProgramType
  BY ProgramsAssumption DEF Init
<1>2. prog.start \in SUBSET Operator
  BY <1>1 DEF ProgramType
<1>. DEFINE s == Synchronize(NoOperator, prog.start)
<1>3. /\ s \in JobType /\ ~s.scan
      /\ s.pc \in {"idle", "sync"}
  BY <1>2, SynchronizeTyped
<1>4. job = [j \in Job |-> IF j = 1 THEN s ELSE Idle]
  BY DEF Init
<1>. HIDE DEF s
<1>5. job \in [Job -> JobType]
  BY <1>3, <1>4, IdleTyped
<1>6. \A j \in Job : job[j].pc \in {"idle", "sync"} /\ ~job[j].scan
  BY <1>3, <1>4, IdleTyped
<1>7. \A j \in Job : JobInv(j)
  BY <1>6 DEF JobInv, Calling, Waiting, Ending
<1>8. TypeOK
  BY <1>1, <1>5 DEF TypeOK, Init
<1>. QED
  BY <1>7, <1>8 DEF TypeInv

LEMMA FinishActionEffect ==
  ASSUME TypeInv, NEW a \in Action, NEW k \in Job, FinishAction(a, k)
  PROVE  /\ UNCHANGED <<prog, value, active>> /\ action[a] = "initiated"
         /\ action' = [action EXCEPT ![a] = "finished"]
         /\ job[k].pc = "idle"
         /\ job' \in [Job -> JobType] /\ \A i \in Job \ {k} : job'[i] = job[i]
         /\ job'[k].pc = "scan" /\ job'[k].scan /\ job'[k].act = a /\ job'[k].out = "success"
         /\ job'[k].ops = {w \in Waiter : prog.operand[w] = a}
<1>1. /\ UNCHANGED <<prog, value, active>> /\ action[a] = "initiated" /\ job[k].pc = "idle"
      /\ action' = [action EXCEPT ![a] = "finished"]
      /\ job' = [job EXCEPT ![k] = Process(a)]
  BY DEF FinishAction, NewJob, Busy, Set
<1>2. /\ job' \in [Job -> JobType] /\ job'[k] = Process(a)
      /\ \A i \in Job \ {k} : job'[i] = job[i]
  BY <1>1, ProcessTyped, Replaced
<1>. QED
  BY <1>1, <1>2, ProcessTyped

LEMMA OthersTyped ==
  ASSUME TypeInv, NEW i \in Job, job'[i] = job[i]
  PROVE  JobInv(i)'
<1>1. JobInv(i)
  BY DEF TypeInv
<1>. QED
  BY <1>1 DEF JobInv

\* Each step of a job but those that begin another job is a Moved step.
LEMMA MovedSteps ==
  ASSUME TypeInv, NEW j \in Job,
         \/ Call(j) \/ Parse(j) \/ LookAtAction(j) \/ ClearExecutionState(j) \/ Scan(j)
  PROVE  Moved(j)
<1>1. CASE Call(j)
  BY <1>1, MovedCall
<1>2. CASE Parse(j) \/ LookAtAction(j)
  BY <1>2, MovedWait
<1>3. CASE ClearExecutionState(j)
  BY <1>3, MovedClear
<1>4. CASE Scan(j)
  BY <1>4, MovedScan
<1>. QED
  BY <1>1, <1>2, <1>3, <1>4

LEMMA TypeStep == TypeInv /\ [Next]_vars => TypeInv'
<1>. SUFFICES ASSUME TypeInv, [Next]_vars
              PROVE  TypeInv'
  OBVIOUS
<1>t. TypeOK
  BY DEF TypeInv
<1>1. ASSUME NEW a \in Action, RequestFromOutside(a)
      PROVE  TypeInv'
  <2>1. TypeOK' /\ job' = job
    BY <1>1, <1>t DEF RequestFromOutside, TypeOK
  <2>. QED
    BY <2>1, OthersTyped DEF TypeInv
<1>2. ASSUME NEW a \in Action, NEW k \in Job, FinishAction(a, k)
      PROVE  TypeInv'
  <2>1. TypeOK'
    BY <1>2, <1>t, FinishActionEffect DEF TypeOK
  <2>2. JobInv(k)'
    BY <1>2, FinishActionEffect DEF JobInv, Calling, Waiting, Ending
  <2>. QED
    BY <1>2, <2>1, <2>2, FinishActionEffect, OthersTyped DEF TypeInv
<1>3. ASSUME NEW j \in Job, \/ Call(j) \/ Parse(j) \/ LookAtAction(j) \/ ClearExecutionState(j) \/ Scan(j)
      PROVE  TypeInv'
  <2>1. Moved(j)
    BY <1>3, MovedSteps
  <2>2. /\ action' \in [Action -> {"free", "initiated", "finished"}]
        /\ value' \in [Variable -> SUBSET Action]
        /\ active' \subseteq Operator
    <3>1. CASE Call(j)
      <4>1. CASE ResetOperand(j) \/ RejectCall(j)
        BY <4>1, <1>t DEF ResetOperand, RejectCall, TypeOK
      <4>2. CASE SetOperand(j)
        <5>1. job[j].act \in Action
          BY <4>2 DEF TypeInv, JobInv, SetOperand
        <5>. QED
          BY <4>2, <5>1, <1>t DEF SetOperand, TypeOK
      <4>3. ASSUME NEW a \in Action, RequestInterpretation(j, a)
            PROVE  /\ action' \in [Action -> {"free", "initiated", "finished"}]
                   /\ value' \in [Variable -> SUBSET Action]
                   /\ active' \subseteq Operator
        BY <4>3, <1>t DEF RequestInterpretation, TypeOK
      <4>. QED
        BY <3>1, <4>1, <4>2, <4>3 DEF Call
    <3>2. CASE Parse(j) \/ LookAtAction(j) \/ ClearExecutionState(j)
      BY <3>2, <1>t DEF Parse, LookAtAction, ClearExecutionState, TypeOK
    <3>3. CASE Scan(j)
      BY <3>3, <1>t DEF Scan, ScanWaiter, ScanVariable, EndScan, TypeOK
    <3>. QED
      BY <1>3, <3>1, <3>2, <3>3
  <2>. QED
    BY <2>1, <2>2, MovedTyped
<1>4. ASSUME NEW j \in Job, NEW k \in Job, FinishExecution(j, k)
      PROVE  TypeInv'
  <2>1. TypeOK'
    BY <1>4, <1>t, FinishExecutionEffect DEF TypeOK
  <2>2. JobInv(j)'
    <3>1. JobInv(j)
      BY DEF TypeInv
    <3>. QED
      BY <3>1, <1>4, FinishExecutionEffect DEF JobInv, Calling, Waiting, Ending
  <2>3. JobInv(k)'
    BY <1>4, FinishExecutionEffect DEF JobInv, Calling, Waiting, Ending
  <2>. QED
    BY <1>4, <2>1, <2>2, <2>3, FinishExecutionEffect, OthersTyped DEF TypeInv
<1>5. ASSUME NEW j \in Job, NEW k \in Job, NEW o \in Operator, Activate(j, k, o)
      PROVE  TypeInv'
  <2>1. TypeOK'
    BY <1>5, <1>t, ActivateEffect DEF TypeOK
  <2>2. JobInv(j)'
    BY <1>5, ActivateEffect DEF JobInv, Calling, Waiting, Ending
  <2>3. JobInv(k)'
    BY <1>5, ActivateEffect, NamesAssumption DEF JobInv, Calling, Waiting, Ending, Operator
  <2>. QED
    BY <1>5, <2>1, <2>2, <2>3, ActivateEffect, OthersTyped DEF TypeInv
<1>6. CASE UNCHANGED vars
  <2>1. TypeOK' /\ job' = job
    BY <1>6, <1>t DEF vars, TypeOK
  <2>. QED
    BY <2>1, OthersTyped DEF TypeInv
<1>. QED
  BY <1>1, <1>2, <1>3, <1>4, <1>5, <1>6 DEF Next, React, End

\* Whatever the program, and however many agents react at once: the state stays
\* well formed.
THEOREM TypeCorrect == Spec => []TypeOK
<1>1. TypeInv => TypeOK
  BY DEF TypeInv
<1>. QED
  BY <1>1, InitTyped, TypeStep, PTL DEF Spec

-----------------------------------------------------------------------------
(* Straight programs *)

\* What no step takes back: the program, values of variables and ends of actions.
Kept ==
  /\ prog' = prog
  /\ \A v \in Variable : value[v] \subseteq value'[v]
  /\ \A a \in Action : action[a] = "finished" => action'[a] = "finished"

LEMMA AwaitedKept ==
  ASSUME TypeInv, Kept, NEW w \in Waiter
  PROVE  Awaited(w) \subseteq Awaited(w)'
<1>1. prog.operand[w] \in Variable \cup Action /\ prog'.operand = prog.operand
  BY DEF TypeInv, TypeOK, ProgramType, Kept
<1>. QED
  BY <1>1 DEF Awaited, Kept

LEMMA OthersAwait ==
  ASSUME TypeInv, Kept, NEW i \in Job, job'[i] = job[i], Awaits(i)
  PROVE  Awaits(i)'
<1>1. JobInv(i)
  BY DEF TypeInv
<1>2. job[i].scan => action'[job[i].act] = "finished" /\ \A w \in job[i].ops : job[i].act \in Awaited(w)'
  BY <1>1, AwaitedKept DEF JobInv, Awaits, Kept
<1>3. job[i].pc = "look" => job[i].act \in Awaited(job[i].op)'
  BY <1>1, AwaitedKept DEF JobInv, Awaits, Waiting
<1>4. job[i].pc \in Ending /\ job[i].op \in Waiter /\ job[i].out = "success" =>
        job[i].act \in Awaited(job[i].op)' /\ action'[job[i].act] = "finished"
  <2>. SUFFICES ASSUME job[i].pc \in Ending, job[i].op \in Waiter, job[i].out = "success"
                PROVE  job[i].act \in Awaited(job[i].op)' /\ action'[job[i].act] = "finished"
    OBVIOUS
  <2>1. job[i].act \in Awaited(job[i].op) /\ action[job[i].act] = "finished"
    BY DEF Awaits
  <2>2. Awaited(job[i].op) \subseteq Action
    BY DEF TypeInv, TypeOK, ProgramType, Awaited
  <2>. QED
    BY <2>1, <2>2, AwaitedKept DEF Kept
<1>. QED
  BY <1>2, <1>3, <1>4 DEF Awaits, Awaited

\* Moved steps keep every part of the invariant.
LEMMA MovedStraight ==
  ASSUME TypeInv, StraightInv, Kept, NEW j \in Job, Moved(j), Single',
         \A D, F \in SUBSET Operator : Once(D, F) /\ Given(D) => Given(D)'
  PROVE  StraightInv'
<1>1. \A i \in Job : Awaits(i)'
  BY OthersAwait DEF StraightInv, Moved
<1>2. OneScan'
  BY DEF StraightInv, OneScan, Moved
<1>3. PICK D \in SUBSET Operator, F \in SUBSET Operator : Once(D, F) /\ Given(D)
  BY DEF StraightInv
<1>4. \A i \in Job, o \in Operator :
        /\ Pending(i, o)' => Pending(i, o)
        /\ Executes(i, o)' => Executes(i, o)
  BY DEF Moved, Pending, Executes
<1>5. Once(D, F)'
  <2>1. \A o \in Operator : Led(o, F)' <=> Led(o, F)
    BY DEF Led, Kept
  <2>. QED
    BY <1>3, <1>4, <2>1 DEF Once
<1>. QED
  BY <1>1, <1>2, <1>3, <1>5 DEF StraightInv

\* Where no variable changes, neither do the facts about them.
LEMMA SameValues ==
  ASSUME prog' = prog, value' = value, NEW j \in Job, Moved(j)
  PROVE  /\ Single => Single'
         /\ \A D : Given(D) => Given(D)'
<1>1. Single => Single'
  BY DEF Single
<1>2. \A i \in Job, c \in Caller : Calls(i, c)' => Calls(i, c)
  BY DEF Moved, Calls, Executes, Operator
<1>. QED
  BY <1>1, <1>2 DEF Given

LEMMA MovedStepStraight ==
  ASSUME TypeInv, Straight(prog), StraightInv, NEW j \in Job,
         \/ Call(j) \/ Parse(j) \/ LookAtAction(j) \/ ClearExecutionState(j) \/ Scan(j)
  PROVE  StraightInv'
<1>m. Moved(j)
  BY MovedSteps
<1>t. /\ prog \in ProgramType /\ JobInv(j)
      /\ action \in [Action -> {"free", "initiated", "finished"}] /\ value \in [Variable -> SUBSET Action]
  BY DEF TypeInv, TypeOK
<1>0. ASSUME UNCHANGED <<prog, value, action>>
      PROVE  StraightInv'
  <2>1. Kept
    BY <1>0 DEF Kept
  <2>. QED
    BY <1>0, <2>1, <1>m, SameValues, MovedStraight DEF StraightInv
<1>1. CASE Parse(j) \/ LookAtAction(j) \/ ClearExecutionState(j) \/ Scan(j) \/ RejectCall(j)
  BY <1>1, <1>0 DEF Parse, LookAtAction, ClearExecutionState, Scan, EndScan, ScanWaiter, ScanVariable, RejectCall
<1>2. ASSUME NEW a \in Action, RequestInterpretation(j, a)
      PROVE  StraightInv'
  <2>1. Kept /\ prog' = prog /\ value' = value
    BY <1>2, <1>t DEF Kept, RequestInterpretation
  <2>. QED
    BY <2>1, <1>m, SameValues, MovedStraight DEF StraightInv
<1>. DEFINE c == job[j].op
            v == prog.assigned[c]
<1>3. ASSUME job[j].pc \in Calling
      PROVE  c \in Caller /\ v \in Variable /\ value[v] = {} /\ Calls(j, c)
  <2>1. c \in Caller /\ ~job[j].scan
    BY <1>3, <1>t DEF JobInv
  <2>2. Calls(j, c) /\ v \in Variable
    BY <1>3, <1>t, <2>1 DEF Calls, Executes, ProgramType
  <2>3. PICK D \in SUBSET Operator, F \in SUBSET Operator : Once(D, F) /\ Given(D)
    BY DEF StraightInv
  <2>. QED
    BY <2>1, <2>2, <2>3 DEF Given
<1>4. CASE ResetOperand(j)
  <2>1. value' = value /\ prog' = prog /\ action' = action
    BY <1>3, <1>4, <1>t DEF ResetOperand, Calling
  <2>. QED
    BY <2>1, <1>0
<1>5. CASE SetOperand(j)
  <2>1. c \in Caller /\ v \in Variable /\ value[v] = {} /\ Calls(j, c)
    BY <1>3, <1>5 DEF SetOperand, Calling
  <2>2. /\ prog' = prog /\ action' = action
        /\ value' = [value EXCEPT ![v] = @ \cup {job[j].act}] /\ job[j].pc = "assign"
    BY <1>5 DEF SetOperand
  <2>3. value'[v] = {job[j].act} /\ \A x \in Variable \ {v} : value'[x] = value[x]
    BY <2>1, <2>2, <1>t
  <2>4. Kept
    BY <2>1, <2>2, <2>3 DEF Kept
  <2>5. Single'
    BY <2>3 DEF StraightInv, Single
  <2>6. job'[j].pc = "clear"
    BY <1>5, <1>t DEF SetOperand, Goto, Set, TypeInv, TypeOK, JobType
  <2>7. ASSUME NEW D \in SUBSET Operator, NEW F \in SUBSET Operator, Once(D, F), Given(D)
        PROVE  Given(D)'
    <3>. SUFFICES ASSUME NEW d \in Caller, value'[prog.assigned[d]] # {}
                  PROVE  d \in D /\ \A i \in Job : ~Calls(i, d)'
      BY <2>2 DEF Given
    <3>1. prog.assigned[d] \in Variable
      BY <1>t DEF ProgramType
    <3>2. CASE d = c
      <4>1. d \in Operator /\ Executes(j, d)
        BY <2>1, <3>2 DEF Calls, Operator
      <4>2. d \in D /\ \A i \in Job : Executes(i, d) => i = j
        BY <4>1, <2>7 DEF Once
      <4>3. ~Calls(j, d)'
        BY <2>6 DEF Calls, Calling
      <4>4. \A i \in Job \ {j} : Calls(i, d)' => Calls(i, d)
        BY <1>m DEF Moved, Calls, Executes
      <4>. QED
        BY <4>2, <4>3, <4>4 DEF Calls
    <3>3. CASE d # c
      <4>1. prog.assigned[d] # v
        BY <2>1, <3>3 DEF Straight
      <4>2. value[prog.assigned[d]] # {}
        BY <4>1, <3>1, <2>3
      <4>3. d \in D /\ \A i \in Job : ~Calls(i, d)
        BY <4>2, <2>7 DEF Given
      <4>4. \A i \in Job : Calls(i, d)' => Calls(i, d)
        BY <1>m DEF Moved, Calls, Executes, Operator
      <4>. QED
        BY <4>3, <4>4
    <3>. QED
      BY <3>2, <3>3
  <2>. QED
    BY <1>m, <2>4, <2>5, <2>7, MovedStraight
<1>. QED
  BY <1>1, <1>2, <1>4, <1>5 DEF Call

LEMMA RequestStraight ==
  ASSUME TypeInv, StraightInv, NEW a \in Action, RequestFromOutside(a)
  PROVE  StraightInv'
<1>1. UNCHANGED <<prog, value, job>> /\ Kept
  BY DEF RequestFromOutside, Kept, TypeInv, TypeOK
<1>2. \A i \in Job : Awaits(i)'
  BY <1>1, OthersAwait DEF StraightInv
<1>3. OneScan' /\ Single'
  BY <1>1 DEF StraightInv, OneScan, Single
<1>4. PICK D \in SUBSET Operator, F \in SUBSET Operator : Once(D, F) /\ Given(D)
  BY DEF StraightInv
<1>5. Once(D, F)' /\ Given(D)'
  BY <1>1, <1>4 DEF Once, Given, Pending, Executes, Calls, Led
<1>. QED
  BY <1>2, <1>3, <1>5 DEF StraightInv

LEMMA FinishActionStraight ==
  ASSUME TypeInv, StraightInv, NEW a \in Action, NEW k \in Job, FinishAction(a, k)
  PROVE  StraightInv'
<1>1. /\ UNCHANGED <<prog, value, active>> /\ action[a] = "initiated"
      /\ action' = [action EXCEPT ![a] = "finished"]
      /\ job[k].pc = "idle" /\ \A i \in Job \ {k} : job'[i] = job[i]
      /\ job'[k].pc = "scan" /\ job'[k].scan /\ job'[k].act = a
      /\ job'[k].ops = {w \in Waiter : prog.operand[w] = a}
  BY FinishActionEffect
<1>2. Kept /\ action'[a] = "finished"
  BY <1>1 DEF Kept, TypeInv, TypeOK
<1>3. Awaits(k)'
  <2>1. \A w \in Waiter : prog.operand[w] = a => a \in Awaited(w)'
    BY <1>1, NamesAssumption DEF Awaited
  <2>. QED
    BY <1>1, <1>2, <2>1 DEF Awaits, Ending
<1>4. \A i \in Job : Awaits(i)'
  BY <1>1, <1>2, <1>3, OthersAwait DEF StraightInv
<1>5. OneScan'
  <2>1. \A i \in Job : job[i].scan => job[i].act # a
    BY <1>1 DEF StraightInv, Awaits
  <2>. QED
    BY <1>1, <2>1 DEF StraightInv, OneScan
<1>6. Single'
  BY <1>1 DEF StraightInv, Single
<1>7. PICK D \in SUBSET Operator, F \in SUBSET Operator : Once(D, F) /\ Given(D)
  BY DEF StraightInv
<1>8. \A i \in Job, o \in Operator :
        /\ Pending(i, o)' => Pending(i, o)
        /\ Executes(i, o)' => Executes(i, o)
        /\ Calls(i, o)' => Calls(i, o)
  BY <1>1 DEF Pending, Executes, Calls
<1>9. Once(D, F)'
  <2>1. \A o \in Operator : Led(o, F)' <=> Led(o, F)
    BY <1>1 DEF Led
  <2>. QED
    BY <1>7, <1>8, <2>1 DEF Once
<1>10. Given(D)'
  BY <1>1, <1>7, <1>8 DEF Given, Operator
<1>. QED
  BY <1>4, <1>5, <1>6, <1>9, <1>10 DEF StraightInv

\* In a straight program an operator is led to by one other, or by the start.
LEMMA LedOnce ==
  ASSUME Straight(prog), NEW o \in Operator, NEW x \in prog.next[o], x \in Operator,
         NEW F \in SUBSET Operator, Led(x, F)
  PROVE  o \in F
<1>1. <<o, x>> \in Arcs(prog)
  BY DEF Arcs
<1>2. x \notin prog.start
  BY <1>1 DEF Straight
<1>3. PICK p \in F : x \in prog.next[p]
  BY <1>2 DEF Led
<1>4. <<p, x>> \in Arcs(prog)
  BY <1>3 DEF Arcs
<1>5. <<p, x>> = <<o, x>>
  BY <1>1, <1>4 DEF Straight
<1>. QED
  BY <1>5

LEMMA FinishExecutionStraight ==
  ASSUME TypeInv, Straight(prog), StraightInv, NEW j \in Job, NEW k \in Job, FinishExecution(j, k)
  PROVE  StraightInv'
<1>o. PICK o \in Operator : o = job[j].op
  BY FinishExecutionEffect
<1>1. /\ UNCHANGED <<prog, action, value, active>>
      /\ j # k /\ job[j].pc = "finish" /\ job[k].pc = "idle"
      /\ \A i \in Job \ {j, k} : job'[i] = job[i]
      /\ IF job[j].scan
         THEN /\ job'[j].pc = "scan" /\ job'[j].scan /\ job'[j].act = job[j].act /\ job'[j].ops = job[j].ops
         ELSE job'[j].pc = "idle" /\ ~job'[j].scan
      /\ ~job'[k].scan
      /\ \/ job'[k].pc = "idle"
         \/ /\ job'[k].pc = "sync" /\ job'[k].ops # {}
            /\ job'[k].ops \subseteq prog.next[o]
  BY <1>o, FinishExecutionEffect
<1>2. Kept /\ prog.next[o] \subseteq Operator
  BY <1>1 DEF Kept, TypeInv, TypeOK, ProgramType
<1>3. Awaits(j)' /\ Awaits(k)'
  <2>1. Awaits(k)'
    BY <1>1 DEF Awaits, Ending
  <2>2. Awaits(j)'
    <3>1. Awaits(j) /\ JobInv(j)
      BY DEF StraightInv, TypeInv
    <3>2. \A w \in Waiter : Awaited(w) \subseteq Awaited(w)'
      BY <1>2, AwaitedKept
    <3>. QED
      BY <1>1, <3>1, <3>2 DEF Awaits, JobInv, Ending
  <2>. QED
    BY <2>1, <2>2
<1>4. \A i \in Job : Awaits(i)'
  BY <1>1, <1>2, <1>3, OthersAwait DEF StraightInv
<1>5. OneScan' /\ Single'
  <2>1. \A i \in Job : job'[i].scan => job[i].scan /\ job'[i].act = job[i].act
    BY <1>1
  <2>. QED
    BY <1>1, <2>1 DEF StraightInv, OneScan, Single
<1>6. PICK D \in SUBSET Operator, F \in SUBSET Operator : Once(D, F) /\ Given(D)
  BY DEF StraightInv
<1>7. \A i \in Job, x \in Operator :
        /\ Executes(i, x)' => Executes(i, x) /\ i # j
        /\ Calls(i, x)' => Calls(i, x)
        /\ Pending(i, x)' => Pending(i, x) \/ (i = k /\ x \in prog.next[o])
  BY <1>1 DEF Executes, Calls, Pending, Calling, Waiting, Ending
<1>8. Given(D)'
  BY <1>1, <1>6, <1>7 DEF Given, Operator
<1>9. CASE job[j].scan
  <2>1. o \in Waiter /\ prog.next[o] = {}
    <3>1. o \in Waiter
      BY <1>o, <1>1, <1>9 DEF TypeInv, JobInv, Ending
    <3>2. ASSUME NEW x \in prog.next[o]
          PROVE  FALSE
      <4>1. <<o, x>> \in Arcs(prog)
        BY <1>1, <1>2, <3>2 DEF Arcs
      <4>. QED
        BY <3>1, <4>1, NamesAssumption DEF Straight
    <3>. QED
      BY <3>1, <3>2
  <2>2. \A x \in Operator : Led(x, F)' <=> Led(x, F)
    BY <1>1 DEF Led
  <2>3. Once(D, F)'
    BY <1>6, <1>7, <2>1, <2>2 DEF Once
  <2>. QED
    BY <1>4, <1>5, <1>8, <2>3 DEF StraightInv
<1>10. CASE ~job[j].scan
  <2>f. PICK F1 \in SUBSET Operator : F1 = F \cup {o}
    OBVIOUS
  <2>1. Executes(j, o) /\ o \in D \ F
    <3>1. Executes(j, o)
      BY <1>o, <1>1, <1>10 DEF Executes, Ending
    <3>. QED
      BY <1>1, <1>6, <3>1 DEF Once
  <2>2. \A x \in Operator : Led(x, F) => Led(x, F1)'
    BY <1>1, <2>f DEF Led
  <2>3. \A x \in prog.next[o] : x \in Operator /\ ~Led(x, F) /\ Led(x, F1)'
    BY <1>1, <1>2, <2>1, <2>f, LedOnce DEF Led
  <2>4. F1 \in SUBSET Operator /\ F1 \subseteq D /\ D \subseteq Operator
    BY <1>6, <2>1, <2>f DEF Once
  <2>5. \A x \in D : Led(x, F1)'
    BY <1>6, <2>2, <2>4 DEF Once
  <2>6. \A i \in Job, x \in Operator : Pending(i, x)' => x \notin D /\ Led(x, F1)'
    BY <1>6, <1>7, <2>2, <2>3 DEF Once
  <2>7. \A h, i \in Job, x \in Operator : Pending(h, x)' /\ Pending(i, x)' => h = i
    BY <1>6, <1>7, <2>3 DEF Once
  <2>8. \A i \in Job, x \in Operator : Executes(i, x)' => x \in D \ F1
    BY <1>6, <1>7, <2>1, <2>f, <1>o, <1>1 DEF Once
  <2>9. \A h, i \in Job, x \in Operator : Executes(h, x)' /\ Executes(i, x)' => h = i
    BY <1>6, <1>7 DEF Once
  <2>10. Once(D, F1)'
    BY <2>4, <2>5, <2>6, <2>7, <2>8, <2>9 DEF Once
  <2>. QED
    BY <1>4, <1>5, <1>8, <2>4, <2>10 DEF StraightInv
<1>. QED
  BY <1>9, <1>10

LEMMA ActivateStraight ==
  ASSUME TypeInv, StraightInv, NEW j \in Job, NEW k \in Job, NEW o \in Operator, Activate(j, k, o)
  PROVE  StraightInv'
<1>1. /\ UNCHANGED <<prog, action, value>>
      /\ j # k /\ Pending(j, o) /\ job[k].pc = "idle"
      /\ \A i \in Job \ {j, k} : job'[i] = job[i]
      /\ ~job'[j].scan
      /\ \/ job'[j].pc = "idle"
         \/ job'[j].pc = "sync" /\ job'[j].ops = job[j].ops \ {o}
      /\ job'[k].op = o /\ ~job'[k].scan /\ job'[k].pc \in {"reset", "parse"}
  BY ActivateEffect DEF Pending
<1>2. Kept
  BY <1>1 DEF Kept
<1>3. Awaits(j)' /\ Awaits(k)'
  BY <1>1 DEF Awaits, Ending
<1>4. \A i \in Job : Awaits(i)'
  BY <1>1, <1>2, <1>3, OthersAwait DEF StraightInv
<1>5. OneScan' /\ Single'
  <2>1. \A i \in Job : job'[i].scan => job[i].scan /\ job'[i].act = job[i].act
    BY <1>1
  <2>. QED
    BY <1>1, <2>1 DEF StraightInv, OneScan, Single
<1>6. PICK D \in SUBSET Operator, F \in SUBSET Operator : Once(D, F) /\ Given(D)
  BY DEF StraightInv
<1>7. \A i \in Job, x \in Operator :
        /\ Executes(i, x)' => Executes(i, x) \/ (i = k /\ x = o)
        /\ Calls(i, x)' => Calls(i, x) \/ (i = k /\ x = o)
        /\ Pending(i, x)' => Pending(i, x) /\ (i = j => x # o)
  BY <1>1 DEF Executes, Calls, Pending, Calling, Waiting, Ending
<1>8. o \notin D /\ Led(o, F) /\ \A i \in Job : Pending(i, o) => i = j
  BY <1>1, <1>6 DEF Once
<1>f. PICK D1 \in SUBSET Operator : D1 = D \cup {o}
  OBVIOUS
<1>9. Given(D1)'
  BY <1>1, <1>6, <1>7, <1>8, <1>f DEF Given, Operator
<1>10. Once(D1, F)'
  <2>1. \A x \in Operator : Led(x, F)' <=> Led(x, F)
    BY <1>1 DEF Led
  <2>2. F \subseteq D1 /\ D1 \subseteq Operator
    BY <1>6, <1>f DEF Once
  <2>3. \A x \in D1 : Led(x, F)'
    BY <1>6, <1>8, <1>f, <2>1 DEF Once
  <2>4. \A i \in Job, x \in Operator : Pending(i, x)' => x \notin D1 /\ Led(x, F)'
    BY <1>6, <1>7, <1>8, <1>f, <2>1 DEF Once
  <2>5. \A h, i \in Job, x \in Operator : Pending(h, x)' /\ Pending(i, x)' => h = i
    BY <1>6, <1>7 DEF Once
  <2>6. \A i \in Job, x \in Operator : Executes(i, x)' => x \in D1 \ F
    BY <1>6, <1>7, <1>8, <1>f DEF Once
  <2>7. \A h, i \in Job, x \in Operator : Executes(h, x)' /\ Executes(i, x)' => h = i
    BY <1>6, <1>7, <1>8 DEF Once
  <2>. QED
    BY <2>2, <2>3, <2>4, <2>5, <2>6, <2>7 DEF Once
<1>. QED
  BY <1>4, <1>5, <1>9, <1>10 DEF StraightInv

LEMMA StraightStep == IInv /\ [Next]_vars => IInv'
<1>. SUFFICES ASSUME IInv, [Next]_vars
              PROVE  IInv'
  OBVIOUS
<1>1. TypeInv /\ TypeInv' /\ (Straight(prog) => StraightInv)
  BY TypeStep DEF IInv
<1>2. prog' = prog
  BY DEF Next, vars, RequestFromOutside, FinishAction, React, Call, End, Scan, ResetOperand,
         RequestInterpretation, RejectCall, SetOperand, Parse, LookAtAction, ClearExecutionState,
         FinishExecution, Activate, ScanWaiter, ScanVariable, EndScan
<1>. SUFFICES ASSUME Straight(prog)
              PROVE  StraightInv'
  BY <1>1, <1>2 DEF IInv
<1>3. StraightInv
  BY <1>1
<1>4. CASE UNCHANGED vars
  <2>1. UNCHANGED <<prog, action, value, job>>
    BY <1>4 DEF vars
  <2>2. (\A j \in Job : Awaits(j)') /\ OneScan' /\ Single'
    BY <1>3, <2>1 DEF StraightInv, Awaits, Awaited, OneScan, Single
  <2>3. PICK D \in SUBSET Operator, F \in SUBSET Operator : Once(D, F) /\ Given(D)
    BY <1>3 DEF StraightInv
  <2>4. Once(D, F)' /\ Given(D)'
    BY <2>1, <2>3 DEF Once, Given, Pending, Executes, Calls, Led
  <2>. QED
    BY <2>2, <2>4 DEF StraightInv
<1>. QED
  BY <1>1, <1>3, <1>4, RequestStraight, FinishActionStraight, MovedStepStraight,
     FinishExecutionStraight, ActivateStraight DEF Next, React, End

LEMMA InitStraight == Init => IInv
<1>. SUFFICES ASSUME Init
              PROVE  IInv
  OBVIOUS
<1>1. TypeInv
  BY InitTyped
<1>2. prog.start \in SUBSET Operator
  BY <1>1 DEF TypeInv, TypeOK, ProgramType
<1>. DEFINE s == Synchronize(NoOperator, prog.start)
<1>3. /\ ~s.scan
      /\ s.pc = "idle" \/ (s.pc = "sync" /\ s.ops = prog.start)
  BY <1>2, SynchronizeTyped
<1>4. job = [j \in Job |-> IF j = 1 THEN s ELSE Idle]
  BY DEF Init
<1>. HIDE DEF s
<1>5. \A j \in Job : /\ ~job[j].scan
                     /\ job[j].pc = "idle" \/ (j = 1 /\ job[j].pc = "sync" /\ job[j].ops = prog.start)
  BY <1>3, <1>4, IdleTyped
<1>6. (\A j \in Job : Awaits(j)) /\ OneScan
  BY <1>5 DEF Awaits, OneScan, Ending
<1>7. (\A v \in Variable : value[v] = {}) /\ Single
  BY DEF Init, Single
<1>8. Once({}, {})
  BY <1>5 DEF Once, Pending, Executes, Led, Calling, Waiting, Ending
<1>9. Given({})
  BY <1>1, <1>7 DEF Given, TypeInv, TypeOK, ProgramType
<1>10. StraightInv
  BY <1>6, <1>7, <1>8, <1>9 DEF StraightInv
<1>. QED
  BY <1>1, <1>10 DEF IInv

LEMMA Invariant == Spec => []IInv
  BY InitStraight, StraightStep, PTL DEF Spec

\* In a straight program a waitReturn succeeds only after its own action has
\* finished, whichever of the two agents ends it.
THEOREM ReturnsAfterAction == Spec => []ReturnAfterAction
<1>1. IInv => ReturnAfterAction
  BY DEF IInv, StraightInv, Awaits, ReturnAfterAction, Returning, Ending
<1>. QED
  BY <1>1, Invariant, PTL

\* In a straight program no three agents end one waitReturn: its interpreter may,
\* and the one reaction to the end of its action.
THEOREM EndedByTwo == Spec => []EndedByTwoAtMost
<1>1. ASSUME IInv, Straight(prog), NEW w \in Waiter, NEW i \in Job, NEW j \in Job,
             Returning(i, w), Returning(j, w), job[i].scan, job[j].scan
      PROVE  i = j
  <2>1. TypeInv /\ StraightInv
    BY <1>1 DEF IInv
  <2>2. job[i].act \in Awaited(w) /\ job[j].act \in Awaited(w)
    BY <1>1, <2>1 DEF StraightInv, Awaits, TypeInv, JobInv, Returning, Ending
  <2>3. job[i].act = job[j].act
    BY <2>1, <2>2 DEF StraightInv, Single, Awaited
  <2>. QED
    BY <1>1, <2>1, <2>3 DEF StraightInv, OneScan
<1>2. ASSUME IInv, Straight(prog), NEW w \in Waiter, NEW i \in Job, NEW j \in Job,
             Returning(i, w), Returning(j, w), ~job[i].scan, ~job[j].scan
      PROVE  i = j
  <2>1. Executes(i, w) /\ Executes(j, w) /\ w \in Operator
    BY <1>2 DEF Executes, Returning, Ending, Operator
  <2>. QED
    BY <1>2, <2>1 DEF IInv, StraightInv, Once
<1>3. IInv => EndedByTwoAtMost
  <2>1. IInv => \A j \in Job : job[j].scan \in BOOLEAN
    BY DEF IInv, TypeInv, TypeOK, JobType
  <2>. QED
    BY <1>1, <1>2, <2>1 DEF EndedByTwoAtMost
<1>. QED
  BY <1>3, Invariant, PTL
=============================================================================
