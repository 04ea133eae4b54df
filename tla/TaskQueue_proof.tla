---------------------------- MODULE TaskQueue_proof ----------------------------
(***************************************************************************)
(* For every number of threads and tasks and every combination of flags:   *)
(* _tasksCounter counts the work that is left, no worker outlives its      *)
(* context, each task goes the way TaskQueueSpec promises, and no report   *)
(* is left behind.                                                         *)
(***************************************************************************)
EXTENDS TaskQueue, PriorityList_proof

\* A call carries what its step needs.
CallsCarry ==
    \A th \in Threads :
        /\ call[th].at = "push" => call[th].item \in Task
        /\ call[th].at = "post" => call[th].item \in Task \cup Func

\* A busy worker has a task in its hands.
BusyHold == \A w \in Workers : pc[w] \in BusyLabel => held[w] \in Task

\* Cancelling has joined the workers before it updates for the last time.
AllJoined ==
    pc[Main] = "delete" \/ (pc[Main] = "update" /\ after = "delete") =>
        \A w \in Workers : pc[w] = "done"

\* The destructor runs without a context.
DeadAlone == pc[Main] = "dead" => ~context

\* The inductive invariant.
IInv == /\ TypeOK
        /\ CallsCarry
        /\ BusyHold
        /\ WorkersHaveContext
        /\ AllJoined
        /\ DeadAlone
        /\ CounterExact

-------------------------------------------------------------------------------
\* Steps.

\* There are finitely many threads of each kind.
LEMMA Finite ==
    /\ IsFiniteSet(Submitting) /\ Cardinality(Submitting) \in Nat
    /\ IsFiniteSet(Busy) /\ Cardinality(Busy) \in Nat
<1>1. Submitting \subseteq Threads /\ Busy \subseteq Threads
  BY DEF Submitting, Busy, Threads
<1> QED BY <1>1, FS_Subset, FS_CardinalityType, TQAssumption

\* A step that moves no work leaves the count as exact as it was.
LEMMA CounterFrame ==
    ASSUME CounterExact, UNCHANGED <<input, counter>>,
           Submitting' = Submitting, Busy' = Busy,
           pc[Main] = "dead" => pc'[Main] = "dead"
    PROVE  CounterExact'
BY DEF CounterExact

\* A thread's label is all that Goto changes.
LEMMA GotoMoves ==
    ASSUME TypeOK, NEW th \in Workers \cup {Main}, NEW label, Goto(th, label)
    PROVE  /\ DOMAIN pc' = Workers \cup {Main}
           /\ \A x \in Workers \cup {Main} : pc'[x] = IF x = th THEN label ELSE pc[x]
           /\ Busy' = IF th # Main /\ label \in BusyLabel THEN Busy \cup {th}
                                                          ELSE Busy \ {th}
<1>1. /\ DOMAIN pc' = Workers \cup {Main}
      /\ \A x \in Workers \cup {Main} : pc'[x] = IF x = th THEN label ELSE pc[x]
  BY DEF TypeOK, Goto
<1>2. Main \notin Workers
  BY TQAssumption
<1> QED BY <1>1, <1>2 DEF Busy

\* A notification changes no worker but those that wait.
LEMMA WokenMoves ==
    ASSUME TypeOK, NEW W \in SUBSET Waiting, pc' = Woken(W)
    PROVE  /\ pc' \in [Workers \cup {Main} -> WorkerLabel \cup MainLabel]
           /\ \A x \in Workers \cup {Main} :
                pc'[x] = pc[x] \/ (x \in Workers /\ pc[x] = "waiting" /\ pc'[x] = "awake")
           /\ pc'[Main] = pc[Main]
           /\ Busy' = Busy
<1>1. DOMAIN pc = Workers \cup {Main}
  BY DEF TypeOK
<1>2. \A x \in Workers \cup {Main} :
        pc'[x] = pc[x] \/ (x \in Workers /\ pc[x] = "waiting" /\ pc'[x] = "awake")
  BY <1>1 DEF Woken, Waiting
<1>3. pc' \in [Workers \cup {Main} -> WorkerLabel \cup MainLabel]
  BY <1>1 DEF Woken, TypeOK, WorkerLabel
<1>4. pc'[Main] = pc[Main]
  BY <1>2, TQAssumption
<1>5. Busy' = Busy
  BY <1>2 DEF Busy, BusyLabel
<1> QED BY <1>2, <1>3, <1>4, <1>5

\* So does notifyWait, which only Main can wait for.
LEMMA NotifyWaitMoves ==
    ASSUME TypeOK, NotifyWait
    PROVE  /\ pc' \in [Workers \cup {Main} -> WorkerLabel \cup MainLabel]
           /\ \A w \in Workers : pc'[w] = pc[w]
           /\ pc'[Main] = pc[Main] \/ (pc[Main] = "waiting" /\ pc'[Main] = "notified")
           /\ Busy' = Busy
<1>1. Main \notin Workers
  BY TQAssumption
<1>2. /\ pc' \in [Workers \cup {Main} -> WorkerLabel \cup MainLabel]
      /\ \A w \in Workers : pc'[w] = pc[w]
      /\ pc'[Main] = pc[Main] \/ (pc[Main] = "waiting" /\ pc'[Main] = "notified")
  BY <1>1 DEF TypeOK, NotifyWait, MainLabel
<1> QED BY <1>2 DEF Busy

\* What joins an output queue is of its kind.
LEMMA EmitType ==
    ASSUME TypeOK, NEW x \in Task \cup Func, Emit(x)
    PROVE  /\ output' \in Seq(Task) /\ callbacks' \in Seq(Func)
           /\ outputCounter' \in Nat
           /\ stage' \in [Task \cup Func -> Stage]
<1>1. stage' \in [Task \cup Func -> Stage]
  BY DEF TypeOK, Emit, Stage
<1>2. outputCounter' \in Nat
  BY DEF TypeOK, Emit
<1>3. output \in Seq(Task) /\ callbacks \in Seq(Func)
  BY DEF TypeOK
<1>4. x \in Task => output' \in Seq(Task) /\ callbacks' \in Seq(Func)
  BY <1>3, AppendProperties DEF Emit
<1>5. x \notin Task => output' \in Seq(Task) /\ callbacks' \in Seq(Func)
  BY <1>3, AppendProperties DEF Emit
<1> QED BY <1>1, <1>2, <1>4, <1>5

-------------------------------------------------------------------------------
LEMMA InitInv == Init => IInv
<1> SUFFICES ASSUME Init PROVE IInv
  OBVIOUS
<1> USE DEF Init
<1>1. Main \notin Workers /\ Main \in Threads
  BY TQAssumption DEF Threads
<1>2. TypeOK
  <2>1. pc \in [Workers \cup {Main} -> WorkerLabel \cup MainLabel]
    BY DEF WorkerLabel, MainLabel
  <2>2. call \in [Threads -> Call]
    BY DEF NoCall, Call
  <2>3. stage \in [Task \cup Func -> Stage]
    BY DEF Stage
  <2>4. /\ input \in Seq(InputEntry) /\ output \in Seq(Task)
        /\ callbacks \in Seq(Func) /\ stack \in Seq(Task \cup Func)
    BY EmptySeq
  <2> QED BY <2>1, <2>2, <2>3, <2>4 DEF TypeOK
<1>3. \A th \in Threads : call[th].at = "none"
  BY DEF NoCall
<1>4. \A w \in Workers : pc[w] = "none"
  BY <1>1
<1>5. CallsCarry
  BY <1>3 DEF CallsCarry
<1>6. BusyHold /\ WorkersHaveContext
  BY <1>4 DEF BusyHold, BusyLabel, WorkersHaveContext
<1>7. AllJoined /\ DeadAlone
  BY <1>1 DEF AllJoined, DeadAlone
<1>8. CounterExact
  <2>1. Submitting = {} /\ Busy = {}
    BY <1>3, <1>4 DEF Submitting, Busy, BusyLabel
  <2>2. Cardinality({}) = 0
    BY FS_EmptySet
  <2> QED BY <2>1, <2>2 DEF CounterExact
<1> QED BY <1>2, <1>5, <1>6, <1>7, <1>8 DEF IInv

-------------------------------------------------------------------------------
\* perform and onMainThread keep the invariant.
LEMMA CallsKeepInv ==
    ASSUME IInv, NEW th \in Threads, Calls(th) \/ Caller(th)
    PROVE  IInv'
<1> USE DEF inputVars, outputVars, contextVars, workerVars, mainVars
<1>0. /\ TypeOK /\ CallsCarry /\ BusyHold /\ WorkersHaveContext /\ AllJoined
      /\ DeadAlone /\ CounterExact
      /\ pc \in [Workers \cup {Main} -> WorkerLabel \cup MainLabel]
      /\ call \in [Threads -> Call]
      /\ stage \in [Task \cup Func -> Stage]
      /\ counter \in Nat /\ Len(input) \in Nat
  BY LenProperties DEF IInv, TypeOK
<1>1. ASSUME NEW t \in Task, Perform(th, t), t \in Refusing
      PROVE  IInv'
  <2>1. /\ call' = [call EXCEPT ![th] = [at |-> "post", item |-> t]]
        /\ stage' = [stage EXCEPT ![t] = "refused"]
        /\ counter' = counter
        /\ UNCHANGED <<input, outputVars, contextVars, pc, workerVars, mainVars>>
    BY <1>1 DEF Perform
  <2>2. call' \in [Threads -> Call] /\ stage' \in [Task \cup Func -> Stage]
    BY <1>0, <2>1 DEF Call, Stage
  <2>3. TypeOK'
    BY <1>0, <2>1, <2>2 DEF TypeOK
  <2>4. CallsCarry'
    BY <1>0, <2>1 DEF CallsCarry
  <2>5. Submitting' = Submitting
    <3>1. call[th] = NoCall
      BY <1>1 DEF Perform, MayCall
    <3> QED BY <1>0, <2>1, <3>1 DEF Submitting, NoCall
  <2>6. CounterExact'
    BY <1>0, <2>1, <2>5, CounterFrame DEF Busy
  <2> QED BY <1>0, <2>1, <2>3, <2>4, <2>6
          DEF IInv, BusyHold, WorkersHaveContext, AllJoined, DeadAlone
<1>2. ASSUME NEW t \in Task, Perform(th, t), t \notin Refusing
      PROVE  IInv'
  <2>1. /\ call' = [call EXCEPT ![th] = [at |-> "push", item |-> t]]
        /\ stage' = [stage EXCEPT ![t] = "counted"]
        /\ counter' = counter + 1
        /\ UNCHANGED <<input, outputVars, contextVars, pc, workerVars, mainVars>>
    BY <1>2 DEF Perform
  <2>2. call' \in [Threads -> Call] /\ stage' \in [Task \cup Func -> Stage]
    BY <1>0, <2>1 DEF Call, Stage
  <2>3. TypeOK'
    BY <1>0, <2>1, <2>2 DEF TypeOK
  <2>4. CallsCarry'
    BY <1>0, <2>1 DEF CallsCarry
  <2>5. Cardinality(Submitting') = Cardinality(Submitting) + 1
    <3>1. th \notin Submitting
      BY <1>2 DEF Perform, MayCall, Submitting, NoCall
    <3>2. Submitting' = Submitting \cup {th}
      BY <1>0, <2>1 DEF Submitting
    <3> QED BY <3>1, <3>2, Finite, AddOne
  <2>6. CounterExact'
    BY <1>0, <2>1, <2>5, Finite DEF CounterExact, Busy
  <2> QED BY <1>0, <2>1, <2>3, <2>4, <2>6
          DEF IInv, BusyHold, WorkersHaveContext, AllJoined, DeadAlone
<1>3. ASSUME NEW f \in Func, OnMainThread(th, f)
      PROVE  IInv'
  <2>1. /\ call' = [call EXCEPT ![th] = [at |-> "post", item |-> f]]
        /\ stage' = [stage EXCEPT ![f] = "refused"]
        /\ UNCHANGED <<inputVars, outputVars, contextVars, pc, workerVars, mainVars>>
    BY <1>3 DEF OnMainThread
  <2>2. call' \in [Threads -> Call] /\ stage' \in [Task \cup Func -> Stage]
    BY <1>0, <2>1 DEF Call, Stage
  <2>3. TypeOK'
    BY <1>0, <2>1, <2>2 DEF TypeOK
  <2>4. CallsCarry'
    BY <1>0, <2>1 DEF CallsCarry
  <2>5. Submitting' = Submitting
    <3>1. call[th] = NoCall
      BY <1>3 DEF OnMainThread, MayCall
    <3> QED BY <1>0, <2>1, <3>1 DEF Submitting, NoCall
  <2>6. CounterExact'
    BY <1>0, <2>1, <2>5, CounterFrame DEF Busy
  <2> QED BY <1>0, <2>1, <2>3, <2>4, <2>6
          DEF IInv, BusyHold, WorkersHaveContext, AllJoined, DeadAlone
<1>4. ASSUME NEW first \in BOOLEAN, Push(th, first)
      PROVE  IInv'
  <2> DEFINE t == call[th].item
  <2>1. /\ call[th].at = "push"
        /\ call' = [call EXCEPT ![th] = [at |-> "notify", item |-> t]]
        /\ stage' = [stage EXCEPT ![t] = "queued"]
        /\ UNCHANGED <<counter, outputVars, contextVars, pc, workerVars, mainVars>>
    BY <1>4 DEF Push
  <2>2. t \in Task
    BY <1>0, <2>1 DEF CallsCarry
  <2>3. PICK k \in 1..Len(input) + 1 :
          input' = InsertedAt(input, k, [prio |-> Prio[t], task |-> t])
    BY <1>4 DEF Push
  <2>4. [prio |-> Prio[t], task |-> t] \in InputEntry
    BY <2>2, TQAssumption DEF InputEntry
  <2>5. input' \in Seq(InputEntry) /\ Len(input') = Len(input) + 1
    <3>1. input \in Seq(InputEntry)
      BY <1>0 DEF TypeOK
    <3> QED BY <2>3, <2>4, <3>1, InsertedAtType
  <2>6. call' \in [Threads -> Call]
    BY <1>0, <2>1, <2>2 DEF Call
  <2>7. stage' \in [Task \cup Func -> Stage]
    BY <1>0, <2>1, <2>2 DEF Stage
  <2>8. TypeOK'
    BY <1>0, <2>1, <2>5, <2>6, <2>7 DEF TypeOK
  <2>9. CallsCarry'
    BY <1>0, <2>1 DEF CallsCarry
  <2>10. Cardinality(Submitting') = Cardinality(Submitting) - 1
    <3>1. th \in Submitting
      BY <2>1 DEF Submitting
    <3>2. Submitting' = Submitting \ {th}
      BY <1>0, <2>1 DEF Submitting
    <3> QED BY <3>1, <3>2, Finite, RemoveOne
  <2>11. CounterExact'
    BY <1>0, <2>1, <2>5, <2>10, Finite DEF CounterExact, Busy
  <2> QED BY <1>0, <2>1, <2>8, <2>9, <2>11
          DEF IInv, BusyHold, WorkersHaveContext, AllJoined, DeadAlone
<1>5. CASE Notify(th)
  <2>1. /\ call[th].at = "notify"
        /\ call' = [call EXCEPT ![th] = NoCall]
        /\ UNCHANGED <<inputVars, outputVars, contextVars, workerVars, mainVars, stage>>
        /\ NotifyOne \/ UNCHANGED pc
    BY <1>5 DEF Notify
  <2>2. /\ pc' \in [Workers \cup {Main} -> WorkerLabel \cup MainLabel]
        /\ \A x \in Workers \cup {Main} :
             pc'[x] = pc[x] \/ (x \in Workers /\ pc[x] = "waiting" /\ pc'[x] = "awake")
        /\ pc'[Main] = pc[Main]
        /\ Busy' = Busy
    <3>1. CASE UNCHANGED pc
      BY <1>0, <3>1 DEF Busy
    <3>2. ASSUME NEW w \in Waiting, pc' = Woken({w})
          PROVE  /\ pc' \in [Workers \cup {Main} -> WorkerLabel \cup MainLabel]
                 /\ \A x \in Workers \cup {Main} : pc'[x] = pc[x]
                      \/ (x \in Workers /\ pc[x] = "waiting" /\ pc'[x] = "awake")
                 /\ pc'[Main] = pc[Main]
                 /\ Busy' = Busy
      BY <1>0, <3>2, WokenMoves
    <3> QED BY <2>1, <3>1, <3>2 DEF NotifyOne
  <2>3. call' \in [Threads -> Call]
    BY <1>0, <2>1 DEF Call, NoCall
  <2>4. TypeOK'
    BY <1>0, <2>1, <2>2, <2>3 DEF TypeOK
  <2>5. CallsCarry'
    BY <1>0, <2>1 DEF CallsCarry, NoCall
  <2>6. Submitting' = Submitting
    BY <1>0, <2>1 DEF Submitting, NoCall
  <2>7. CounterExact'
    BY <1>0, <2>1, <2>2, <2>6, CounterFrame
  <2>8. BusyHold' /\ WorkersHaveContext' /\ AllJoined' /\ DeadAlone'
    BY <1>0, <2>1, <2>2
       DEF BusyHold, BusyLabel, WorkersHaveContext, AllJoined, DeadAlone
  <2> QED BY <2>4, <2>5, <2>7, <2>8 DEF IInv
<1>6. CASE Post(th)
  <2> DEFINE x == call[th].item
  <2>1. /\ call[th].at = "post"
        /\ Emit(x)
        /\ call' = [call EXCEPT ![th] = [at |-> "signal", item |-> x]]
        /\ UNCHANGED <<inputVars, contextVars, pc, workerVars, mainVars>>
    BY <1>6 DEF Post
  <2>2. x \in Task \cup Func
    BY <1>0, <2>1 DEF CallsCarry
  <2>3. /\ output' \in Seq(Task) /\ callbacks' \in Seq(Func)
        /\ outputCounter' \in Nat
        /\ stage' \in [Task \cup Func -> Stage]
    BY <1>0, <2>1, <2>2, EmitType
  <2>5. call' \in [Threads -> Call]
    BY <1>0, <2>1, <2>2 DEF Call
  <2>6. TypeOK'
    BY <1>0, <2>1, <2>3, <2>5 DEF TypeOK
  <2>7. CallsCarry'
    BY <1>0, <2>1 DEF CallsCarry
  <2>8. Submitting' = Submitting
    BY <1>0, <2>1 DEF Submitting
  <2>9. CounterExact'
    BY <1>0, <2>1, <2>8, CounterFrame DEF Busy
  <2> QED BY <1>0, <2>1, <2>6, <2>7, <2>9
          DEF IInv, BusyHold, WorkersHaveContext, AllJoined, DeadAlone
<1>7. CASE Signal(th)
  <2>1. /\ call[th].at = "signal" /\ NotifyWait /\ woken' = TRUE
        /\ call' = [call EXCEPT ![th] = NoCall]
        /\ UNCHANGED <<inputVars, outputVars, contextVars, workerVars, stack, after,
                       stage>>
    BY <1>7 DEF Signal
  <2>2. /\ pc' \in [Workers \cup {Main} -> WorkerLabel \cup MainLabel]
        /\ \A w \in Workers : pc'[w] = pc[w]
        /\ pc'[Main] = pc[Main] \/ (pc[Main] = "waiting" /\ pc'[Main] = "notified")
        /\ Busy' = Busy
    BY <1>0, <2>1, NotifyWaitMoves
  <2>3. call' \in [Threads -> Call]
    BY <1>0, <2>1 DEF Call, NoCall
  <2>4. TypeOK'
    <3>1. woken' \in BOOLEAN
      BY <2>1
    <3> QED BY <1>0, <2>1, <2>2, <2>3, <3>1 DEF TypeOK
  <2>5. CallsCarry'
    BY <1>0, <2>1 DEF CallsCarry, NoCall
  <2>6. Submitting' = Submitting
    BY <1>0, <2>1 DEF Submitting, NoCall
  <2>7. CounterExact'
    BY <1>0, <2>1, <2>2, <2>6, CounterFrame
  <2>8. BusyHold' /\ WorkersHaveContext' /\ AllJoined' /\ DeadAlone'
    BY <1>0, <2>1, <2>2 DEF BusyHold, WorkersHaveContext, AllJoined, DeadAlone
  <2> QED BY <2>4, <2>5, <2>7, <2>8 DEF IInv
<1> QED BY <1>1, <1>2, <1>3, <1>4, <1>5, <1>6, <1>7 DEF Calls, Caller

-------------------------------------------------------------------------------
\* What a worker's step from one label to another leaves as it was.
LEMMA WorkerMoves ==
    ASSUME IInv, NEW w \in Workers, NEW label \in WorkerLabel \ {"none"},
           pc[w] \notin {"none", "done"}, Goto(w, label),
           UNCHANGED <<context, after, call>>,
           held' = held \/ (label \notin BusyLabel /\ held' = [held EXCEPT ![w] = NULL])
                        \/ \E t \in Task : held' = [held EXCEPT ![w] = t],
           label \in BusyLabel => pc[w] \in BusyLabel \/ held'[w] \in Task
    PROVE  /\ pc' \in [Workers \cup {Main} -> WorkerLabel \cup MainLabel]
           /\ pc'[Main] = pc[Main]
           /\ held' \in [Workers -> Task \cup {NULL}]
           /\ Submitting' = Submitting
           /\ CallsCarry' /\ BusyHold' /\ WorkersHaveContext' /\ AllJoined' /\ DeadAlone'
<1>0. /\ TypeOK /\ CallsCarry /\ BusyHold /\ WorkersHaveContext /\ AllJoined
      /\ DeadAlone
      /\ pc \in [Workers \cup {Main} -> WorkerLabel \cup MainLabel]
      /\ held \in [Workers -> Task \cup {NULL}]
      /\ Main \notin Workers
  BY TQAssumption DEF IInv, TypeOK
<1>1. /\ pc' \in [Workers \cup {Main} -> WorkerLabel \cup MainLabel]
      /\ \A x \in Workers \cup {Main} : pc'[x] = IF x = w THEN label ELSE pc[x]
      /\ pc'[Main] = pc[Main]
  BY <1>0 DEF Goto
<1>2. /\ held' \in [Workers -> Task \cup {NULL}]
      /\ \A v \in Workers \ {w} : held'[v] = held[v]
  BY <1>0
<1>3. label \in BusyLabel => held'[w] \in Task
  BY <1>0 DEF BusyHold
<1>4. BusyHold'
  BY <1>0, <1>1, <1>2, <1>3 DEF BusyHold
<1>5. Submitting' = Submitting /\ CallsCarry'
  BY <1>0 DEF Submitting, CallsCarry
<1>6. WorkersHaveContext' /\ AllJoined' /\ DeadAlone'
  BY <1>0, <1>1 DEF WorkersHaveContext, AllJoined, DeadAlone
<1> QED BY <1>1, <1>2, <1>4, <1>5, <1>6

\* A worker's step keeps the invariant.
LEMMA WorkerKeepsInv ==
    ASSUME IInv, NEW w \in Workers, Worker(w) \/ Spurious(w)
    PROVE  IInv'
<1> USE DEF inputVars, outputVars, contextVars, workerVars, mainVars
<1>0. /\ TypeOK /\ BusyHold /\ CounterExact
      /\ pc \in [Workers \cup {Main} -> WorkerLabel \cup MainLabel]
      /\ held \in [Workers -> Task \cup {NULL}]
      /\ stage \in [Task \cup Func -> Stage]
      /\ shouldQuit \in [Workers -> BOOLEAN]
      /\ input \in Seq(InputEntry) /\ Len(input) \in Nat /\ counter \in Nat
      /\ Main \notin Workers
  BY TQAssumption, LenProperties DEF IInv, TypeOK
<1>1. ASSUME NEW label \in WorkerLabel \ {"none"}, Goto(w, label),
             pc[w] \notin {"none", "done"},
             pc[w] \in BusyLabel <=> label \in BusyLabel,
             UNCHANGED <<inputVars, outputVars, contextVars, held, refs, call, stack,
                         after>>,
             shouldQuit' \in [Workers -> BOOLEAN],
             woken' \in BOOLEAN,
             stage' \in [Task \cup Func -> Stage]
      PROVE  IInv'
  <2>1. /\ pc' \in [Workers \cup {Main} -> WorkerLabel \cup MainLabel]
        /\ pc'[Main] = pc[Main]
        /\ Submitting' = Submitting
        /\ CallsCarry' /\ BusyHold' /\ WorkersHaveContext' /\ AllJoined' /\ DeadAlone'
    BY <1>1, WorkerMoves
  <2>2. TypeOK'
    BY <1>0, <1>1, <2>1 DEF TypeOK
  <2>3. Busy' = Busy
    BY <1>0, <1>1, GotoMoves DEF Busy
  <2>4. CounterExact'
    BY <1>0, <1>1, <2>1, <2>3, CounterFrame
  <2> QED BY <2>1, <2>2, <2>4 DEF IInv
<1>2. CASE ThreadInit(w)
  <2>1. shouldQuit' \in [Workers -> BOOLEAN]
    BY <1>0, <1>2 DEF ThreadInit
  <2> QED BY <1>0, <1>1, <1>2, <2>1 DEF ThreadInit, WorkerLabel, BusyLabel, TypeOK
<1>3. CASE TestQuit(w)
  <2>1. shouldQuit' \in [Workers -> BOOLEAN]
    BY <1>0, <1>3 DEF TestQuit
  <2>2. woken' \in BOOLEAN
    BY <1>0, <1>3 DEF TestQuit, TypeOK
  <2>3. CASE shouldQuit[w]
    BY <1>0, <1>1, <1>3, <2>1, <2>2, <2>3 DEF TestQuit, WorkerLabel, BusyLabel
  <2>4. CASE ~shouldQuit[w]
    BY <1>0, <1>1, <1>3, <2>1, <2>2, <2>4 DEF TestQuit, WorkerLabel, BusyLabel
  <2> QED BY <2>3, <2>4
<1>4. CASE PopTask(w, "pop")
  <2>1. CASE input = <<>> /\ Goto(w, "empty") /\ UNCHANGED <<input, held, stage>>
    <3>1. UNCHANGED <<inputVars, outputVars, contextVars, held, refs, shouldQuit, call,
                      mainVars, stage>>
      BY <1>4, <2>1 DEF PopTask
    <3> QED BY <1>0, <1>1, <1>4, <2>1, <3>1 DEF PopTask, WorkerLabel, BusyLabel, TypeOK
  <2>2. CASE /\ input # <<>> /\ Goto(w, "execute")
             /\ input' = Tail(input)
             /\ held' = [held EXCEPT ![w] = Head(input).task]
             /\ stage' = [stage EXCEPT ![Head(input).task] = "taken"]
    <3>1. UNCHANGED <<counter, outputVars, contextVars, refs, shouldQuit, call, mainVars>>
      BY <1>4 DEF PopTask
    <3>2. pc[w] = "pop"
      BY <1>4 DEF PopTask
    <3>3. Head(input).task \in Task
      <4>1. input \in Seq(InputEntry) /\ input # <<>>
        BY <1>0, <2>2
      <4>2. Head(input) \in InputEntry
        BY <4>1, HeadTailProperties
      <4> QED BY <4>2 DEF InputEntry
    <3>4. input' \in Seq(InputEntry) /\ Len(input') = Len(input) - 1
      <4>1. input \in Seq(InputEntry) /\ input # <<>> /\ input' = Tail(input)
        BY <1>0, <2>2
      <4> QED BY <4>1, HeadTailProperties
    <3>5. held'[w] \in Task
      BY <1>0, <2>2, <3>3
    <3>6. /\ pc' \in [Workers \cup {Main} -> WorkerLabel \cup MainLabel]
          /\ pc'[Main] = pc[Main]
          /\ held' \in [Workers -> Task \cup {NULL}]
          /\ Submitting' = Submitting
          /\ CallsCarry' /\ BusyHold' /\ WorkersHaveContext' /\ AllJoined' /\ DeadAlone'
      <4>1. "execute" \in WorkerLabel \ {"none"} /\ pc[w] \notin {"none", "done"}
        BY <3>2 DEF WorkerLabel
      <4>2. \E t \in Task : held' = [held EXCEPT ![w] = t]
        BY <2>2, <3>3
      <4>3. Goto(w, "execute") /\ UNCHANGED <<context, after, call>>
        BY <2>2, <3>1
      <4> QED BY <3>5, <4>1, <4>2, <4>3, WorkerMoves
    <3>7. stage' \in [Task \cup Func -> Stage]
      BY <1>0, <2>2, <3>3 DEF Stage
    <3>8. TypeOK'
      BY <1>0, <3>1, <3>4, <3>6, <3>7 DEF TypeOK
    <3>9. Cardinality(Busy') = Cardinality(Busy) + 1
      <4>1. w \notin Busy
        BY <3>2 DEF Busy, BusyLabel
      <4>2. Busy' = Busy \cup {w}
        BY <1>0, <2>2, GotoMoves DEF BusyLabel
      <4> QED BY <4>1, <4>2, Finite, AddOne
    <3>10. CounterExact'
      BY <1>0, <3>1, <3>4, <3>6, <3>9, Finite DEF CounterExact
    <3> QED BY <3>6, <3>8, <3>10 DEF IInv
  <2> QED BY <1>4, <2>1, <2>2 DEF PopTask
<1>5. CASE LockInput(w)
  <2>1. CASE finalized
    BY <1>0, <1>1, <1>5, <2>1 DEF LockInput, WorkerLabel, BusyLabel, TypeOK
  <2>2. CASE ~finalized
    BY <1>0, <1>1, <1>5, <2>2 DEF LockInput, WorkerLabel, BusyLabel, TypeOK
  <2> QED BY <2>1, <2>2
<1>6. CASE Block(w)
  BY <1>0, <1>1, <1>6 DEF Block, WorkerLabel, BusyLabel, TypeOK
<1>7. CASE Wake(w)
  BY <1>0, <1>1, <1>7 DEF Wake, WorkerLabel, BusyLabel, TypeOK
<1>8. CASE Spurious(w)
  BY <1>0, <1>1, <1>8 DEF Spurious, WorkerLabel, BusyLabel, TypeOK
<1>9. CASE Executed(w)
  <2>1. held[w] \in Task
    BY <1>0, <1>9 DEF Executed, BusyHold, BusyLabel
  <2>2. stage' \in [Task \cup Func -> Stage]
    BY <1>0, <1>9, <2>1 DEF Executed, Stage
  <2> QED BY <1>0, <1>1, <1>9, <2>2 DEF Executed, WorkerLabel, BusyLabel, TypeOK
<1>10. CASE Report(w)
  <2>1. /\ pc[w] = "report" /\ Goto(w, "signal")
        /\ UNCHANGED <<inputVars, contextVars, workerVars, call, mainVars>>
    BY <1>10 DEF Report
  <2>2. held[w] \in Task
    BY <1>0, <2>1 DEF BusyHold, BusyLabel
  <2>3. /\ output' \in Seq(Task) /\ callbacks' \in Seq(Func)
        /\ outputCounter' \in Nat
        /\ stage' \in [Task \cup Func -> Stage]
    <3>1. CASE Emit(held[w])
      BY <1>0, <2>2, <3>1, EmitType
    <3>2. CASE UNCHANGED outputVars /\ stage' = [stage EXCEPT ![held[w]] = "done"]
      BY <1>0, <2>2, <3>2 DEF TypeOK, Stage
    <3> QED BY <1>10, <3>1, <3>2 DEF Report
  <2>4. /\ pc' \in [Workers \cup {Main} -> WorkerLabel \cup MainLabel]
        /\ pc'[Main] = pc[Main]
        /\ Submitting' = Submitting
        /\ CallsCarry' /\ BusyHold' /\ WorkersHaveContext' /\ AllJoined' /\ DeadAlone'
    BY <2>1, WorkerMoves DEF WorkerLabel, BusyLabel
  <2>5. TypeOK'
    BY <1>0, <2>1, <2>3, <2>4 DEF TypeOK
  <2>6. Busy' = Busy
    BY <1>0, <2>1, GotoMoves DEF Busy, BusyLabel
  <2>7. CounterExact'
    BY <1>0, <2>1, <2>4, <2>6, CounterFrame
  <2> QED BY <2>4, <2>5, <2>7 DEF IInv
<1>11. CASE ReportSignal(w)
  <2>1. /\ pc[w] = "signal"
        /\ UNCHANGED <<inputVars, outputVars, contextVars, workerVars, call, stack, after,
                       stage>>
    BY <1>11 DEF ReportSignal
  <2>2. /\ pc' \in [Workers \cup {Main} -> WorkerLabel \cup MainLabel]
        /\ pc'[w] = "uncount"
        /\ \A v \in Workers \ {w} : pc'[v] = pc[v]
        /\ pc'[Main] = pc[Main] \/ (pc[Main] = "waiting" /\ pc'[Main] = "notified")
    BY <1>0, <1>11 DEF ReportSignal, WorkerLabel, MainLabel
  <2>3. woken' \in BOOLEAN
    <3>1. woken \in BOOLEAN
      BY <1>0 DEF TypeOK
    <3> QED BY <1>11, <3>1 DEF ReportSignal
  <2>4. TypeOK'
    BY <1>0, <2>1, <2>2, <2>3 DEF TypeOK
  <2>5. Submitting' = Submitting /\ CallsCarry'
    BY <2>1 DEF IInv, CallsCarry, Submitting
  <2>6. Busy' = Busy
    BY <2>1, <2>2 DEF Busy, BusyLabel
  <2>7. BusyHold'
    BY <1>0, <2>1, <2>2 DEF BusyHold, BusyLabel
  <2>8. WorkersHaveContext' /\ AllJoined' /\ DeadAlone'
    BY <2>1, <2>2 DEF IInv, WorkersHaveContext, AllJoined, DeadAlone
  <2>9. CounterExact'
    BY <1>0, <2>1, <2>2, <2>5, <2>6, CounterFrame
  <2> QED BY <2>4, <2>5, <2>7, <2>8, <2>9 DEF IInv
<1>12. CASE Uncount(w)
  <2>1. /\ pc[w] = "uncount" /\ Goto(w, "loop")
        /\ counter' = counter - 1
        /\ held' = [held EXCEPT ![w] = NULL]
        /\ UNCHANGED <<input, outputVars, contextVars, refs, shouldQuit, call, mainVars,
                       stage>>
    BY <1>12 DEF Uncount
  <2>2. /\ pc' \in [Workers \cup {Main} -> WorkerLabel \cup MainLabel]
        /\ pc'[Main] = pc[Main]
        /\ held' \in [Workers -> Task \cup {NULL}]
        /\ Submitting' = Submitting
        /\ CallsCarry' /\ BusyHold' /\ WorkersHaveContext' /\ AllJoined' /\ DeadAlone'
    BY <2>1, WorkerMoves DEF WorkerLabel, BusyLabel
  <2>3. Cardinality(Busy') = Cardinality(Busy) - 1
    <3>1. w \in Busy
      BY <2>1 DEF Busy, BusyLabel
    <3>2. Busy' = Busy \ {w}
      BY <1>0, <2>1, GotoMoves DEF BusyLabel
    <3> QED BY <3>1, <3>2, Finite, RemoveOne
  <2>4. pc[Main] # "dead"
    BY <1>0, <2>1 DEF IInv, DeadAlone, WorkersHaveContext
  <2>5. counter = Cardinality(Submitting) + Len(input) + Cardinality(Busy)
    BY <1>0, <2>4 DEF CounterExact
  <2>6. Cardinality(Busy') \in Nat
    <3>1. w \in Busy
      BY <2>1 DEF Busy, BusyLabel
    <3>2. Busy # {}
      BY <3>1
    <3>3. Cardinality(Busy) # 0
      BY <3>2, Finite, FS_EmptySet
    <3> QED BY <2>3, <3>3, Finite
  <2>7. counter' \in Nat
    BY <1>0, <2>1, <2>3, <2>5, <2>6, Finite
  <2>8. TypeOK'
    BY <1>0, <2>1, <2>2, <2>7 DEF TypeOK
  <2>9. CounterExact'
    BY <1>0, <2>1, <2>2, <2>3, <2>5, Finite DEF CounterExact
  <2> QED BY <2>2, <2>8, <2>9 DEF IInv
<1> QED BY <1>2, <1>3, <1>4, <1>5, <1>6, <1>7, <1>8, <1>9, <1>10, <1>11, <1>12 DEF Worker

-------------------------------------------------------------------------------
\* What Main's step from one label to another leaves as it was.
LEMMA MainMoves ==
    ASSUME IInv, NEW label \in MainLabel \ {"dead"}, Goto(Main, label),
           pc[Main] # "dead",
           UNCHANGED <<input, counter, context, held, call>>,
           label = "delete" \/ (label = "update" /\ after' = "delete") =>
               \A w \in Workers : pc[w] = "done"
    PROVE  /\ pc' \in [Workers \cup {Main} -> WorkerLabel \cup MainLabel]
           /\ CallsCarry' /\ BusyHold' /\ WorkersHaveContext' /\ AllJoined' /\ DeadAlone'
           /\ CounterExact'
<1>0. /\ TypeOK /\ CallsCarry /\ BusyHold /\ WorkersHaveContext /\ CounterExact
      /\ pc \in [Workers \cup {Main} -> WorkerLabel \cup MainLabel]
      /\ Main \notin Workers
  BY TQAssumption DEF IInv, TypeOK
<1>1. /\ pc' \in [Workers \cup {Main} -> WorkerLabel \cup MainLabel]
      /\ \A w \in Workers : pc'[w] = pc[w]
      /\ pc'[Main] = label
  BY <1>0 DEF Goto
<1>2. CallsCarry' /\ Submitting' = Submitting /\ Busy' = Busy
  BY <1>0, <1>1 DEF CallsCarry, Submitting, Busy
<1>3. BusyHold' /\ WorkersHaveContext' /\ AllJoined' /\ DeadAlone'
  BY <1>0, <1>1 DEF BusyHold, WorkersHaveContext, AllJoined, DeadAlone
<1>4. CounterExact'
  BY <1>0, <1>1, <1>2, CounterFrame
<1> QED BY <1>1, <1>2, <1>3, <1>4

\* Taking the output over keeps the invariant, wherever control returns.
LEMMA TakeOutputKeepsInv ==
    ASSUME IInv, NEW ret \in {"idle", "testCounter", "delete"}, TakeOutput(ret),
           pc[Main] # "dead", ret = "delete" => \A w \in Workers : pc[w] = "done"
    PROVE  IInv'
<1> USE DEF inputVars, outputVars, contextVars, workerVars, mainVars
<1>1. /\ stack' = output \o callbacks /\ output' = <<>> /\ callbacks' = <<>>
      /\ outputCounter' = 0 /\ after' = ret /\ woken' = FALSE
      /\ Goto(Main, "update")
      /\ UNCHANGED <<inputVars, contextVars, workerVars, call, stage>>
  BY DEF TakeOutput
<1>2. /\ pc' \in [Workers \cup {Main} -> WorkerLabel \cup MainLabel]
      /\ CallsCarry' /\ BusyHold' /\ WorkersHaveContext' /\ AllJoined' /\ DeadAlone'
      /\ CounterExact'
  BY <1>1, MainMoves DEF MainLabel
<1>3. stack' \in Seq(Task \cup Func)
  <2>1. output \in Seq(Task) /\ callbacks \in Seq(Func)
    BY DEF IInv, TypeOK
  <2>2. output \in Seq(Task \cup Func) /\ callbacks \in Seq(Task \cup Func)
    BY <2>1, SeqMonotonic
  <2> QED BY <1>1, <2>2, ConcatProperties
<1>4. TypeOK'
  <2>1. output' \in Seq(Task) /\ callbacks' \in Seq(Func)
    BY <1>1, EmptySeq
  <2>2. woken' \in BOOLEAN /\ outputCounter' \in Nat /\ after' \in {"idle", "testCounter", "delete"}
    BY <1>1
  <2> QED BY <1>1, <1>2, <1>3, <2>1, <2>2 DEF TypeOK, IInv
<1> QED BY <1>2, <1>4 DEF IInv

\* A step of Main that only moves its label, and what concerns nobody else.
LEMMA MainLabelKeepsInv ==
    ASSUME IInv, NEW label \in MainLabel \ {"dead", "delete"}, Goto(Main, label),
           pc[Main] # "dead", label # "update",
           UNCHANGED <<inputVars, outputVars, context, workerVars, call, stack, woken,
                       stage>>,
           finalized' \in BOOLEAN, spawns' \in Nat,
           after' \in {"idle", "testCounter", "delete"}
    PROVE  IInv'
<1> USE DEF inputVars, outputVars, workerVars
<1>1. /\ pc' \in [Workers \cup {Main} -> WorkerLabel \cup MainLabel]
      /\ CallsCarry' /\ BusyHold' /\ WorkersHaveContext' /\ AllJoined' /\ DeadAlone'
      /\ CounterExact'
  BY MainMoves
<1>2. TypeOK'
  BY <1>1 DEF TypeOK, IInv
<1> QED BY <1>1, <1>2 DEF IInv

\* What Main does when it notifies every worker and moves on itself.
LEMMA NotifyAllKeepsInv ==
    ASSUME IInv, NEW label \in {"idle", "join"}, pc' = [Woken(Waiting) EXCEPT ![Main] = label],
           pc[Main] # "dead",
           UNCHANGED <<inputVars, outputVars, contextVars, workerVars, call, mainVars, stage>>
    PROVE  IInv'
<1> USE DEF inputVars, outputVars, contextVars, workerVars, mainVars
<1>0. /\ TypeOK /\ CallsCarry /\ BusyHold /\ WorkersHaveContext /\ CounterExact
      /\ DOMAIN pc = Workers \cup {Main}
      /\ Main \notin Workers
  BY TQAssumption DEF IInv, TypeOK
<1>1. /\ DOMAIN Woken(Waiting) = Workers \cup {Main}
      /\ \A w \in Workers : Woken(Waiting)[w] = pc[w]
                             \/ (pc[w] = "waiting" /\ Woken(Waiting)[w] = "awake")
  BY <1>0 DEF Woken, Waiting
<1>2. /\ \A w \in Workers : pc'[w] = pc[w] \/ (pc[w] = "waiting" /\ pc'[w] = "awake")
      /\ pc'[Main] = label
      /\ DOMAIN pc' = Workers \cup {Main}
      /\ pc' = [x \in Workers \cup {Main} |-> pc'[x]]
  BY <1>0, <1>1 DEF Woken
<1>3. pc' \in [Workers \cup {Main} -> WorkerLabel \cup MainLabel]
  <2>1. pc \in [Workers \cup {Main} -> WorkerLabel \cup MainLabel]
    BY <1>0 DEF TypeOK
  <2>2. \A x \in Workers \cup {Main} : pc'[x] \in WorkerLabel \cup MainLabel
    BY <1>2, <2>1 DEF WorkerLabel, MainLabel
  <2> QED BY <1>2, <2>2
<1>4. TypeOK'
  BY <1>0, <1>3 DEF TypeOK
<1>5. CallsCarry' /\ Submitting' = Submitting
  BY <1>0 DEF CallsCarry, Submitting
<1>6. Busy' = Busy
  BY <1>2 DEF Busy, BusyLabel
<1>7. BusyHold' /\ WorkersHaveContext' /\ AllJoined' /\ DeadAlone'
  BY <1>0, <1>2 DEF BusyHold, BusyLabel, WorkersHaveContext, AllJoined, DeadAlone
<1>8. CounterExact'
  BY <1>0, <1>5, <1>6, CounterFrame
<1> QED BY <1>4, <1>5, <1>7, <1>8 DEF IInv

\* A step of Main keeps the invariant.
LEMMA MainKeepsInv ==
    ASSUME IInv, MainStep \/ MainCall \/ WaitSpurious
    PROVE  IInv'
<1> USE DEF inputVars, outputVars, contextVars, workerVars, mainVars
<1>0. /\ TypeOK /\ CallsCarry /\ BusyHold /\ WorkersHaveContext /\ AllJoined
      /\ DeadAlone /\ CounterExact
      /\ pc \in [Workers \cup {Main} -> WorkerLabel \cup MainLabel]
      /\ stage \in [Task \cup Func -> Stage]
      /\ stack \in Seq(Task \cup Func)
      /\ after \in {"idle", "testCounter", "delete"}
      /\ finalized \in BOOLEAN /\ spawns \in Nat
      /\ Main \notin Workers
  BY TQAssumption DEF IInv, TypeOK
<1>1. CASE Complete
  <2>1. /\ stack # <<>>
        /\ stage' = [stage EXCEPT ![Head(stack)] = "done"]
        /\ stack' = Tail(stack)
        /\ UNCHANGED <<inputVars, outputVars, contextVars, pc, workerVars, call, after, woken>>
    BY <1>1 DEF Complete
  <2>2. Head(stack) \in Task \cup Func /\ stack' \in Seq(Task \cup Func)
    BY <1>0, <2>1, HeadTailProperties
  <2>3. stage' \in [Task \cup Func -> Stage]
    BY <1>0, <2>1, <2>2 DEF Stage
  <2>4. TypeOK'
    BY <1>0, <2>1, <2>2, <2>3 DEF TypeOK
  <2> QED BY <1>0, <2>1, <2>4
          DEF IInv, CallsCarry, BusyHold, WorkersHaveContext, AllJoined, DeadAlone,
              CounterExact, Submitting, Busy
<1>2. CASE Updated
  <2>1. /\ pc[Main] = "update" /\ Goto(Main, after) /\ after' = "idle"
        /\ UNCHANGED <<inputVars, outputVars, contextVars, workerVars, call, stack, woken,
                       stage>>
    BY <1>2 DEF Updated
  <2>2. after \in MainLabel \ {"dead", "update"}
    BY <1>0 DEF MainLabel
  <2>3. after = "delete" => \A w \in Workers : pc[w] = "done"
    BY <1>0, <2>1 DEF AllJoined
  <2>4. /\ pc' \in [Workers \cup {Main} -> WorkerLabel \cup MainLabel]
        /\ CallsCarry' /\ BusyHold' /\ WorkersHaveContext' /\ AllJoined' /\ DeadAlone'
        /\ CounterExact'
    BY <2>1, <2>2, <2>3, MainMoves
  <2>5. TypeOK'
    BY <1>0, <2>1, <2>4 DEF TypeOK
  <2> QED BY <2>4, <2>5 DEF IInv
<1>3. CASE TestCounter
  <2>1. CASE counter = 0
    BY <1>0, <1>3, <2>1, MainLabelKeepsInv DEF TestCounter, MainLabel
  <2>2. CASE counter # 0
    BY <1>0, <1>3, <2>2, MainLabelKeepsInv DEF TestCounter, MainLabel
  <2> QED BY <2>1, <2>2
<1>4. CASE WaitExit
  BY <1>4, TakeOutputKeepsInv DEF WaitExit
<1>5. CASE Waited
  BY <1>5, TakeOutputKeepsInv DEF Waited
<1>6. CASE TimedWaitEnd
  <2>1. CASE TakeOutput("idle")
    BY <1>6, <2>1, TakeOutputKeepsInv DEF TimedWaitEnd
  <2>2. CASE ~TakeOutput("idle")
    BY <1>0, <1>6, <2>2, MainLabelKeepsInv DEF TimedWaitEnd, MainLabel
  <2> QED BY <2>1, <2>2
<1>7. CASE FinalizeNotify
  BY <1>7, NotifyAllKeepsInv DEF FinalizeNotify
<1>8. CASE \E w \in Workers : Release(w)
  <2>1. PICK w \in Workers : Release(w)
    BY <1>8
  <2>2. /\ refs' = [refs EXCEPT ![w] = 0]
        /\ shouldQuit' = [shouldQuit EXCEPT ![w] = FALSE]
        /\ UNCHANGED <<inputVars, outputVars, contextVars, pc, held, call, mainVars, stage>>
    BY <2>1 DEF Release
  <2>3. refs' \in [Workers -> {0, 1}] /\ shouldQuit' \in [Workers -> BOOLEAN]
    BY <1>0, <2>2 DEF TypeOK
  <2>4. TypeOK'
    BY <1>0, <2>2, <2>3 DEF TypeOK
  <2> QED BY <1>0, <2>2, <2>4
          DEF IInv, CallsCarry, BusyHold, WorkersHaveContext, AllJoined, DeadAlone,
              CounterExact, Submitting, Busy
<1>9. CASE CancelNotify
  BY <1>9, NotifyAllKeepsInv DEF CancelNotify
<1>10. CASE Join
  BY <1>10, TakeOutputKeepsInv DEF Join
<1>11. CASE DeleteContext
  <2>1. /\ pc[Main] = "delete" /\ context' = FALSE
        /\ UNCHANGED <<inputVars, outputVars, finalized, spawns, workerVars, call,
                       mainVars, stage>>
    BY <1>11 DEF DeleteContext
  <2>2. \A w \in Workers : pc[w] = "done"
    BY <1>0, <2>1 DEF AllJoined
  <2>3. /\ pc' \in [Workers \cup {Main} -> WorkerLabel \cup MainLabel]
        /\ pc'[Main] = "idle"
        /\ \A w \in Workers : pc'[w] = "none"
    BY <1>0, <1>11, <2>2 DEF DeleteContext, WorkerLabel, MainLabel
  <2>4. TypeOK'
    <3>1. context' \in BOOLEAN
      BY <2>1
    <3> QED BY <1>0, <2>1, <2>3, <3>1 DEF TypeOK
  <2>5. CallsCarry' /\ Submitting' = Submitting
    BY <1>0, <2>1 DEF CallsCarry, Submitting
  <2>6. Busy' = {} /\ Busy = {}
    BY <2>2, <2>3 DEF Busy, BusyLabel
  <2>7. BusyHold' /\ WorkersHaveContext' /\ AllJoined' /\ DeadAlone'
    BY <2>3 DEF BusyHold, BusyLabel, WorkersHaveContext, AllJoined, DeadAlone
  <2>8. CounterExact'
    BY <1>0, <2>1, <2>5, <2>6, CounterFrame
  <2> QED BY <2>4, <2>5, <2>7, <2>8 DEF IInv
<1>12. CASE SpawnWorkers
  <2>1. /\ pc[Main] = "idle" /\ ~context
        /\ context' = TRUE /\ finalized' = FALSE /\ spawns' = spawns + 1
        /\ refs' = [w \in Workers |-> 1]
        /\ shouldQuit' = [w \in Workers |-> FALSE]
        /\ UNCHANGED <<inputVars, outputVars, held, call, mainVars, stage>>
    BY <1>12 DEF SpawnWorkers, MainIdle
  <2>2. /\ pc' \in [Workers \cup {Main} -> WorkerLabel \cup MainLabel]
        /\ pc'[Main] = "idle"
        /\ \A w \in Workers : pc'[w] = "start"
    BY <1>0, <1>12 DEF SpawnWorkers, WorkerLabel, MainLabel
  <2>3. TypeOK'
    <3>1. context' \in BOOLEAN /\ finalized' \in BOOLEAN
      BY <2>1, Zenon
    <3>2. spawns' \in Nat
      BY <1>0, <2>1
    <3>3. refs' \in [Workers -> {0, 1}] /\ shouldQuit' \in [Workers -> BOOLEAN]
      BY <2>1
    <3> QED BY <1>0, <2>1, <2>2, <3>1, <3>2, <3>3 DEF TypeOK
  <2>4. CallsCarry' /\ Submitting' = Submitting
    BY <1>0, <2>1 DEF CallsCarry, Submitting
  <2>5. Busy' = {} /\ Busy = {}
    BY <1>0, <2>1, <2>2 DEF Busy, BusyLabel, WorkersHaveContext
  <2>6. BusyHold' /\ WorkersHaveContext' /\ AllJoined' /\ DeadAlone'
    BY <2>1, <2>2 DEF BusyHold, BusyLabel, WorkersHaveContext, AllJoined, DeadAlone
  <2>7. CounterExact'
    BY <1>0, <2>1, <2>4, <2>5, CounterFrame
  <2> QED BY <2>3, <2>4, <2>6, <2>7 DEF IInv
<1>13. CASE Update
  BY <1>13, TakeOutputKeepsInv DEF Update, MainIdle
<1>14. CASE WaitForAll
  BY <1>14, TakeOutputKeepsInv DEF WaitForAll, MainIdle
<1>15. CASE Wait
  BY <1>0, <1>15, MainLabelKeepsInv DEF Wait, MainIdle, MainLabel
<1>16. CASE TimedWait
  <2>1. CASE TakeOutput("idle")
    BY <1>16, <2>1, TakeOutputKeepsInv DEF TimedWait, MainIdle
  <2>2. CASE ~TakeOutput("idle")
    BY <1>0, <1>16, <2>2, MainLabelKeepsInv DEF TimedWait, MainIdle, MainLabel
  <2> QED BY <2>1, <2>2
<1>17. CASE Finalize
  BY <1>0, <1>17, MainLabelKeepsInv DEF Finalize, MainIdle, MainLabel
<1>18. CASE CancelWorkers
  BY <1>0, <1>18, MainLabelKeepsInv DEF CancelWorkers, MainIdle, MainLabel
<1>19. CASE Destroy
  <2>1. /\ pc[Main] = "idle" /\ ~context /\ Goto(Main, "dead")
        /\ stage' = [x \in DOMAIN stage |-> IF stage[x] = "queued" THEN "done" ELSE stage[x]]
        /\ input' = <<>>
        /\ UNCHANGED <<counter, outputVars, contextVars, workerVars, call, mainVars>>
    BY <1>19 DEF Destroy, MainIdle
  <2>2. /\ pc' \in [Workers \cup {Main} -> WorkerLabel \cup MainLabel]
        /\ \A w \in Workers : pc'[w] = pc[w]
        /\ pc'[Main] = "dead"
    BY <1>0, <2>1 DEF Goto, MainLabel
  <2>3. stage' \in [Task \cup Func -> Stage]
    BY <1>0, <2>1 DEF Stage
  <2>4. TypeOK'
    <3>1. input' \in Seq(InputEntry)
      BY <2>1, EmptySeq
    <3> QED BY <1>0, <2>1, <2>2, <2>3, <3>1 DEF TypeOK
  <2>5. CallsCarry'
    BY <1>0, <2>1 DEF CallsCarry
  <2>6. BusyHold' /\ WorkersHaveContext' /\ AllJoined' /\ DeadAlone' /\ CounterExact'
    BY <1>0, <2>1, <2>2
       DEF BusyHold, WorkersHaveContext, AllJoined, DeadAlone, CounterExact
  <2> QED BY <2>4, <2>5, <2>6 DEF IInv
<1>20. CASE WaitSpurious
  BY <1>0, <1>20, MainLabelKeepsInv DEF WaitSpurious, MainLabel
<1>21. CASE MainStep
  BY <1>1, <1>2, <1>3, <1>4, <1>5, <1>6, <1>7, <1>8, <1>9, <1>10, <1>11, <1>21 DEF MainStep
<1>22. CASE MainCall
  BY <1>12, <1>13, <1>14, <1>15, <1>16, <1>17, <1>18, <1>19, <1>22 DEF MainCall
<1> QED BY <1>20, <1>21, <1>22

-------------------------------------------------------------------------------
LEMMA StutterKeepsInv == IInv /\ UNCHANGED vars => IInv'
BY DEF IInv, vars, inputVars, outputVars, contextVars, workerVars, mainVars, TypeOK,
       CallsCarry, BusyHold, WorkersHaveContext, AllJoined, DeadAlone, CounterExact,
       Submitting, Busy

LEMMA InvHolds == Spec => []IInv
<1>1. IInv /\ [Next]_vars => IInv'
  <2> SUFFICES ASSUME IInv, Next PROVE IInv'
    BY StutterKeepsInv
  <2> QED BY CallsKeepInv, WorkerKeepsInv, MainKeepsInv DEF Next
<1> QED BY <1>1, InitInv, PTL DEF Spec

\* Every variable of the task queue keeps the type of the member it stands for,
\* however many threads and tasks there are.
THEOREM TypeCorrect == Spec => []TypeOK
<1>1. IInv => TypeOK
  BY DEF IInv
<1> QED BY <1>1, InvHolds, PTL

\* _tasksCounter (perform counts up, runTask's report counts down) is the number
\* of tasks that are submitted, queued or with a worker, for any number of threads.
THEOREM CounterExactHolds == Spec => []CounterExact
<1>1. IInv => CounterExact
  BY DEF IInv
<1> QED BY <1>1, InvHolds, PTL

\* No worker thread runs after cancelWorkers has deleted the context.
THEOREM WorkersHaveContextHolds == Spec => []WorkersHaveContext
<1>1. IInv => WorkersHaveContext
  BY DEF IInv
<1> QED BY <1>1, InvHolds, PTL

\* What waitForAll concludes from _tasksCounter.load() == 0: no thread is about to
\* put a task into the input queue, none is in it, and no worker has one.
ZeroMeansIdle ==
    counter = 0 /\ pc[Main] # "dead" => Submitting = {} /\ input = <<>> /\ Busy = {}

THEOREM ZeroMeansIdleHolds == Spec => []ZeroMeansIdle
<1>1. IInv => ZeroMeansIdle
  <2> SUFFICES ASSUME IInv, counter = 0, pc[Main] # "dead"
               PROVE  Submitting = {} /\ input = <<>> /\ Busy = {}
    BY DEF ZeroMeansIdle
  <2>1. counter = Cardinality(Submitting) + Len(input) + Cardinality(Busy)
    BY DEF IInv, CounterExact
  <2>2. input \in Seq(InputEntry)
    BY DEF IInv, TypeOK
  <2>3. Len(input) \in Nat
    BY <2>2, LenProperties
  <2>4. Cardinality(Submitting) = 0 /\ Len(input) = 0 /\ Cardinality(Busy) = 0
    BY <2>1, <2>3, Finite
  <2> QED BY <2>2, <2>4, Finite, FS_EmptySet, EmptySeq
<1> QED BY <1>1, InvHolds, PTL

-------------------------------------------------------------------------------
\* TaskQueue implements what TaskQueueSpec promises, and cancelWorkers leaves no report
\* behind.  Both rest on where a task is.  Its stage says so, and the calls, the input
\* queue, the workers' hands and the output queues agree with it: a task is in one of
\* those places, once.

\* A task that is being submitted is in one thread's call.
CallsPlaced ==
    /\ \A th \in Threads :
        /\ call[th].at = "push" =>
            stage[call[th].item] = "counted" /\ call[th].item \notin Refusing
        /\ call[th].at = "post" /\ call[th].item \in Task =>
            stage[call[th].item] = "refused" /\ call[th].item \in Refusing
    /\ \A th, u \in Threads :
        th # u /\ {call[th].at, call[u].at} \subseteq {"push", "post"}
            /\ call[th].item \in Task => call[th].item # call[u].item

\* A queued task is in the input queue, once.
InputPlaced ==
    /\ \A i \in 1..Len(input) : stage[input[i].task] = "queued"
    /\ \A i, j \in 1..Len(input) : input[i].task = input[j].task => i = j
    /\ \A t \in Task : stage[t] = "queued" => \E i \in 1..Len(input) : input[i].task = t

\* A task that is executed is in one worker's hands.
HandsPlaced ==
    /\ \A w \in Workers : /\ pc[w] = "execute" => stage[held[w]] = "taken"
                          /\ pc[w] = "report" => stage[held[w]] = "executed"
    /\ \A v, w \in Executing : held[v] = held[w] => v = w
    /\ \A t \in Task : stage[t] \in {"taken", "executed"} => \E w \in Executing : held[w] = t

\* Main takes tasks over before functions.
TasksLead == \E n \in 0..Len(stack) : \A i \in 1..Len(stack) : stack[i] \in Task <=> i <= n

\* A reported task is in the output queue or with Main, once.
OutputPlaced ==
    /\ \A i \in 1..Len(output) : stage[output[i]] = "output"
    /\ \A i \in 1..Len(stack) : stack[i] \in Task => stage[stack[i]] = "output"
    /\ \A i, j \in 1..Len(output) : output[i] = output[j] => i = j
    /\ \A i, j \in 1..Len(stack) : stack[i] = stack[j] /\ stack[i] \in Task => i = j
    /\ \A i \in 1..Len(stack), j \in 1..Len(output) : stack[i] # output[j]
    /\ \A t \in Task : stage[t] = "output" => \/ \E i \in 1..Len(output) : output[i] = t
                                              \/ \E i \in 1..Len(stack) : stack[i] = t

\* Main has nothing left to complete when it leaves update.
StackEmptied == pc[Main] # "update" => stack = <<>>

\* What is reported after the last update of cancelWorkers was posted by Main itself.
LastUpdate ==
    pc[Main] = "delete" \/ (pc[Main] = "update" /\ after = "delete") =>
        \A i \in 1..Len(output) : output[i] \in Refusing

Placed == /\ CallsPlaced /\ InputPlaced /\ HandsPlaced /\ OutputPlaced /\ TasksLead
          /\ StackEmptied /\ LastUpdate

\* A step of the queue is one of the promise, or none.
Promised == [Promise!Next]_(Promise!vars)

-------------------------------------------------------------------------------
\* What a step leaves in its place.

LEMMA Types ==
    ASSUME IInv
    PROVE  /\ TypeOK /\ CallsCarry /\ BusyHold /\ AllJoined
           /\ pc \in [Workers \cup {Main} -> WorkerLabel \cup MainLabel]
           /\ held \in [Workers -> Task \cup {NULL}]
           /\ call \in [Threads -> Call]
           /\ stage \in [Task \cup Func -> Stage]
           /\ input \in Seq(InputEntry) /\ Len(input) \in Nat
           /\ output \in Seq(Task) /\ Len(output) \in Nat
           /\ callbacks \in Seq(Func) /\ Len(callbacks) \in Nat
           /\ stack \in Seq(Task \cup Func) /\ Len(stack) \in Nat
           /\ \A i \in 1..Len(input) : input[i].task \in Task
           /\ \A i \in 1..Len(output) : output[i] \in Task
           /\ \A i \in 1..Len(stack) : stack[i] \in Task \cup Func
           /\ Main \notin Workers /\ NULL \notin Task /\ Task \cap Func = {}
           /\ Workers \subseteq Threads /\ Main \in Threads
<1>1. /\ TypeOK /\ CallsCarry /\ BusyHold /\ AllJoined
      /\ pc \in [Workers \cup {Main} -> WorkerLabel \cup MainLabel]
      /\ held \in [Workers -> Task \cup {NULL}]
      /\ call \in [Threads -> Call]
      /\ stage \in [Task \cup Func -> Stage]
      /\ input \in Seq(InputEntry) /\ output \in Seq(Task)
      /\ callbacks \in Seq(Func) /\ stack \in Seq(Task \cup Func)
  BY DEF IInv, TypeOK
<1>2. /\ Len(input) \in Nat /\ Len(output) \in Nat
      /\ Len(callbacks) \in Nat /\ Len(stack) \in Nat
  BY <1>1, LenProperties
<1>3. \A i \in 1..Len(input) : input[i] \in InputEntry
  BY <1>1, ElementOfSeq
<1>4. \A i \in 1..Len(output) : output[i] \in Task
  BY <1>1, ElementOfSeq
<1>5. \A i \in 1..Len(stack) : stack[i] \in Task \cup Func
  BY <1>1, ElementOfSeq
<1>6. /\ Main \notin Workers /\ NULL \notin Task /\ Task \cap Func = {}
      /\ Workers \subseteq Threads /\ Main \in Threads
  BY TQAssumption DEF Threads
<1> QED BY <1>1, <1>2, <1>3, <1>4, <1>5, <1>6 DEF InputEntry

\* A call ends or goes on to its notification, with its task in the next place.
LEMMA CallsEnd ==
    ASSUME IInv, CallsPlaced, NEW th \in Threads, NEW r, r.at \notin {"push", "post"},
           call' = [call EXCEPT ![th] = r],
           \A t \in Task : stage[t] \in {"counted", "refused"} =>
               \/ stage'[t] = stage[t]
               \/ call[th].at \in {"push", "post"} /\ t = call[th].item
    PROVE  CallsPlaced'
<1>1. /\ \A u \in Threads : call'[u] = IF u = th THEN r ELSE call[u]
      /\ \A u \in Threads : call[u].at = "push" => call[u].item \in Task
  BY Types DEF CallsCarry
<1>2. \A u \in Threads :
        /\ call'[u].at = "push" =>
            stage'[call'[u].item] = "counted" /\ call'[u].item \notin Refusing
        /\ call'[u].at = "post" /\ call'[u].item \in Task =>
            stage'[call'[u].item] = "refused" /\ call'[u].item \in Refusing
  BY <1>1 DEF CallsPlaced
<1>3. \A u, v \in Threads :
        u # v /\ {call'[u].at, call'[v].at} \subseteq {"push", "post"} /\ call'[u].item \in Task
            => call'[u].item # call'[v].item
  BY <1>1 DEF CallsPlaced
<1> QED BY <1>2, <1>3 DEF CallsPlaced

LEMMA CallsFrame ==
    ASSUME IInv, CallsPlaced, call' = call,
           \A t \in Task : stage[t] \in {"counted", "refused"} => stage'[t] = stage[t]
    PROVE  CallsPlaced'
BY Types DEF CallsPlaced, CallsCarry

LEMMA InputFrame ==
    ASSUME IInv, InputPlaced, input' = input,
           \A t \in Task : stage[t] = "queued" <=> stage'[t] = "queued"
    PROVE  InputPlaced'
BY Types DEF InputPlaced

LEMMA HandsFrame ==
    ASSUME IInv, HandsPlaced,
           \A w \in Executing : pc'[w] = pc[w] /\ held'[w] = held[w],
           \A w \in Workers \ Executing : pc'[w] \notin {"execute", "report"},
           \A t \in Task : stage[t] \in {"taken", "executed"}
                              \/ stage'[t] \in {"taken", "executed"} => stage'[t] = stage[t]
    PROVE  HandsPlaced' /\ Running' = Running
<1>1. Executing' = Executing /\ \A w \in Executing : held[w] \in Task
  BY Types DEF Executing, BusyHold, BusyLabel
<1>2. HandsPlaced'
  BY <1>1 DEF HandsPlaced, Executing
<1> QED BY <1>1, <1>2 DEF Running

LEMMA OutputFrame ==
    ASSUME IInv, OutputPlaced, UNCHANGED <<output, stack>>,
           \A t \in Task : stage[t] = "output" <=> stage'[t] = "output"
    PROVE  OutputPlaced' /\ Reported' = Reported
<1>1. /\ \A i \in 1..Len(output) : output[i] \in Task
      /\ \A i \in 1..Len(stack) : stack[i] \in Task \cup Func
  BY Types
<1>2. OutputPlaced'
  BY <1>1 DEF OutputPlaced
<1> QED BY <1>2 DEF Reported

\* A task joins the output queue.
LEMMA OutputAdds ==
    ASSUME IInv, OutputPlaced, TasksLead, NEW t \in Task, output' = Append(output, t),
           stack' = stack, stage[t] # "output",
           \A u \in Task : stage'[u] = IF u = t THEN "output" ELSE stage[u]
    PROVE  OutputPlaced' /\ TasksLead' /\ Reported' = Append(Reported, t)
<1>1. /\ Len(output) \in Nat /\ Len(stack) \in Nat
      /\ output \in Seq(Task) /\ stack \in Seq(Task \cup Func)
      /\ \A i \in 1..Len(output) : output[i] \in Task
      /\ \A i \in 1..Len(stack) : stack[i] \in Task \cup Func
  BY Types
<1>2. /\ Len(output') = Len(output) + 1
      /\ output'[Len(output) + 1] = t
      /\ \A i \in 1..Len(output) : output'[i] = output[i]
  BY <1>1, AppendProperties
<1>3. /\ \A i \in 1..Len(output) : output[i] # t
      /\ \A i \in 1..Len(stack) : stack[i] # t
  BY DEF OutputPlaced
<1>4. \A i \in 1..Len(output') : i = Len(output) + 1 \/ i \in 1..Len(output)
  BY <1>1, <1>2
<1>5. OutputPlaced'
  <2>1. \A i \in 1..Len(output') : stage'[output'[i]] = "output"
    BY <1>1, <1>2, <1>3, <1>4 DEF OutputPlaced
  <2>2. \A i \in 1..Len(stack') : stack'[i] \in Task => stage'[stack'[i]] = "output"
    BY <1>1, <1>3 DEF OutputPlaced
  <2>3. \A i, j \in 1..Len(output') : output'[i] = output'[j] => i = j
    BY <1>1, <1>2, <1>3, <1>4 DEF OutputPlaced
  <2>4. \A i \in 1..Len(stack'), j \in 1..Len(output') : stack'[i] # output'[j]
    BY <1>2, <1>3, <1>4 DEF OutputPlaced
  <2>5. ASSUME NEW u \in Task, stage'[u] = "output"
        PROVE  \/ \E i \in 1..Len(output') : output'[i] = u
               \/ \E i \in 1..Len(stack') : stack'[i] = u
    <3>1. CASE u = t
      <4>1. Len(output) + 1 \in 1..Len(output')
        BY <1>1, <1>2
      <4> QED BY <1>2, <3>1, <4>1
    <3>2. CASE u # t
      <4>1. \/ \E i \in 1..Len(output) : output[i] = u
            \/ \E i \in 1..Len(stack) : stack[i] = u
        BY <2>5, <3>2 DEF OutputPlaced
      <4>2. \A i \in 1..Len(output) : i \in 1..Len(output')
        BY <1>1, <1>2
      <4> QED BY <1>2, <4>1, <4>2
    <3> QED BY <3>1, <3>2
  <2> QED BY <2>1, <2>2, <2>3, <2>4, <2>5 DEF OutputPlaced
<1>6. TasksLead'
  BY DEF TasksLead
<1>7. Reported' = Append(Reported, t)
  <2>1. Leading(stack, Task) \in Seq(Task)
    BY <1>1, LeadingPrefix DEF TasksLead
  <2>2. \A u \in Task :
            Leading(stack, Task) \o Append(output, u) = Append(Leading(stack, Task) \o output, u)
    BY <1>1, <2>1, ConcatEnds, SMTT(30)
  <2> QED BY <2>2 DEF Reported
<1> QED BY <1>5, <1>6, <1>7

\* A step that moves no task but into a call is no step of the promise.
LEMMA QuietStep ==
    ASSUME IInv, Placed, UNCHANGED <<input, output, stack>>,
           \A t \in Task : \/ stage'[t] = stage[t]
                           \/ stage[t] = "new" /\ stage'[t] \in {"counted", "refused"},
           \A w \in Executing : pc'[w] = pc[w] /\ held'[w] = held[w],
           \A w \in Workers \ Executing : pc'[w] \notin {"execute", "report"},
           CallsPlaced', StackEmptied', LastUpdate'
    PROVE  Placed' /\ Promised
<1>1. InputPlaced'
  BY InputFrame DEF Placed
<1>2. HandsPlaced' /\ Running' = Running
  BY HandsFrame DEF Placed
<1>3. OutputPlaced' /\ TasksLead' /\ Reported' = Reported
  BY OutputFrame DEF Placed, TasksLead
<1>4. Completed' = Completed
  BY DEF Completed
<1> QED BY <1>1, <1>2, <1>3, <1>4 DEF Placed, Promised, Promise!vars

\* The promise knows no task that is still in a call.
LEMMA NotKnown ==
    ASSUME IInv, Placed, NEW t \in Task, stage[t] \in {"new", "counted", "refused"}
    PROVE  t \notin Promise!Known
<1>1. \A i \in DOMAIN input : input[i].task # t
  <2>1. DOMAIN input = 1..Len(input)
    BY Types, LenProperties
  <2>2. \A i \in 1..Len(input) : stage[input[i].task] = "queued"
    BY DEF Placed, InputPlaced
  <2> QED BY <2>1, <2>2
<1>2. t \notin Running
  BY DEF Running, Executing, Placed, HandsPlaced
<1>3. \A i \in DOMAIN Reported : Reported[i] # t
  <2>1. PICK n \in 0..Len(stack) : \A i \in 1..Len(stack) : stack[i] \in Task <=> i <= n
    BY DEF Placed, TasksLead
  <2>2. /\ Leading(stack, Task) \in Seq(Task)
        /\ Len(Leading(stack, Task)) = n
        /\ \A i \in 1..n : Leading(stack, Task)[i] = stack[i]
    BY <2>1, Types, LeadingPrefix
  <2>3. /\ Reported \in Seq(Task)
        /\ Len(Reported) = n + Len(output)
        /\ \A i \in 1..n + Len(output) :
             Reported[i] = IF i <= n THEN stack[i] ELSE output[i - n]
    <3> DEFINE s == Leading(stack, Task)
    <3>1. s \in Seq(Task) /\ Len(s) = n /\ \A i \in 1..n : s[i] = stack[i]
      BY <2>2
    <3>2. output \in Seq(Task) /\ Reported = s \o output
      BY Types DEF Reported
    <3> HIDE DEF s
    <3>3. /\ s \o output \in Seq(Task)
          /\ Len(s \o output) = Len(s) + Len(output)
          /\ \A i \in 1..Len(s) + Len(output) :
               (s \o output)[i] = IF i <= Len(s) THEN s[i] ELSE output[i - Len(s)]
      BY <3>1, <3>2, ConcatProperties
    <3>4. n \in Nat /\ Len(output) \in Nat
      BY Types
    <3> QED BY <3>1, <3>2, <3>3, <3>4
  <2>4. DOMAIN Reported = 1..n + Len(output)
    BY <2>3, LenProperties
  <2>5. /\ \A i \in 1..n : stack[i] # t
        /\ \A i \in 1..Len(output) : output[i] # t
    <3>1. Len(stack) \in Nat /\ \A i \in 1..n : i \in 1..Len(stack) /\ stack[i] \in Task
      BY <2>1, Types
    <3> QED BY <3>1 DEF Placed, OutputPlaced
  <2>6. n \in Nat /\ Len(output) \in Nat
    BY <2>1, Types
  <2>7. ASSUME NEW i \in 1..n + Len(output) PROVE Reported[i] # t
    <3>1. CASE i <= n
      <4>1. i \in 1..n
        BY <2>6, <3>1
      <4> QED BY <2>3, <2>5, <3>1, <4>1
    <3>2. CASE ~(i <= n)
      <4>1. i - n \in 1..Len(output)
        BY <2>6, <3>2
      <4> QED BY <2>3, <2>5, <3>2, <4>1
    <3> QED BY <3>1, <3>2
  <2> QED BY <2>4, <2>7
<1>4. t \notin Completed
  BY DEF Completed
<1> QED BY <1>1, <1>2, <1>3, <1>4 DEF Promise!Known

-------------------------------------------------------------------------------
\* perform and onMainThread.

\* A call begins: its task is in nobody else's.
LEMMA CallsBegin ==
    ASSUME IInv, Placed, NEW th \in Threads, NEW x \in Task \cup Func,
           NEW at \in {"push", "post"}, NEW to \in {"counted", "refused"},
           call[th] = NoCall, stage[x] = "new",
           call' = [call EXCEPT ![th] = [at |-> at, item |-> x]],
           stage' = [stage EXCEPT ![x] = to],
           UNCHANGED <<input, output, stack, pc, held, after>>,
           at = "push" => x \in Task \ Refusing /\ to = "counted",
           at = "post" /\ x \in Task => x \in Refusing /\ to = "refused"
    PROVE  Placed' /\ Promised
<1>1. /\ call \in [Threads -> Call] /\ stage \in [Task \cup Func -> Stage]
      /\ CallsCarry /\ CallsPlaced
  BY Types DEF Placed
<1>2. /\ \A u \in Threads : call'[u] = IF u = th THEN [at |-> at, item |-> x] ELSE call[u]
      /\ \A t \in Task \cup Func : stage'[t] = IF t = x THEN to ELSE stage[t]
  BY <1>1
<1>3. \A u \in Threads : call[u].at \in {"push", "post"} /\ call[u].item \in Task =>
        call[u].item # x
  BY <1>1 DEF CallsPlaced
<1>4. CallsPlaced'
  BY <1>1, <1>2, <1>3 DEF CallsPlaced, CallsCarry
<1>5. StackEmptied' /\ LastUpdate'
  BY DEF Placed, StackEmptied, LastUpdate
<1>6. \A t \in Task : \/ stage'[t] = stage[t]
                      \/ stage[t] = "new" /\ stage'[t] \in {"counted", "refused"}
  BY <1>2
<1> QED BY <1>4, <1>5, <1>6, QuietStep DEF Executing

LEMMA PushPromised ==
    ASSUME IInv, Placed, NEW th \in Threads, NEW first \in BOOLEAN, Push(th, first)
    PROVE  Placed' /\ Promised
<1> USE DEF outputVars, contextVars, workerVars, mainVars
<1> DEFINE t == call[th].item
           e == [prio |-> Prio[t], task |-> t]
<1>1. /\ call[th].at = "push"
      /\ call' = [call EXCEPT ![th] = [at |-> "notify", item |-> t]]
      /\ stage' = [stage EXCEPT ![t] = "queued"]
      /\ UNCHANGED <<output, stack, pc, held, after>>
  BY DEF Push
<1>2. t \in Task /\ stage[t] = "counted" /\ t \notin Refusing
  BY <1>1, Types DEF Placed, CallsPlaced, CallsCarry
<1>3. PICK k \in 1..Len(input) + 1 :
        IsSlot(input, Prio[t], first, k) /\ input' = InsertedAt(input, k, e)
  BY DEF Push
<1>4. \A u \in Task : stage'[u] = IF u = t THEN "queued" ELSE stage[u]
  BY <1>1, Types
<1>5. CallsPlaced'
  BY <1>1, <1>4, CallsEnd DEF Placed
<1>6. InputPlaced'
  <2>1. e \in InputEntry
    BY <1>2, TQAssumption DEF InputEntry
  <2>2. Len(input') = Len(input) + 1
    BY <1>3, <2>1, Types, InsertedAtType
  <2>3. /\ input'[k] = e
        /\ \A i \in 1..Len(input) : input'[IF i < k THEN i ELSE i + 1] = input[i]
        /\ \A i \in 1..Len(input) + 1 \ {k} :
             LET j == IF i < k THEN i ELSE i - 1
             IN  j \in 1..Len(input) /\ input'[i] = input[j]
    BY <1>3, <2>1, Types, InsertedAtEntries
  <2>4. \A i \in 1..Len(input) : input[i].task # t /\ input[i].task \in Task
    BY <1>2, Types DEF Placed, InputPlaced
  <2>5. \A i \in 1..Len(input') : stage'[input'[i].task] = "queued"
    BY <1>2, <1>4, <2>2, <2>3, <2>4, SMTT(30) DEF Placed, InputPlaced
  <2>6. \A i, j \in 1..Len(input') : input'[i].task = input'[j].task => i = j
    <3> SUFFICES ASSUME NEW i \in 1..Len(input'), NEW j \in 1..Len(input'),
                        input'[i].task = input'[j].task
                 PROVE  i = j
      OBVIOUS
    <3>1. Len(input) \in Nat /\ e.task = t
      BY Types
    <3> HIDE DEF e, t
    <3>2. (i = k) <=> (j = k)
      BY <2>2, <2>3, <2>4, <3>1
    <3>3. CASE i # k
      <4> DEFINE m == IF i < k THEN i ELSE i - 1
                 n == IF j < k THEN j ELSE j - 1
      <4>1. /\ m \in 1..Len(input) /\ input'[i] = input[m]
            /\ n \in 1..Len(input) /\ input'[j] = input[n]
        BY <2>2, <2>3, <3>2, <3>3
      <4>2. m = n
        BY <4>1 DEF Placed, InputPlaced
      <4> QED BY <2>2, <3>1, <3>2, <3>3, <4>2
    <3> QED BY <3>2, <3>3
  <2>7. ASSUME NEW u \in Task, stage'[u] = "queued"
        PROVE  \E i \in 1..Len(input') : input'[i].task = u
    <3>1. CASE u = t
      BY <2>2, <2>3, <3>1, Types
    <3>2. CASE u # t
      <4>1. PICK i \in 1..Len(input) : input[i].task = u
        BY <1>4, <2>7, <3>2 DEF Placed, InputPlaced
      <4>2. (IF i < k THEN i ELSE i + 1) \in 1..Len(input')
        BY <2>2, Types
      <4> QED BY <2>3, <4>1, <4>2
    <3> QED BY <3>1, <3>2
  <2> QED BY <2>5, <2>6, <2>7 DEF InputPlaced
<1>7. HandsPlaced' /\ Running' = Running
  BY <1>1, <1>2, <1>4, HandsFrame DEF Placed, Executing
<1>8. OutputPlaced' /\ Reported' = Reported
  BY <1>1, <1>2, <1>4, OutputFrame DEF Placed
<1>9. TasksLead' /\ StackEmptied' /\ LastUpdate'
  BY <1>1 DEF Placed, TasksLead, StackEmptied, LastUpdate
<1>10. Completed' = Completed
  BY <1>2, <1>4 DEF Completed
<1>11. Promise!Accept(t, first)
  <2>1. t \notin Promise!Known \cup Refusing
    BY <1>2, NotKnown
  <2>2. UNCHANGED <<Running, Reported, Completed>>
    BY <1>7, <1>8, <1>10
  <2> HIDE DEF t
  <2>3. /\ Promise!IsSlot(input, Prio[t], first, k)
        /\ input' = Promise!InsertedAt(input, k, e)
    BY <1>3 DEF IsSlot, StaysAhead, InsertedAt,
                Promise!IsSlot, Promise!StaysAhead, Promise!InsertedAt
  <2> QED BY <1>3, <2>1, <2>2, <2>3 DEF Promise!Accept
<1> QED BY <1>2, <1>5, <1>6, <1>7, <1>8, <1>9, <1>11 DEF Placed, Promised, Promise!Next

LEMMA PostPromised ==
    ASSUME IInv, Placed, NEW th \in Threads, Post(th)
    PROVE  Placed' /\ Promised
<1> USE DEF inputVars, outputVars, contextVars, workerVars, mainVars
<1> DEFINE x == call[th].item
<1>1. /\ call[th].at = "post"
      /\ call' = [call EXCEPT ![th] = [at |-> "signal", item |-> x]]
      /\ stage' = [stage EXCEPT ![x] = "output"]
      /\ UNCHANGED <<input, stack, pc, held, after>>
  BY DEF Post, Emit
<1>2. x \in Task \cup Func
  BY <1>1, Types DEF CallsCarry
<1>3. \A u \in Task : stage'[u] = IF u = x THEN "output" ELSE stage[u]
  BY <1>1, Types
<1>4. CallsPlaced'
  BY <1>1, <1>3, CallsEnd DEF Placed
<1>5. CASE x \notin Task
  <2>1. UNCHANGED output
    BY <1>5 DEF Post, Emit
  <2>2. StackEmptied' /\ LastUpdate'
    BY <1>1, <2>1 DEF Placed, StackEmptied, LastUpdate
  <2> QED BY <1>1, <1>3, <1>4, <1>5, <2>1, <2>2, QuietStep DEF Executing
<1>6. CASE x \in Task
  <2>1. stage[x] = "refused" /\ x \in Refusing /\ output' = Append(output, x)
    BY <1>1, <1>6 DEF Post, Emit, Placed, CallsPlaced
  <2>2. InputPlaced'
    BY <1>1, <1>3, <2>1, InputFrame DEF Placed
  <2>3. HandsPlaced' /\ Running' = Running
    BY <1>1, <1>3, <2>1, HandsFrame DEF Placed, Executing
  <2>4. OutputPlaced' /\ TasksLead' /\ Reported' = Append(Reported, x)
    BY <1>1, <1>3, <1>6, <2>1, OutputAdds DEF Placed
  <2>5. StackEmptied' /\ LastUpdate'
    <3>1. /\ Len(output') = Len(output) + 1
          /\ \A i \in 1..Len(output') : output'[i] \in {output[i], x}
          /\ \A i \in 1..Len(output') : i \in 1..Len(output) \/ output'[i] = x
      BY <1>6, <2>1, Types, AppendProperties
    <3>2. UNCHANGED <<pc, after, stack>> /\ StackEmptied /\ LastUpdate
      BY <1>1 DEF Placed
    <3> QED BY <2>1, <3>1, <3>2 DEF StackEmptied, LastUpdate
  <2>6. Completed' = Completed
    BY <1>3, <2>1 DEF Completed
  <2>7. Promise!Refuse(x)
    BY <1>1, <1>6, <2>1, <2>3, <2>4, <2>6, NotKnown DEF Promise!Refuse
  <2> QED BY <1>4, <1>6, <2>2, <2>3, <2>4, <2>5, <2>7 DEF Placed, Promised, Promise!Next
<1> QED BY <1>2, <1>5, <1>6

\* The calls' steps are steps of the promise.
LEMMA CallsPromised ==
    ASSUME IInv, Placed, NEW th \in Threads, Calls(th) \/ Caller(th)
    PROVE  Placed' /\ Promised
<1> USE DEF inputVars, outputVars, contextVars, workerVars, mainVars
<1>1. ASSUME NEW t \in Task, Perform(th, t) PROVE Placed' /\ Promised
  BY <1>1, CallsBegin DEF Perform, MayCall
<1>2. ASSUME NEW f \in Func, OnMainThread(th, f) PROVE Placed' /\ Promised
  <2>1. f \notin Task
    BY TQAssumption
  <2> QED BY <1>2, <2>1, CallsBegin DEF OnMainThread, MayCall
<1>3. ASSUME NEW r, r.at \notin {"push", "post"}, call' = [call EXCEPT ![th] = r],
             UNCHANGED <<input, output, stack, held, after, stage>>,
             \A w \in Workers : pc'[w] = pc[w] \/ (pc[w] = "waiting" /\ pc'[w] = "awake"),
             pc'[Main] = pc[Main] \/ (pc[Main] = "waiting" /\ pc'[Main] = "notified")
      PROVE  Placed' /\ Promised
  <2>1. CallsPlaced'
    BY <1>3, CallsEnd DEF Placed
  <2>2. StackEmptied' /\ LastUpdate'
    BY <1>3 DEF Placed, StackEmptied, LastUpdate
  <2> QED BY <1>3, <2>1, <2>2, QuietStep DEF Executing
<1>4. CASE Notify(th)
  <2>1. /\ \A w \in Workers : pc'[w] = pc[w] \/ (pc[w] = "waiting" /\ pc'[w] = "awake")
        /\ pc'[Main] = pc[Main]
    <3>1. CASE UNCHANGED pc
      BY <3>1
    <3>2. ASSUME NEW w \in Waiting, pc' = Woken({w})
          PROVE  /\ \A v \in Workers : pc'[v] = pc[v] \/ (pc[v] = "waiting" /\ pc'[v] = "awake")
                 /\ pc'[Main] = pc[Main]
      BY <3>2, Types, WokenMoves
    <3> QED BY <1>4, <3>1, <3>2 DEF Notify, NotifyOne
  <2> QED BY <1>3, <1>4, <2>1 DEF Notify, NoCall
<1>5. CASE Signal(th)
  BY <1>3, <1>5, Types, NotifyWaitMoves DEF Signal, NoCall
<1> QED BY <1>1, <1>2, <1>4, <1>5, PushPromised, PostPromised DEF Calls, Caller

-------------------------------------------------------------------------------
\* The workers.

\* A step of a worker that takes, executes and reports no task.
LEMMA WorkerQuiet ==
    ASSUME IInv, Placed, NEW w \in Workers, w \notin Executing,
           UNCHANGED <<input, output, stack, call, after, stage>>,
           \A v \in Workers \ {w} : pc'[v] = pc[v] /\ held'[v] = held[v],
           pc'[w] \notin {"execute", "report"},
           pc'[Main] = pc[Main] \/ (pc[Main] = "waiting" /\ pc'[Main] = "notified")
    PROVE  Placed' /\ Promised
<1>1. CallsPlaced' /\ StackEmptied' /\ LastUpdate'
  BY CallsFrame DEF Placed, StackEmptied, LastUpdate
<1>2. /\ \A v \in Executing : pc'[v] = pc[v] /\ held'[v] = held[v]
      /\ \A v \in Workers \ Executing : pc'[v] \notin {"execute", "report"}
  BY DEF Executing
<1> QED BY <1>1, <1>2, QuietStep

LEMMA TakePromised ==
    ASSUME IInv, Placed, NEW w \in Workers, pc[w] = "pop", Goto(w, "execute"),
           input # <<>>, input' = Tail(input),
           held' = [held EXCEPT ![w] = Head(input).task],
           stage' = [stage EXCEPT ![Head(input).task] = "taken"],
           UNCHANGED <<output, stack, call, after>>
    PROVE  Placed' /\ Promised
<1> DEFINE t == Head(input).task
<1>1. /\ Len(input) \in Nat \ {0} /\ t = input[1].task
      /\ Len(input') = Len(input) - 1
      /\ \A i \in 1..Len(input') : input'[i] = input[i + 1]
  BY Types, HeadIsFirst, HeadTailProperties
<1>2. t \in Task /\ stage[t] = "queued"
  BY <1>1, Types DEF Placed, InputPlaced
<1>3. /\ \A u \in Task : stage'[u] = IF u = t THEN "taken" ELSE stage[u]
      /\ \A v \in Workers : held'[v] = IF v = w THEN t ELSE held[v]
      /\ \A v \in Workers : pc'[v] = IF v = w THEN "execute" ELSE pc[v]
      /\ pc'[Main] = pc[Main]
  BY Types DEF Goto
<1> HIDE DEF t
<1>4. CallsPlaced'
  BY <1>2, <1>3, CallsFrame DEF Placed
<1>5. InputPlaced'
  <2>1. \A i \in 1..Len(input') : i + 1 \in 1..Len(input) /\ i + 1 # 1
    BY <1>1
  <2>2. \A i \in 1..Len(input') : input'[i].task # t /\ input'[i].task \in Task
    BY <1>1, <2>1, Types DEF Placed, InputPlaced
  <2>3. \A i \in 1..Len(input') : stage'[input'[i].task] = "queued"
    BY <1>1, <1>3, <2>1, <2>2 DEF Placed, InputPlaced
  <2>4. \A i, j \in 1..Len(input') : input'[i].task = input'[j].task => i = j
    <3> SUFFICES ASSUME NEW i \in 1..Len(input'), NEW j \in 1..Len(input'),
                        input'[i].task = input'[j].task
                 PROVE  i = j
      OBVIOUS
    <3>1. i + 1 = j + 1
      BY <1>1, <2>1 DEF Placed, InputPlaced
    <3> QED BY <3>1
  <2>5. ASSUME NEW u \in Task, stage'[u] = "queued"
        PROVE  \E i \in 1..Len(input') : input'[i].task = u
    <3>1. u # t /\ stage[u] = "queued"
      BY <1>3, <2>5
    <3>2. PICK i \in 1..Len(input) : input[i].task = u
      BY <3>1 DEF Placed, InputPlaced
    <3>3. i - 1 \in 1..Len(input') /\ (i - 1) + 1 = i
      BY <1>1, <3>1, <3>2
    <3> QED BY <1>1, <3>2, <3>3
  <2> QED BY <2>3, <2>4, <2>5 DEF InputPlaced
<1>6. Executing' = Executing \cup {w} /\ w \notin Executing
  BY <1>3 DEF Executing
<1>7. HandsPlaced'
  <2>1. \A v \in Executing : held[v] # t /\ held[v] \in Task
    BY <1>2, Types DEF Placed, HandsPlaced, Executing, BusyHold, BusyLabel
  <2>2. \A v \in Workers : /\ pc'[v] = "execute" => stage'[held'[v]] = "taken"
                           /\ pc'[v] = "report" => stage'[held'[v]] = "executed"
    BY <1>2, <1>3, <2>1 DEF Placed, HandsPlaced, Executing
  <2>3. \A v, x \in Executing' : held'[v] = held'[x] => v = x
    BY <1>3, <1>6, <2>1 DEF Placed, HandsPlaced, Executing
  <2>4. ASSUME NEW u \in Task, stage'[u] \in {"taken", "executed"}
        PROVE  \E v \in Executing' : held'[v] = u
    BY <1>3, <1>6, <2>4 DEF Placed, HandsPlaced, Executing
  <2> QED BY <2>2, <2>3, <2>4 DEF HandsPlaced
<1>8. OutputPlaced' /\ Reported' = Reported
  BY <1>2, <1>3, OutputFrame DEF Placed
<1>9. TasksLead' /\ StackEmptied' /\ LastUpdate'
  BY <1>3 DEF Placed, TasksLead, StackEmptied, LastUpdate
<1>10. Running' = Running \cup {t}
  BY <1>3, <1>6 DEF Running, Executing
<1>11. Completed' = Completed
  BY <1>2, <1>3 DEF Completed
<1>12. Promise!Take
  BY <1>8, <1>10, <1>11 DEF Promise!Take, t
<1> QED BY <1>4, <1>5, <1>7, <1>8, <1>9, <1>12 DEF Placed, Promised, Promise!Next

LEMMA ExecutedPromised ==
    ASSUME IInv, Placed, NEW w \in Workers, Executed(w)
    PROVE  Placed' /\ Promised
<1> USE DEF inputVars, outputVars, contextVars, workerVars, mainVars
<1> DEFINE t == held[w]
<1>1. /\ pc[w] = "execute" /\ stage[t] = "taken" /\ t \in Task
      /\ stage' = [stage EXCEPT ![t] = "executed"]
      /\ UNCHANGED <<input, output, stack, held, call, after>>
  BY Types DEF Executed, Placed, HandsPlaced, BusyHold, BusyLabel
<1>2. /\ \A v \in Workers : pc'[v] = IF v = w THEN "report" ELSE pc[v]
      /\ pc'[Main] = pc[Main]
      /\ \A u \in Task : stage'[u] = IF u = t THEN "executed" ELSE stage[u]
  BY <1>1, Types DEF Executed, Goto
<1>3. CallsPlaced' /\ InputPlaced' /\ OutputPlaced' /\ Reported' = Reported
  BY <1>1, <1>2, CallsFrame, InputFrame, OutputFrame DEF Placed
<1>4. Executing' = Executing /\ \A v \in Executing : held[v] = t => v = w
  BY <1>1, <1>2 DEF Executing, Placed, HandsPlaced
<1>5. HandsPlaced'
  <2>1. \A v \in Executing : held[v] \in Task
    BY Types DEF BusyHold, BusyLabel, Executing
  <2>2. \A v \in Workers : /\ pc'[v] = "execute" => stage'[held'[v]] = "taken"
                           /\ pc'[v] = "report" => stage'[held'[v]] = "executed"
    BY <1>1, <1>2, <1>4, <2>1 DEF Placed, HandsPlaced, Executing
  <2>3. \A u \in Task : stage'[u] \in {"taken", "executed"} => \E v \in Executing' : held'[v] = u
    BY <1>1, <1>2, <1>4 DEF Placed, HandsPlaced
  <2> QED BY <1>1, <1>4, <2>2, <2>3 DEF Placed, HandsPlaced
<1>6. TasksLead' /\ StackEmptied' /\ LastUpdate'
  BY <1>1, <1>2 DEF Placed, TasksLead, StackEmptied, LastUpdate
<1>7. Running' = Running /\ Completed' = Completed
  BY <1>1, <1>2, <1>4 DEF Running, Completed
<1> QED BY <1>1, <1>3, <1>5, <1>6, <1>7 DEF Placed, Promised, Promise!vars

LEMMA ReportPromised ==
    ASSUME IInv, Placed, NEW w \in Workers, Report(w)
    PROVE  Placed' /\ Promised
<1> USE DEF inputVars, outputVars, contextVars, workerVars, mainVars
<1> DEFINE t == held[w]
<1>1. /\ pc[w] = "report" /\ stage[t] = "executed" /\ t \in Task
      /\ UNCHANGED <<input, stack, held, call, after>>
  BY Types DEF Report, Placed, HandsPlaced, BusyHold, BusyLabel
<1>2. /\ \A v \in Workers : pc'[v] = IF v = w THEN "signal" ELSE pc[v]
      /\ pc'[Main] = pc[Main]
  BY Types DEF Report, Goto
<1>3. PICK to \in {"done", "output"} :
        /\ \A u \in Task : stage'[u] = IF u = t THEN to ELSE stage[u]
        /\ t \in Silent <=> to = "done"
        /\ to = "done" => UNCHANGED output
        /\ to = "output" => output' = Append(output, t)
  BY <1>1, Types DEF Report, Emit
<1>4. CallsPlaced' /\ InputPlaced'
  BY <1>1, <1>3, CallsFrame, InputFrame DEF Placed
<1>5. /\ Executing' = Executing \ {w} /\ w \in Executing
      /\ \A v \in Executing : held[v] = t => v = w
  BY <1>1, <1>2 DEF Executing, Placed, HandsPlaced
<1>6. HandsPlaced'
  <2>1. \A v \in Executing' : held[v] \in Task /\ held[v] # t
    BY <1>5, Types DEF BusyHold, BusyLabel, Executing
  <2>2. \A v \in Workers : /\ pc'[v] = "execute" => stage'[held'[v]] = "taken"
                           /\ pc'[v] = "report" => stage'[held'[v]] = "executed"
    BY <1>1, <1>2, <1>3, <2>1 DEF Placed, HandsPlaced, Executing
  <2>3. \A u \in Task : stage'[u] \in {"taken", "executed"} => \E v \in Executing' : held'[v] = u
    BY <1>1, <1>3, <1>5 DEF Placed, HandsPlaced
  <2> QED BY <1>1, <1>5, <2>2, <2>3 DEF Placed, HandsPlaced
<1>7. StackEmptied' /\ LastUpdate'
  <2>1. ~(pc[Main] = "delete" \/ (pc[Main] = "update" /\ after = "delete"))
    BY <1>1, Types DEF AllJoined
  <2> QED BY <1>1, <1>2, <2>1 DEF Placed, StackEmptied, LastUpdate
<1>8. Running' = Running \ {t} /\ t \in Running
  BY <1>1, <1>5 DEF Running
<1>9. CASE to = "done"
  <2>1. OutputPlaced' /\ Reported' = Reported /\ TasksLead'
    BY <1>1, <1>3, <1>9, OutputFrame DEF Placed, TasksLead
  <2>2. Completed' = Completed \cup {t}
    BY <1>1, <1>3, <1>9 DEF Completed
  <2>3. Promise!Report(t)
    BY <1>1, <1>3, <1>8, <1>9, <2>1, <2>2 DEF Promise!Report
  <2> QED BY <1>1, <1>4, <1>6, <1>7, <2>1, <2>3 DEF Placed, Promised, Promise!Next
<1>10. CASE to = "output"
  <2>1. OutputPlaced' /\ TasksLead' /\ Reported' = Append(Reported, t)
    BY <1>1, <1>3, <1>10, OutputAdds DEF Placed
  <2>2. Completed' = Completed
    BY <1>1, <1>3, <1>10 DEF Completed
  <2>3. Promise!Report(t)
    BY <1>1, <1>3, <1>8, <1>10, <2>1, <2>2 DEF Promise!Report
  <2> QED BY <1>1, <1>4, <1>6, <1>7, <2>1, <2>3 DEF Placed, Promised, Promise!Next
<1> QED BY <1>9, <1>10

\* A worker's steps are steps of the promise.
LEMMA WorkerPromised ==
    ASSUME IInv, Placed, NEW w \in Workers, Worker(w) \/ Spurious(w)
    PROVE  Placed' /\ Promised
<1> USE DEF inputVars, outputVars, contextVars, workerVars, mainVars
<1>1. ASSUME NEW label, label \notin {"execute", "report"}, Goto(w, label),
             pc[w] \notin {"execute", "report"},
             UNCHANGED <<input, output, stack, call, after, stage>>,
             \A v \in Workers \ {w} : held'[v] = held[v]
      PROVE  Placed' /\ Promised
  <2>1. /\ \A v \in Workers : pc'[v] = IF v = w THEN label ELSE pc[v]
        /\ pc'[Main] = pc[Main]
    BY <1>1, Types DEF Goto
  <2>2. w \notin Executing
    BY <1>1 DEF Executing
  <2> QED BY <1>1, <2>1, <2>2, WorkerQuiet
<1>2. CASE ThreadInit(w)
  BY <1>1, <1>2 DEF ThreadInit
<1>3. CASE TestQuit(w)
  BY <1>1, <1>3 DEF TestQuit
<1>4. CASE PopTask(w, "pop")
  <2>1. CASE input = <<>> /\ Goto(w, "empty") /\ UNCHANGED <<input, held, stage>>
    BY <1>1, <1>4, <2>1 DEF PopTask
  <2>2. CASE input # <<>>
    BY <1>4, <2>2, TakePromised DEF PopTask
  <2> QED BY <1>4, <2>1, <2>2 DEF PopTask
<1>5. CASE LockInput(w)
  BY <1>1, <1>5 DEF LockInput
<1>6. CASE Block(w) \/ Wake(w) \/ Spurious(w)
  BY <1>1, <1>6 DEF Block, Wake, Spurious
<1>7. CASE ReportSignal(w)
  <2>1. /\ pc[w] = "signal"
        /\ pc' = [th \in DOMAIN pc |->
                    IF th = w THEN "uncount"
                    ELSE IF th = Main /\ context /\ Waitable /\ pc[Main] = "waiting"
                    THEN "notified" ELSE pc[th]]
        /\ UNCHANGED <<input, output, stack, call, held, after, stage>>
    BY <1>7 DEF ReportSignal
  <2>2. /\ \A v \in Workers : pc'[v] = IF v = w THEN "uncount" ELSE pc[v]
        /\ pc'[Main] = pc[Main] \/ (pc[Main] = "waiting" /\ pc'[Main] = "notified")
    BY <2>1, Types
  <2>3. w \notin Executing
    BY <2>1 DEF Executing
  <2> QED BY <2>1, <2>2, <2>3, WorkerQuiet
<1>8. CASE Uncount(w)
  <2>1. \A v \in Workers \ {w} : held'[v] = held[v]
    BY <1>8, Types DEF Uncount
  <2> QED BY <1>1, <1>8, <2>1 DEF Uncount
<1> QED BY <1>2, <1>3, <1>4, <1>5, <1>6, <1>7, <1>8, ExecutedPromised, ReportPromised
        DEF Worker

-------------------------------------------------------------------------------
\* The owner.

\* A step of the owner that moves no task.
LEMMA MainQuiet ==
    ASSUME IInv, Placed, UNCHANGED <<input, output, stack, call, held, stage>>,
           \A w \in Executing : pc'[w] = pc[w],
           \A w \in Workers \ Executing : pc'[w] \notin {"execute", "report"},
           \/ pc'[Main] = pc[Main] /\ after' = after
           \/ pc'[Main] \notin {"update", "delete"} /\ stack = <<>>
    PROVE  Placed' /\ Promised
<1>1. CallsPlaced'
  BY CallsFrame DEF Placed
<1>2. StackEmptied' /\ LastUpdate'
  BY DEF Placed, StackEmptied, LastUpdate
<1> QED BY <1>1, <1>2, QuietStep

LEMMA MainGoesQuiet ==
    ASSUME IInv, Placed, UNCHANGED <<input, output, stack, call, held, stage>>,
           NEW label, label \notin {"update", "delete"}, Goto(Main, label),
           stack = <<>>
    PROVE  Placed' /\ Promised
<1>1. pc'[Main] = label /\ \A w \in Workers : pc'[w] = pc[w]
  BY Types DEF Goto
<1> QED BY <1>1, MainQuiet DEF Executing

\* Every waiting worker is notified.
LEMMA NotifyAllQuiet ==
    ASSUME IInv, Placed, UNCHANGED <<input, output, stack, call, held, stage>>,
           NEW label \in {"idle", "join"}, pc[Main] # "update",
           pc' = [Woken(Waiting) EXCEPT ![Main] = label]
    PROVE  Placed' /\ Promised
<1>1. /\ pc'[Main] = label
      /\ \A w \in Workers : pc'[w] = IF pc[w] = "waiting" THEN "awake" ELSE pc[w]
  BY Types DEF Woken, Waiting
<1>2. stack = <<>>
  BY DEF Placed, StackEmptied
<1> QED BY <1>1, <1>2, MainQuiet DEF Executing

\* Main takes the reports over, in their order.
LEMMA TakeOutputQuiet ==
    ASSUME IInv, Placed, NEW ret, TakeOutput(ret), pc[Main] # "update"
    PROVE  Placed' /\ Promised
<1> USE DEF inputVars, contextVars, workerVars
<1>1. /\ stack' = output \o callbacks /\ output' = <<>>
      /\ UNCHANGED <<input, call, held, stage>>
      /\ pc'[Main] = "update" /\ \A w \in Workers : pc'[w] = pc[w]
      /\ stack = <<>>
  BY Types DEF TakeOutput, Goto, Placed, StackEmptied
<1>2. /\ output \in Seq(Task) /\ callbacks \in Seq(Func) /\ Task \cap Func = {}
      /\ Len(output) \in Nat /\ Len(callbacks) \in Nat
      /\ \A i \in 1..Len(output) : output[i] \in Task
      /\ \A i \in 1..Len(callbacks) : callbacks[i] \in Func
  <2>1. \A i \in 1..Len(callbacks) : callbacks[i] \in Func
    BY Types, ElementOfSeq
  <2> QED BY <2>1, Types
<1>3. CallsPlaced' /\ InputPlaced' /\ HandsPlaced' /\ Running' = Running
  BY <1>1, CallsFrame, InputFrame, HandsFrame DEF Placed, Executing
<1>4. /\ Leading(stack', Task) = output
      /\ Len(output) \in 0..Len(stack')
      /\ \A i \in 1..Len(stack') : stack'[i] \in Task <=> i <= Len(output)
  BY <1>1, <1>2, LeadingConcat
<1>5. /\ Len(stack') = Len(output) + Len(callbacks)
      /\ \A i \in 1..Len(output) : stack'[i] = output[i]
      /\ Len(output') = 0
  BY <1>1, <1>2, ConcatProperties, EmptySeq
<1>6. OutputPlaced'
  <2>1. \A i \in 1..Len(stack') : stack'[i] \in Task =>
            i \in 1..Len(output) /\ stack'[i] = output[i]
    BY <1>2, <1>4, <1>5
  <2>2. \A i \in 1..Len(stack') : stack'[i] \in Task => stage'[stack'[i]] = "output"
    BY <1>1, <2>1 DEF Placed, OutputPlaced
  <2>3. \A i, j \in 1..Len(stack') : stack'[i] = stack'[j] /\ stack'[i] \in Task => i = j
    BY <2>1 DEF Placed, OutputPlaced
  <2>4. ASSUME NEW t \in Task, stage'[t] = "output"
        PROVE  \E i \in 1..Len(stack') : stack'[i] = t
    <3>1. Len(stack) = 0
      BY <1>1, EmptySeq
    <3>2. PICK i \in 1..Len(output) : output[i] = t
      BY <1>1, <2>4, <3>1 DEF Placed, OutputPlaced
    <3>3. i \in 1..Len(stack')
      BY <1>2, <1>5
    <3> QED BY <1>5, <3>2, <3>3
  <2> QED BY <1>5, <2>2, <2>3, <2>4 DEF OutputPlaced
<1>7. TasksLead' /\ StackEmptied' /\ LastUpdate'
  BY <1>1, <1>4, <1>5 DEF TasksLead, StackEmptied, LastUpdate
<1>8. Reported' = Reported
  <2>1. Leading(stack, Task) = <<>>
    <3>1. \A i \in 1..Len(stack) : stack[i] \notin Task
      BY <1>1, EmptySeq
    <3> QED BY <3>1, Types, LeadingNothing
  <2> QED BY <1>1, <1>2, <1>4, <2>1, ConcatEmptySeq DEF Reported
<1>9. Completed' = Completed
  BY <1>1 DEF Completed
<1> QED BY <1>1, <1>3, <1>6, <1>7, <1>8, <1>9 DEF Placed, Promised, Promise!vars

\* The owner completes the task that was reported first, or runs a function.
LEMMA CompletePromised ==
    ASSUME IInv, Placed, Complete
    PROVE  Placed' /\ Promised
<1> USE DEF inputVars, outputVars, contextVars, workerVars
<1> DEFINE x == Head(stack)
<1>1. /\ pc[Main] = "update" /\ stack # <<>> /\ stack' = Tail(stack)
      /\ stage' = [stage EXCEPT ![x] = "done"]
      /\ UNCHANGED <<input, output, pc, call, held, after>>
  BY DEF Complete
<1>2. /\ Len(stack) \in Nat \ {0} /\ x = stack[1] /\ x \in Task \cup Func
      /\ Len(stack') = Len(stack) - 1
      /\ \A i \in 1..Len(stack') : stack'[i] = stack[i + 1]
  BY <1>1, Types, HeadIsFirst, HeadTailProperties
<1>3. \A t \in Task : stage'[t] = IF t = x THEN "done" ELSE stage[t]
  BY <1>1, Types
<1>4. x \in Task => stage[x] = "output"
  BY <1>2 DEF Placed, OutputPlaced
<1>5. PICK n \in 0..Len(stack) : \A i \in 1..Len(stack) : stack[i] \in Task <=> i <= n
  BY DEF Placed, TasksLead
<1> HIDE DEF x
<1>6. CallsPlaced' /\ InputPlaced' /\ HandsPlaced' /\ Running' = Running
  BY <1>1, <1>3, <1>4, CallsFrame, InputFrame, HandsFrame DEF Placed, Executing
<1>7. StackEmptied' /\ LastUpdate'
  BY <1>1 DEF Placed, StackEmptied, LastUpdate
<1>8. \A i \in 1..Len(stack') : i + 1 \in 1..Len(stack) /\ i + 1 # 1
  BY <1>2
<1>9. OutputPlaced'
  <2>1. \A i \in 1..Len(output) : output[i] \in Task /\ output[i] # x
    BY <1>2, Types DEF Placed, OutputPlaced
  <2>2. \A i \in 1..Len(stack') : stack'[i] \in Task => stack'[i] # x
    BY <1>2, <1>8 DEF Placed, OutputPlaced
  <2>3. \A i \in 1..Len(output') : stage'[output'[i]] = "output"
    BY <1>1, <1>3, <2>1 DEF Placed, OutputPlaced
  <2>4. \A i \in 1..Len(stack') : stack'[i] \in Task => stage'[stack'[i]] = "output"
    BY <1>2, <1>3, <1>8, <2>2 DEF Placed, OutputPlaced
  <2>5. \A i, j \in 1..Len(stack') : stack'[i] = stack'[j] /\ stack'[i] \in Task => i = j
    <3> SUFFICES ASSUME NEW i \in 1..Len(stack'), NEW j \in 1..Len(stack'),
                        stack'[i] = stack'[j], stack'[i] \in Task
                 PROVE  i = j
      OBVIOUS
    <3>2. \A k, l \in 1..Len(stack) : stack[k] = stack[l] /\ stack[k] \in Task => k = l
      BY DEF Placed, OutputPlaced
    <3>1. i + 1 = j + 1
      BY <1>2, <1>8, <3>2
    <3> QED BY <3>1
  <2>6. \A i \in 1..Len(stack'), j \in 1..Len(output') : stack'[i] # output'[j]
    BY <1>1, <1>2, <1>8 DEF Placed, OutputPlaced
  <2>7. ASSUME NEW t \in Task, stage'[t] = "output"
        PROVE  \/ \E i \in 1..Len(output') : output'[i] = t
               \/ \E i \in 1..Len(stack') : stack'[i] = t
    <3>1. t # x /\ stage[t] = "output"
      BY <1>3, <2>7
    <3>2. CASE \E i \in 1..Len(output) : output[i] = t
      BY <1>1, <3>2
    <3>3. ASSUME NEW i \in 1..Len(stack), stack[i] = t
          PROVE  \E j \in 1..Len(stack') : stack'[j] = t
      <4>1. i - 1 \in 1..Len(stack') /\ (i - 1) + 1 = i
        BY <1>2, <3>1, <3>3
      <4> QED BY <1>2, <3>3, <4>1
    <3> QED BY <3>1, <3>2, <3>3 DEF Placed, OutputPlaced
  <2> QED BY <1>1, <2>3, <2>4, <2>5, <2>6, <2>7 DEF Placed, OutputPlaced
<1>10. CASE x \in Task
  <2>1. /\ Leading(stack, Task) # <<>>
        /\ Head(Leading(stack, Task)) = x
        /\ Leading(stack', Task) = Tail(Leading(stack, Task))
        /\ n - 1 \in 0..Len(stack')
        /\ \A i \in 1..Len(stack') : stack'[i] \in Task <=> i <= n - 1
    BY <1>1, <1>5, <1>10, Types, LeadingTail DEF x
  <2>2. Leading(stack, Task) \in Seq(Task) /\ output \in Seq(Task)
    BY <1>5, Types, LeadingPrefix
  <2>3. /\ Reported # <<>> /\ Head(Reported) = x
        /\ Reported' = Tail(Reported)
    <3> DEFINE s == Leading(stack, Task)
    <3>1. s \in Seq(Task) /\ s # <<>> /\ output \in Seq(Task) /\ Head(s) = x
          /\ Reported = s \o output /\ Reported' = Tail(s) \o output
      BY <1>1, <2>1, <2>2 DEF Reported
    <3> HIDE DEF s
    <3> QED BY <3>1, ConcatEnds
  <2>4. Completed' = Completed \cup {x}
    BY <1>3, <1>10 DEF Completed
  <2>5. TasksLead'
    BY <2>1 DEF TasksLead
  <2>6. Promise!Complete
    BY <1>1, <1>6, <2>3, <2>4 DEF Promise!Complete
  <2> QED BY <1>6, <1>7, <1>9, <2>5, <2>6 DEF Placed, Promised, Promise!Next
<1>11. CASE x \notin Task
  <2>1. n = 0
    BY <1>2, <1>5, <1>11
  <2>2. /\ \A i \in 1..Len(stack) : stack[i] \notin Task
        /\ \A i \in 1..Len(stack') : stack'[i] \notin Task
    BY <1>2, <1>5, <1>8, <2>1
  <2>3. stack' \in Seq(Task \cup Func)
    BY <1>1, Types, HeadTailProperties
  <2>4. Leading(stack, Task) = <<>> /\ Leading(stack', Task) = <<>>
    <3> DEFINE r == stack'
    <3>1. r \in Seq(Task \cup Func) /\ \A i \in 1..Len(r) : r[i] \notin Task
      BY <2>2, <2>3
    <3> HIDE DEF r
    <3>2. Leading(r, Task) = <<>>
      BY <3>1, LeadingNothing
    <3>3. Leading(stack, Task) = <<>>
      BY <2>2, Types, LeadingNothing
    <3> QED BY <3>2, <3>3 DEF r
  <2>5. Reported' = Reported
    BY <1>1, <2>4 DEF Reported
  <2>6. TasksLead'
    <3>1. 0 \in 0..Len(stack') /\ \A i \in 1..Len(stack') : ~(i <= 0)
      BY <1>2
    <3> QED BY <2>2, <3>1 DEF TasksLead
  <2>7. Completed' = Completed
    BY <1>3, <1>11 DEF Completed
  <2> QED BY <1>1, <1>6, <1>7, <1>9, <2>5, <2>6, <2>7 DEF Placed, Promised, Promise!vars
<1> QED BY <1>10, <1>11

\* The destructor completes what no worker took.
LEMMA DestroyPromised ==
    ASSUME IInv, Placed, Destroy
    PROVE  Placed' /\ Promised
<1> USE DEF outputVars, contextVars, workerVars, mainVars
<1>1. /\ pc[Main] = "idle" /\ input' = <<>>
      /\ UNCHANGED <<output, stack, call, held, after>>
      /\ pc'[Main] = "dead" /\ \A w \in Workers : pc'[w] = pc[w]
      /\ \A t \in Task : stage'[t] = IF stage[t] = "queued" THEN "done" ELSE stage[t]
  BY Types DEF Destroy, MainIdle, Goto
<1>2. InputPlaced'
  <2>1. Len(input') = 0
    BY <1>1, EmptySeq
  <2> QED BY <1>1, <2>1 DEF InputPlaced
<1>3. CallsPlaced' /\ HandsPlaced' /\ Running' = Running
  BY <1>1, CallsFrame, HandsFrame DEF Placed, Executing
<1>4. OutputPlaced' /\ TasksLead' /\ Reported' = Reported
  BY <1>1, OutputFrame DEF Placed, TasksLead
<1>5. StackEmptied' /\ LastUpdate'
  BY <1>1 DEF Placed, StackEmptied, LastUpdate
<1>6. Completed' = Completed \cup {input[i].task : i \in DOMAIN input}
  <2>1. DOMAIN input = 1..Len(input)
    BY Types, LenProperties
  <2>2. \A t \in Task : stage[t] = "queued" <=> \E i \in 1..Len(input) : input[i].task = t
    BY Types DEF Placed, InputPlaced
  <2>3. \A i \in 1..Len(input) : input[i].task \in Task
    BY Types
  <2>4. \A t : t \in Completed' <=>
            t \in Completed \/ \E i \in 1..Len(input) : t = input[i].task
    BY <1>1, <2>2, <2>3 DEF Completed
  <2> QED BY <2>1, <2>4
<1>7. Promise!Abandon
  BY <1>1, <1>3, <1>4, <1>6 DEF Promise!Abandon
<1> QED BY <1>2, <1>3, <1>4, <1>5, <1>7 DEF Placed, Promised, Promise!Next

\* The owner's steps are steps of the promise.
LEMMA MainPromised ==
    ASSUME IInv, Placed, MainStep \/ MainCall \/ WaitSpurious
    PROVE  Placed' /\ Promised
<1> USE DEF inputVars, outputVars, contextVars, workerVars, mainVars
<1>0. pc[Main] # "update" => stack = <<>>
  BY DEF Placed, StackEmptied
<1>1. CASE Updated
  <2>1. /\ pc[Main] = "update" /\ stack = <<>>
        /\ pc'[Main] = after /\ \A w \in Workers : pc'[w] = pc[w]
        /\ UNCHANGED <<input, output, stack, call, held, stage>>
    BY <1>1, Types DEF Updated, Goto
  <2>2. CallsPlaced' /\ StackEmptied'
    BY <2>1, CallsFrame DEF Placed, StackEmptied
  <2>3. LastUpdate'
    <3>1. after # "update"
      BY Types DEF TypeOK
    <3> QED BY <2>1, <3>1 DEF Placed, LastUpdate
  <2> QED BY <2>1, <2>2, <2>3, QuietStep DEF Executing
<1>2. CASE TestCounter
  BY <1>0, <1>2, MainGoesQuiet DEF TestCounter
<1>3. CASE WaitSpurious \/ Wait \/ Finalize \/ CancelWorkers
  BY <1>0, <1>3, MainGoesQuiet DEF WaitSpurious, Wait, Finalize, CancelWorkers, MainIdle
<1>4. CASE WaitExit \/ Waited \/ Join \/ Update \/ WaitForAll
  BY <1>4, TakeOutputQuiet DEF WaitExit, Waited, Join, Update, WaitForAll, MainIdle
<1>5. CASE TimedWait \/ TimedWaitEnd
  BY <1>0, <1>5, TakeOutputQuiet, MainGoesQuiet DEF TimedWait, TimedWaitEnd, MainIdle
<1>6. CASE FinalizeNotify
  BY <1>6, NotifyAllQuiet DEF FinalizeNotify
<1>7. CASE CancelNotify
  BY <1>7, NotifyAllQuiet DEF CancelNotify
<1>8. ASSUME NEW w \in Workers, Release(w) PROVE Placed' /\ Promised
  BY <1>8, MainQuiet DEF Release, Executing
<1>9. CASE DeleteContext
  <2>1. /\ pc[Main] = "delete" /\ pc'[Main] = "idle"
        /\ \A w \in Workers : pc'[w] = IF pc[w] = "done" THEN "none" ELSE pc[w]
        /\ UNCHANGED <<input, output, stack, call, held, stage>>
    BY <1>9, Types DEF DeleteContext
  <2> QED BY <1>0, <2>1, MainQuiet DEF Executing
<1>10. CASE SpawnWorkers
  <2>1. /\ pc[Main] = "idle" /\ pc'[Main] = "idle" /\ ~context
        /\ \A w \in Workers : pc'[w] = "start"
        /\ UNCHANGED <<input, output, stack, call, held, stage>>
    BY <1>10, Types DEF SpawnWorkers, MainIdle
  <2>2. Executing = {}
    BY <2>1 DEF Executing, IInv, WorkersHaveContext
  <2> QED BY <1>0, <2>1, <2>2, MainQuiet
<1> QED BY <1>1, <1>2, <1>3, <1>4, <1>5, <1>6, <1>7, <1>8, <1>9, <1>10,
           CompletePromised, DestroyPromised DEF MainStep, MainCall

-------------------------------------------------------------------------------
LEMMA StutterPromised == Placed /\ UNCHANGED vars => Placed' /\ Promised
BY DEF vars, inputVars, outputVars, contextVars, workerVars, mainVars, Placed, CallsPlaced,
       InputPlaced, HandsPlaced, OutputPlaced, TasksLead, StackEmptied, LastUpdate, Promised,
       Promise!vars, Executing, Running, Reported, Completed

LEMMA InitPlaced == Init => Placed /\ Promise!Init
<1> SUFFICES ASSUME Init PROVE Placed /\ Promise!Init
  OBVIOUS
<1>1. /\ input = <<>> /\ output = <<>> /\ stack = <<>>
      /\ \A th \in Threads : call[th] = NoCall
      /\ \A t \in Task \cup Func : stage[t] = "new"
      /\ \A w \in Workers : pc[w] = "none"
  BY TQAssumption DEF Init
<1>2. Len(input) = 0 /\ Len(output) = 0 /\ Len(stack) = 0
  BY <1>1
<1>3. Executing = {} /\ Completed = {} /\ Running = {}
  BY <1>1 DEF Executing, Completed, Running
<1>4. CallsPlaced /\ HandsPlaced
  BY <1>1, <1>3 DEF CallsPlaced, NoCall, HandsPlaced, Executing
<1>5. InputPlaced /\ OutputPlaced /\ StackEmptied /\ LastUpdate
  BY <1>1, <1>2 DEF InputPlaced, OutputPlaced, StackEmptied, LastUpdate
<1>6. TasksLead
  <2>1. 0 \in 0..Len(stack) /\ \A i \in 1..Len(stack) : FALSE
    BY <1>2
  <2> QED BY <2>1 DEF TasksLead
<1>7. Reported = <<>>
  <2>1. /\ stack \in Seq(Task \cup Func) /\ output \in Seq(Task)
        /\ \A i \in 1..Len(stack) : stack[i] \notin Task
    BY <1>1, <1>2, EmptySeq
  <2>2. Leading(stack, Task) = <<>>
    BY <2>1, LeadingNothing
  <2> QED BY <1>1, <2>1, <2>2, ConcatEmptySeq DEF Reported
<1> QED BY <1>1, <1>3, <1>4, <1>5, <1>6, <1>7 DEF Placed, Promise!Init

LEMMA StepPromised == IInv /\ Placed /\ [Next]_vars => Placed' /\ Promised
<1> SUFFICES ASSUME IInv, Placed, Next PROVE Placed' /\ Promised
  BY StutterPromised
<1> QED BY CallsPromised, WorkerPromised, MainPromised DEF Next

LEMMA PlacedHolds == Spec => []Placed
BY InitPlaced, StepPromised, InvHolds, PTL DEF Spec

\* TaskQueue does what TaskQueueSpec promises: whatever the threads do at once, a
\* task is queued at the place its priority gives it, taken in turn, executed and
\* completed once, and completed in the order of the reports.
THEOREM PromiseHolds == Spec => ImplementsPromise
<1>1. Init => Promise!Init
  BY InitPlaced
<1>2. IInv /\ Placed /\ [Next]_vars => [Promise!Next]_(Promise!vars)
  BY StepPromised DEF Promised
<1> QED BY <1>1, <1>2, InvHolds, PlacedHolds, PTL DEF Spec, ImplementsPromise, Promise!Spec

-------------------------------------------------------------------------------
\* cancelWorkers.

\* When cancelWorkers is about to delete the context, the workers have ended and
\* their last reports are completed.
LEMMA CancelledComplete == IInv /\ Placed => CancelCompletesAll
<1> SUFFICES ASSUME IInv, Placed, pc[Main] = "delete", NEW t \in Task
             PROVE  /\ stage[t] \notin {"taken", "executed"}
                    /\ stage[t] = "output" => t \in Refusing
  BY DEF CancelCompletesAll
<1>1. Executing = {}
  BY Types DEF AllJoined, Executing
<1>2. Len(stack) = 0
  BY EmptySeq DEF Placed, StackEmptied
<1> QED BY <1>1, <1>2 DEF Placed, HandsPlaced, OutputPlaced, LastUpdate

\* What announces the output queues is not lost.
LEMMA AnnouncedFrame ==
    ASSUME OutputAnnounced, output' \o callbacks' = output \o callbacks, woken => woken',
           \A th \in Threads : call[th].at = "signal" => call'[th].at = "signal" \/ woken',
           \A w \in Workers : pc[w] = "signal" /\ held[w] \notin Silent =>
                woken' \/ (pc'[w] = "signal" /\ held'[w] = held[w])
    PROVE  OutputAnnounced'
BY DEF OutputAnnounced

\* A thread's call announces what it adds.
LEMMA CallsAnnounce ==
    ASSUME IInv, OutputAnnounced, NEW th \in Threads, Calls(th) \/ Caller(th)
    PROVE  OutputAnnounced'
<1> USE DEF inputVars, outputVars, contextVars, workerVars, mainVars
<1>1. ASSUME NEW r, call' = [call EXCEPT ![th] = r], call[th].at # "signal",
             UNCHANGED <<output, callbacks, woken, held>>,
             \A w \in Workers : pc[w] = "signal" => pc'[w] = "signal"
      PROVE  OutputAnnounced'
  <2>1. \A x \in Threads : call[x].at = "signal" => call'[x].at = "signal"
    BY <1>1, Types
  <2> QED BY <1>1, <2>1, AnnouncedFrame
<1>2. ASSUME NEW t \in Task, Perform(th, t) PROVE OutputAnnounced'
  <2>1. /\ call[th].at # "signal" /\ \E r : call' = [call EXCEPT ![th] = r]
        /\ UNCHANGED <<output, callbacks, woken, held, pc>>
    BY <1>2 DEF Perform, MayCall, NoCall
  <2> QED BY <1>1, <2>1
<1>3. ASSUME NEW f \in Func, OnMainThread(th, f) PROVE OutputAnnounced'
  <2>1. /\ call[th] = NoCall /\ \E r : call' = [call EXCEPT ![th] = r]
        /\ UNCHANGED <<output, callbacks, woken, held, pc>>
    BY <1>3 DEF OnMainThread, MayCall
  <2>2. call[th].at # "signal"
    BY <2>1 DEF NoCall
  <2> QED BY <1>1, <2>1, <2>2
<1>4. ASSUME NEW first \in BOOLEAN, Push(th, first) PROVE OutputAnnounced'
  BY <1>1, <1>4 DEF Push
<1>5. CASE Notify(th)
  <2>1. \A w \in Workers : pc[w] = "signal" => pc'[w] = "signal"
    <3>1. ASSUME NEW v \in Waiting, pc' = Woken({v}), NEW w \in Workers, pc[w] = "signal"
          PROVE  pc'[w] = "signal"
      BY <3>1, Types, WokenMoves
    <3> QED BY <1>5, <3>1 DEF Notify, NotifyOne
  <2> QED BY <1>1, <1>5, <2>1 DEF Notify
<1>6. CASE Post(th)
  <2>1. call'[th].at = "signal"
    BY <1>6, Types DEF Post
  <2> QED BY <2>1 DEF OutputAnnounced
<1>7. CASE Signal(th)
  BY <1>7 DEF Signal, OutputAnnounced
<1> QED BY <1>2, <1>3, <1>4, <1>5, <1>6, <1>7 DEF Calls, Caller

\* A worker announces its report before it counts the task off.
LEMMA WorkerAnnounces ==
    ASSUME IInv, OutputAnnounced, NEW w \in Workers, Worker(w) \/ Spurious(w)
    PROVE  OutputAnnounced'
<1> USE DEF inputVars, outputVars, contextVars, workerVars, mainVars
<1>1. ASSUME UNCHANGED <<output, callbacks, woken, call>>, pc[w] # "signal",
             NEW label, Goto(w, label), \A v \in Workers \ {w} : held'[v] = held[v]
      PROVE  OutputAnnounced'
  <2>1. \A v \in Workers \ {w} : pc'[v] = pc[v]
    BY <1>1, Types DEF Goto
  <2> QED BY <1>1, <2>1, AnnouncedFrame
<1>2. CASE ThreadInit(w) \/ TestQuit(w)
  BY <1>1, <1>2 DEF ThreadInit, TestQuit
<1>3. CASE PopTask(w, "pop")
  <2>1. \A v \in Workers \ {w} : held'[v] = held[v]
    BY <1>3, Types DEF PopTask
  <2> QED BY <1>1, <1>3, <2>1 DEF PopTask
<1>4. CASE LockInput(w)
  BY <1>1, <1>4 DEF LockInput
<1>5. CASE Block(w) \/ Wake(w) \/ Spurious(w) \/ Executed(w)
  BY <1>1, <1>5 DEF Block, Wake, Spurious, Executed
<1>6. CASE Report(w)
  <2>1. CASE held[w] \in Silent
    BY <1>1, <1>6, <2>1 DEF Report
  <2>2. CASE held[w] \notin Silent
    <3>1. pc'[w] = "signal" /\ held'[w] \notin Silent
      BY <1>6, <2>2, Types DEF Report, Goto
    <3> QED BY <3>1 DEF OutputAnnounced
  <2> QED BY <2>1, <2>2
<1>7. CASE ReportSignal(w)
  <2>1. /\ UNCHANGED <<output, callbacks, call, held>>
        /\ woken' = (woken \/ held[w] \notin Silent)
        /\ \A v \in Workers \ {w} : pc'[v] = pc[v]
    BY <1>7, Types DEF ReportSignal
  <2> QED BY <2>1, AnnouncedFrame
<1>8. CASE Uncount(w)
  <2>1. \A v \in Workers \ {w} : held'[v] = held[v]
    BY <1>8, Types DEF Uncount
  <2> QED BY <1>1, <1>8, <2>1 DEF Uncount
<1> QED BY <1>2, <1>3, <1>4, <1>5, <1>6, <1>7, <1>8 DEF Worker

\* The owner takes the output queues over whole.
LEMMA MainAnnounces ==
    ASSUME IInv, OutputAnnounced, MainStep \/ MainCall \/ WaitSpurious
    PROVE  OutputAnnounced'
<1> USE DEF inputVars, outputVars, contextVars, workerVars, mainVars
<1>1. ASSUME NEW ret, TakeOutput(ret) PROVE OutputAnnounced'
  BY <1>1 DEF TakeOutput, OutputAnnounced
<1>2. ASSUME UNCHANGED <<output, callbacks, woken, call, held>>,
             \A w \in Workers : pc[w] = "signal" => pc'[w] = "signal"
      PROVE  OutputAnnounced'
  BY <1>2, AnnouncedFrame
<1>3. ASSUME UNCHANGED <<output, callbacks, woken, call, held>>,
             NEW label, Goto(Main, label)
      PROVE  OutputAnnounced'
  <2>1. \A w \in Workers : pc'[w] = pc[w]
    BY <1>3, Types DEF Goto
  <2> QED BY <1>2, <1>3, <2>1
<1>4. CASE Complete
  BY <1>2, <1>4 DEF Complete
<1>5. CASE Updated \/ TestCounter
  BY <1>3, <1>5 DEF Updated, TestCounter
<1>6. CASE WaitSpurious \/ Wait \/ Finalize \/ CancelWorkers \/ Destroy
  BY <1>3, <1>6 DEF WaitSpurious, Wait, Finalize, CancelWorkers, Destroy
<1>7. CASE WaitExit \/ Waited \/ Join \/ Update \/ WaitForAll
  BY <1>1, <1>7 DEF WaitExit, Waited, Join, Update, WaitForAll
<1>8. CASE TimedWait \/ TimedWaitEnd
  BY <1>1, <1>3, <1>8 DEF TimedWait, TimedWaitEnd
<1>9. CASE FinalizeNotify \/ CancelNotify
  <2>1. \A w \in Workers : pc[w] = "signal" => pc'[w] = "signal"
    BY <1>9, Types DEF FinalizeNotify, CancelNotify, Woken, Waiting
  <2> QED BY <1>2, <1>9, <2>1 DEF FinalizeNotify, CancelNotify
<1>10. ASSUME NEW w \in Workers, Release(w) PROVE OutputAnnounced'
  BY <1>2, <1>10 DEF Release
<1>11. CASE DeleteContext
  <2>1. \A w \in Workers : pc[w] = "signal" => pc'[w] = "signal"
    BY <1>11, Types DEF DeleteContext
  <2> QED BY <1>2, <1>11, <2>1 DEF DeleteContext
<1>12. CASE SpawnWorkers
  <2>1. \A w \in Workers : pc[w] # "signal"
    BY <1>12 DEF SpawnWorkers, IInv, WorkersHaveContext
  <2> QED BY <1>2, <1>12, <2>1 DEF SpawnWorkers
<1> QED BY <1>4, <1>5, <1>6, <1>7, <1>8, <1>9, <1>10, <1>11, <1>12 DEF MainStep, MainCall

LEMMA OutputAnnouncedHolds == Spec => []OutputAnnounced
<1>1. Init => OutputAnnounced
  BY DEF Init, OutputAnnounced
<1>2. IInv /\ OutputAnnounced /\ [Next]_vars => OutputAnnounced'
  <2> SUFFICES ASSUME IInv, OutputAnnounced, [Next]_vars PROVE OutputAnnounced'
    OBVIOUS
  <2>1. CASE Next
    BY <2>1, CallsAnnounce, WorkerAnnounces, MainAnnounces DEF Next
  <2>2. CASE UNCHANGED vars
    BY <2>2 DEF vars, inputVars, outputVars, contextVars, workerVars, mainVars, OutputAnnounced
  <2> QED BY <2>1, <2>2
<1> QED BY <1>1, <1>2, InvHolds, PTL DEF Spec

\* What workers report and threads post reaches the owner: the wakeup callback has
\* run, or some thread is about to run it; and when cancelWorkers deletes the
\* context, only what Main itself posted in its last update is left.
THEOREM ReportsReachMainHolds == Spec => []ReportsReachMain
<1>1. IInv /\ Placed /\ OutputAnnounced => ReportsReachMain
  BY CancelledComplete DEF ReportsReachMain
<1> QED BY <1>1, InvHolds, PlacedHolds, OutputAnnouncedHolds, PTL

===============================================================================
