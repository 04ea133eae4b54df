------------------------- MODULE EventTaskQueue_proof -------------------------
(***************************************************************************)
(* For every number of threads and tasks: _taskCounter counts the work     *)
(* that is left, the queue's Data has one reference for the queue and one  *)
(* for each worker, tokens in the eventfd are noticed and suffice, and     *)
(* each task goes the way TaskQueueSpec promises.                          *)
(***************************************************************************)
EXTENDS EventTaskQueue, PriorityList_proof

\* A call carries what its step needs.
CallsCarry ==
    \A th \in Threads :
        /\ call[th].at = "push" => call[th].item \in Task
        /\ call[th].at = "post" => call[th].item \in Task \cup Func

HandLabel == {"forward", "execute", "report", "uncount"}

\* A worker has a task in its hands where its next step uses it, and only where
\* it has yet to count it off; it has a token of its own where it uses one.
HandsMatch ==
    \A w \in Workers :
        /\ pc[w] \in HandLabel \ {"forward"} => held[w] \in Task
        /\ held[w] # NULL => pc[w] \in HandLabel
        /\ pc[w] = "pop" => value[w] > 0

\* A worker learns of cancelWorkers from the pipe, and from nothing else.
CancelKnown == \A w \in Workers : closing[w] \/ pipeEdge[w] => pipe

\* The inductive invariant.
IInv == /\ TypeOK
        /\ CallsCarry
        /\ HandsMatch
        /\ CancelKnown
        /\ CounterExact
        /\ RefsExact
        /\ TokensNoticed

-------------------------------------------------------------------------------
\* Steps.

\* There are finitely many threads of each kind.
LEMMA Finite ==
    /\ IsFiniteSet(Submitting) /\ Cardinality(Submitting) \in Nat
    /\ IsFiniteSet(Holding) /\ Cardinality(Holding) \in Nat
    /\ IsFiniteSet(Retaining) /\ Cardinality(Retaining) \in Nat
    /\ IsFiniteSet(Workers) /\ Cardinality(Workers) \in Nat
<1>1. /\ Submitting \subseteq Threads /\ Holding \subseteq Threads
      /\ Retaining \subseteq Threads /\ Workers \subseteq Threads
  BY DEF Submitting, Holding, Retaining, Threads
<1> QED BY <1>1, FS_Subset, FS_CardinalityType, EQAssumption

\* A step that moves no work leaves the count as exact as it was.
LEMMA CounterFrame ==
    ASSUME CounterExact, UNCHANGED <<input, counter>>,
           Submitting' = Submitting, Holding' = Holding
    PROVE  CounterExact'
BY DEF CounterExact

\* A step that starts and ends nobody leaves the references as exact as they were.
LEMMA RefsFrame ==
    ASSUME RefsExact, refs' = refs, Retaining' = Retaining,
           pc'[Main] = "dead" <=> pc[Main] = "dead"
    PROVE  RefsExact'
BY DEF RefsExact

\* A step that touches no token keeps them noticed, unless it is a worker's last.
LEMMA NoticedFrame ==
    ASSUME TokensNoticed, UNCHANGED <<tokens, edge>>, pipe => pipe',
           pipe' \/ Registered' = Registered,
           \A w \in Workers : pc[w] = "read" => pc'[w] = "read"
    PROVE  TokensNoticed'
<1> SUFFICES ASSUME tokens > 0, ~pipe', Registered' # {}
             PROVE  \E w \in Registered' : edge'[w] \/ pc'[w] = "read"
  BY DEF TokensNoticed
<1>1. PICK w \in Registered : edge[w] \/ pc[w] = "read"
  BY DEF TokensNoticed
<1> QED BY <1>1 DEF Registered

\* A written token is noticed by a worker that stays registered.
LEMMA WriteNotices ==
    ASSUME NEW n, Write(n), Registered' = Registered
    PROVE  TokensNoticed'
<1> SUFFICES ASSUME Registered # {} PROVE \E w \in Registered : edge'[w]
  BY DEF TokensNoticed
<1>1. PICK W \in SUBSET Registered :
        /\ IF Polling = {} THEN W = Registered ELSE W \cap Polling # {}
        /\ edge' = [w \in Workers |-> edge[w] \/ w \in W]
  BY DEF Write
<1>2. PICK w \in W : TRUE
  BY <1>1
<1> QED BY <1>1, <1>2 DEF Registered

LEMMA WriteType ==
    ASSUME TypeOK, NEW n \in Nat, Write(n)
    PROVE  tokens' \in Nat /\ edge' \in [Workers -> BOOLEAN]
<1>1. tokens' \in Nat
  BY DEF Write, TypeOK
<1>2. PICK W : edge' = [w \in Workers |-> edge[w] \/ w \in W]
  BY DEF Write
<1>3. edge' \in [Workers -> BOOLEAN]
  BY <1>2, Zenon
<1> QED BY <1>1, <1>3

\* What joins an output queue is of its kind.
LEMMA EmitType ==
    ASSUME TypeOK, NEW x \in Task \cup Func, Emit(x)
    PROVE  /\ output' \in Seq(Task) /\ callbacks' \in Seq(Func)
           /\ stage' \in [Task \cup Func -> Stage]
<1>1. stage' \in [Task \cup Func -> Stage]
  BY DEF TypeOK, Emit, Stage
<1>2. output \in Seq(Task) /\ callbacks \in Seq(Func)
  BY DEF TypeOK
<1>3. x \in Task => output' \in Seq(Task) /\ callbacks' \in Seq(Func)
  BY <1>2, AppendProperties DEF Emit
<1>4. x \notin Task => output' \in Seq(Task) /\ callbacks' \in Seq(Func)
  BY <1>2, AppendProperties DEF Emit
<1> QED BY <1>1, <1>3, <1>4

-------------------------------------------------------------------------------
LEMMA InitInv == Init => IInv
<1> SUFFICES ASSUME Init PROVE IInv
  OBVIOUS
<1> USE DEF Init
<1>1. Main \notin Workers
  BY EQAssumption
<1>2. \A w \in Workers : pc[w] = "none"
  BY <1>1
<1>3. \A th \in Threads : call[th].at = "none"
  BY DEF NoCall
<1>4. TypeOK
  <2>1. pc \in [Workers \cup {Main} -> WorkerLabel \cup MainLabel]
    BY DEF WorkerLabel, MainLabel
  <2>2. call \in [Threads -> Call]
    BY DEF NoCall, Call
  <2>3. stage \in [Task \cup Func -> Stage]
    BY DEF Stage
  <2>4. /\ input \in Seq(InputEntry) /\ output \in Seq(Task)
        /\ callbacks \in Seq(Func) /\ stack \in Seq(Task \cup Func)
    BY EmptySeq
  <2> QED BY <2>1, <2>2, <2>3, <2>4 DEF TypeOK
<1>5. CallsCarry
  BY <1>3 DEF CallsCarry
<1>6. HandsMatch /\ CancelKnown
  BY <1>2 DEF HandsMatch, HandLabel, CancelKnown
<1>7. Submitting = {} /\ Holding = {} /\ Retaining = {} /\ Registered = {}
  BY <1>2, <1>3 DEF Submitting, Holding, Retaining, Registered
<1>8. CounterExact
  BY <1>7, FS_EmptySet DEF CounterExact
<1>9. RefsExact
  <2>1. pc[Main] = "idle"
    OBVIOUS
  <2> QED BY <1>7, <2>1, FS_EmptySet DEF RefsExact
<1>10. TokensNoticed
  BY DEF TokensNoticed
<1> QED BY <1>4, <1>5, <1>6, <1>8, <1>9, <1>10 DEF IInv

-------------------------------------------------------------------------------
\* What a thread's call leaves as it was.
LEMMA CallMoves ==
    ASSUME IInv, NEW th \in Threads, NEW r \in Call, call' = [call EXCEPT ![th] = r],
           r.at = "push" => r.item \in Task,
           r.at = "post" => r.item \in Task \cup Func,
           UNCHANGED <<pc, cancelVars, workerVars>>
    PROVE  /\ call' \in [Threads -> Call]
           /\ CallsCarry' /\ HandsMatch' /\ CancelKnown' /\ RefsExact'
           /\ Holding' = Holding /\ Registered' = Registered
           /\ Submitting' = IF r.at = "push" THEN Submitting \cup {th}
                                             ELSE Submitting \ {th}
<1> USE DEF cancelVars, workerVars
<1>1. call \in [Threads -> Call]
  BY DEF IInv, TypeOK
<1>2. call' \in [Threads -> Call]
  BY <1>1
<1>3. CallsCarry'
  BY <1>1 DEF IInv, CallsCarry
<1>4. HandsMatch' /\ CancelKnown' /\ RefsExact'
  BY DEF IInv, HandsMatch, CancelKnown, RefsExact, Retaining
<1>5. Holding' = Holding /\ Registered' = Registered
  BY DEF Holding, Registered
<1>6. Submitting' = IF r.at = "push" THEN Submitting \cup {th} ELSE Submitting \ {th}
  BY <1>1 DEF Submitting
<1> QED BY <1>2, <1>3, <1>4, <1>5, <1>6

\* perform and onMainThread keep the invariant.
LEMMA CallsKeepInv ==
    ASSUME IInv, NEW th \in Threads, Calls(th) \/ Caller(th)
    PROVE  IInv'
<1> USE DEF queueVars, eventVars, mainVars, cancelVars, workerVars
<1>0. /\ TypeOK /\ CallsCarry /\ CounterExact /\ TokensNoticed
      /\ stage \in [Task \cup Func -> Stage]
      /\ counter \in Nat /\ Len(input) \in Nat
  BY LenProperties DEF IInv, TypeOK
<1>1. ASSUME NEW x \in Task \cup Func, call[th] = NoCall,
             call' = [call EXCEPT ![th] = [at |-> "post", item |-> x]],
             stage' = [stage EXCEPT ![x] = "refused"],
             UNCHANGED <<queueVars, eventVars, mainVars, cancelVars, workerVars, pc, stack>>
      PROVE  IInv'
  <2>1. [at |-> "post", item |-> x] \in Call
    BY DEF Call
  <2>2. /\ call' \in [Threads -> Call]
        /\ CallsCarry' /\ HandsMatch' /\ CancelKnown' /\ RefsExact'
        /\ Holding' = Holding /\ Registered' = Registered
        /\ Submitting' = Submitting \ {th}
    BY <1>1, <2>1, CallMoves
  <2>3. Submitting' = Submitting
    BY <1>1, <2>2 DEF Submitting, NoCall
  <2>4. stage' \in [Task \cup Func -> Stage]
    BY <1>0, <1>1 DEF Stage
  <2>5. TypeOK'
    BY <1>0, <1>1, <2>2, <2>4 DEF TypeOK
  <2>6. CounterExact' /\ TokensNoticed'
    BY <1>0, <1>1, <2>2, <2>3, CounterFrame, NoticedFrame
  <2> QED BY <2>2, <2>5, <2>6 DEF IInv
<1>2. ASSUME NEW t \in Task, Perform(th, t), t \notin Refusing
      PROVE  IInv'
  <2>1. /\ call[th] = NoCall
        /\ call' = [call EXCEPT ![th] = [at |-> "push", item |-> t]]
        /\ stage' = [stage EXCEPT ![t] = "counted"]
        /\ counter' = counter + 1
        /\ UNCHANGED <<input, output, callbacks, eventVars, mainVars, cancelVars,
                       workerVars, pc, stack>>
    BY <1>2 DEF Perform, MayCall
  <2>2. [at |-> "push", item |-> t] \in Call
    BY DEF Call
  <2>3. /\ call' \in [Threads -> Call]
        /\ CallsCarry' /\ HandsMatch' /\ CancelKnown' /\ RefsExact'
        /\ Holding' = Holding /\ Registered' = Registered
        /\ Submitting' = Submitting \cup {th}
    BY <2>1, <2>2, CallMoves
  <2>4. stage' \in [Task \cup Func -> Stage]
    BY <1>0, <2>1 DEF Stage
  <2>5. TypeOK'
    BY <1>0, <2>1, <2>3, <2>4 DEF TypeOK
  <2>6. Cardinality(Submitting') = Cardinality(Submitting) + 1
    <3>1. th \notin Submitting
      BY <2>1 DEF Submitting, NoCall
    <3> QED BY <2>3, <3>1, Finite, AddOne
  <2>7. CounterExact'
    BY <1>0, <2>1, <2>3, <2>6, Finite DEF CounterExact
  <2>8. TokensNoticed'
    BY <1>0, <2>1, <2>3, NoticedFrame
  <2> QED BY <2>3, <2>5, <2>7, <2>8 DEF IInv
<1>3. ASSUME NEW t \in Task, Perform(th, t)
      PROVE  IInv'
  <2>1. CASE t \in Refusing
    BY <1>1, <1>3, <2>1 DEF Perform, MayCall
  <2> QED BY <1>2, <1>3, <2>1
<1>4. ASSUME NEW f \in Func, OnMainThread(th, f)
      PROVE  IInv'
  BY <1>1, <1>4 DEF OnMainThread, MayCall
<1>5. ASSUME NEW first \in BOOLEAN, Push(th, first)
      PROVE  IInv'
  <2> DEFINE t == call[th].item
  <2>1. /\ call[th].at = "push"
        /\ call' = [call EXCEPT ![th] = [at |-> "write", item |-> t]]
        /\ stage' = [stage EXCEPT ![t] = "queued"]
        /\ UNCHANGED <<counter, output, callbacks, eventVars, mainVars, cancelVars,
                       workerVars, pc, stack>>
    BY <1>5 DEF Push
  <2>2. t \in Task
    BY <1>0, <2>1 DEF CallsCarry
  <2>3. PICK k \in 1..Len(input) + 1 :
          input' = InsertedAt(input, k, [prio |-> Prio[t], task |-> t])
    BY <1>5 DEF Push
  <2>4. input' \in Seq(InputEntry) /\ Len(input') = Len(input) + 1
    <3>1. input \in Seq(InputEntry)
      BY <1>0 DEF TypeOK
    <3>2. [prio |-> Prio[t], task |-> t] \in InputEntry
      BY <2>2, EQAssumption DEF InputEntry
    <3> QED BY <2>3, <3>1, <3>2, InsertedAtType
  <2>5. [at |-> "write", item |-> t] \in Call
    BY <2>2 DEF Call
  <2>6. /\ call' \in [Threads -> Call]
        /\ CallsCarry' /\ HandsMatch' /\ CancelKnown' /\ RefsExact'
        /\ Holding' = Holding /\ Registered' = Registered
        /\ Submitting' = Submitting \ {th}
    BY <2>1, <2>5, CallMoves
  <2>7. stage' \in [Task \cup Func -> Stage]
    BY <1>0, <2>1, <2>2 DEF Stage
  <2>8. TypeOK'
    BY <1>0, <2>1, <2>4, <2>6, <2>7 DEF TypeOK
  <2>9. Cardinality(Submitting') = Cardinality(Submitting) - 1
    <3>1. th \in Submitting
      BY <2>1 DEF Submitting
    <3> QED BY <2>6, <3>1, Finite, RemoveOne
  <2>10. CounterExact'
    BY <1>0, <2>1, <2>4, <2>6, <2>9, Finite DEF CounterExact
  <2>11. TokensNoticed'
    BY <1>0, <2>1, <2>6, NoticedFrame
  <2> QED BY <2>6, <2>8, <2>10, <2>11 DEF IInv
<1>6. ASSUME NEW r \in Call, r.at \notin {"push", "post"}, call[th].at # "push",
             call' = [call EXCEPT ![th] = r],
             UNCHANGED <<input, counter, pc, cancelVars, workerVars, stack>>
      PROVE  /\ call' \in [Threads -> Call]
             /\ CallsCarry' /\ HandsMatch' /\ CancelKnown' /\ RefsExact' /\ CounterExact'
             /\ Registered' = Registered
  <2>1. /\ call' \in [Threads -> Call]
        /\ CallsCarry' /\ HandsMatch' /\ CancelKnown' /\ RefsExact'
        /\ Holding' = Holding /\ Registered' = Registered
        /\ Submitting' = Submitting \ {th}
    BY <1>6, CallMoves
  <2>2. Submitting' = Submitting
    BY <1>6, <2>1 DEF Submitting
  <2> QED BY <1>0, <1>6, <2>1, <2>2, CounterFrame
<1>7. NoCall \in Call
  BY DEF NoCall, Call
<1>8. CASE WriteToken(th)
  <2>1. /\ call[th].at = "write" /\ Write(1)
        /\ call' = [call EXCEPT ![th] = NoCall]
        /\ UNCHANGED <<queueVars, mainVars, cancelVars, workerVars, pc, stack, stage>>
    BY <1>8 DEF WriteToken
  <2>2. /\ call' \in [Threads -> Call]
        /\ CallsCarry' /\ HandsMatch' /\ CancelKnown' /\ RefsExact' /\ CounterExact'
        /\ Registered' = Registered
    BY <1>6, <1>7, <2>1 DEF NoCall
  <2>3. tokens' \in Nat /\ edge' \in [Workers -> BOOLEAN]
    BY <1>0, <2>1, WriteType
  <2>4. TypeOK'
    BY <1>0, <2>1, <2>2, <2>3 DEF TypeOK
  <2>5. TokensNoticed'
    BY <2>1, <2>2, WriteNotices
  <2> QED BY <2>2, <2>4, <2>5 DEF IInv
<1>9. CASE Post(th)
  <2> DEFINE x == call[th].item
  <2>1. /\ call[th].at = "post" /\ Emit(x)
        /\ call' = [call EXCEPT ![th] = [at |-> "signal", item |-> x]]
        /\ UNCHANGED <<input, counter, eventVars, mainVars, cancelVars, workerVars, pc,
                       stack>>
    BY <1>9 DEF Post
  <2>2. x \in Task \cup Func
    BY <1>0, <2>1 DEF CallsCarry
  <2>3. [at |-> "signal", item |-> x] \in Call
    BY <2>2 DEF Call
  <2>4. /\ call' \in [Threads -> Call]
        /\ CallsCarry' /\ HandsMatch' /\ CancelKnown' /\ RefsExact' /\ CounterExact'
        /\ Registered' = Registered
    BY <1>6, <2>1, <2>3
  <2>5. /\ output' \in Seq(Task) /\ callbacks' \in Seq(Func)
        /\ stage' \in [Task \cup Func -> Stage]
    BY <1>0, <2>1, <2>2, EmitType
  <2>6. TypeOK'
    BY <1>0, <2>1, <2>4, <2>5 DEF TypeOK
  <2>7. TokensNoticed'
    BY <1>0, <2>1, <2>4, NoticedFrame
  <2> QED BY <2>4, <2>6, <2>7 DEF IInv
<1>10. CASE Signal(th)
  <2>1. /\ call[th].at = "signal" /\ Wakeup
        /\ call' = [call EXCEPT ![th] = NoCall]
        /\ UNCHANGED <<queueVars, eventVars, cancelVars, workerVars, pc, stack, stage>>
    BY <1>10 DEF Signal
  <2>2. /\ call' \in [Threads -> Call]
        /\ CallsCarry' /\ HandsMatch' /\ CancelKnown' /\ RefsExact' /\ CounterExact'
        /\ Registered' = Registered
    BY <1>6, <1>7, <2>1 DEF NoCall
  <2>3. mainEvent' \in BOOLEAN /\ mainEdge' \in BOOLEAN
    BY <2>1, Zenon DEF Wakeup
  <2>4. TypeOK'
    BY <1>0, <2>1, <2>2, <2>3 DEF TypeOK
  <2>5. TokensNoticed'
    BY <1>0, <2>1, <2>2, NoticedFrame
  <2> QED BY <2>2, <2>4, <2>5 DEF IInv
<1> QED BY <1>3, <1>4, <1>5, <1>8, <1>9, <1>10 DEF Calls, Caller

-------------------------------------------------------------------------------
\* What a worker's step from one label to another leaves as it was, as long as its
\* thread has neither just started nor ended.
LEMMA WorkerMoves ==
    ASSUME IInv, NEW w \in Workers, NEW label \in WorkerLabel \ {"none", "start", "done"},
           pc[w] \notin {"none", "done"}, Goto(w, label),
           UNCHANGED <<refs, call>>,
           held' \in [Workers -> Task \cup {NULL}], value' \in [Workers -> Nat],
           \A v \in Workers \ {w} : held'[v] = held[v] /\ value'[v] = value[v],
           label \in HandLabel \ {"forward"} => held'[w] \in Task,
           held'[w] # NULL => label \in HandLabel,
           label = "pop" => value'[w] > 0
    PROVE  /\ pc' \in [Workers \cup {Main} -> WorkerLabel \cup MainLabel]
           /\ pc'[Main] = pc[Main]
           /\ \A v \in Workers : pc'[v] = IF v = w THEN label ELSE pc[v]
           /\ Submitting' = Submitting
           /\ CallsCarry' /\ HandsMatch' /\ RefsExact'
           /\ label # "dispose" /\ pc[w] \notin {"start", "dispose"} =>
                Registered' = Registered
<1>0. /\ TypeOK /\ CallsCarry /\ HandsMatch /\ RefsExact
      /\ pc \in [Workers \cup {Main} -> WorkerLabel \cup MainLabel]
      /\ Main \notin Workers
  BY EQAssumption DEF IInv, TypeOK
<1>1. /\ pc' \in [Workers \cup {Main} -> WorkerLabel \cup MainLabel]
      /\ pc'[Main] = pc[Main]
      /\ \A v \in Workers : pc'[v] = IF v = w THEN label ELSE pc[v]
  BY <1>0 DEF Goto
<1>2. Submitting' = Submitting /\ CallsCarry'
  BY <1>0 DEF Submitting, CallsCarry
<1>3. HandsMatch'
  BY <1>0, <1>1 DEF HandsMatch
<1>4. RefsExact'
  <2>1. Retaining' = Retaining
    BY <1>1 DEF Retaining
  <2> QED BY <1>0, <1>1, <2>1, RefsFrame
<1>5. label # "dispose" /\ pc[w] \notin {"start", "dispose"} => Registered' = Registered
  BY <1>1 DEF Registered
<1> QED BY <1>1, <1>2, <1>3, <1>4, <1>5

\* A worker that ends its round does so with its eyes open: it leaves only after
\* cancelWorkers.
LEMMA RoundLabel ==
    ASSUME CancelKnown, NEW w \in Workers
    PROVE  \E label \in {"poll", "dispose"} :
             /\ label = IF closing[w] THEN "dispose" ELSE "poll"
             /\ RoundEnds(w) => Goto(w, label)
             /\ label = "dispose" => pipe
BY DEF CancelKnown, RoundEnds

\* A worker's step keeps the invariant.
LEMMA WorkerKeepsInv ==
    ASSUME IInv, NEW w \in Workers, Worker(w)
    PROVE  IInv'
<1> USE DEF queueVars, eventVars, mainVars, cancelVars, workerVars
<1>0. /\ TypeOK /\ HandsMatch /\ CancelKnown /\ CounterExact /\ RefsExact /\ TokensNoticed
      /\ pc \in [Workers \cup {Main} -> WorkerLabel \cup MainLabel]
      /\ held \in [Workers -> Task \cup {NULL}] /\ value \in [Workers -> Nat]
      /\ edge \in [Workers -> BOOLEAN] /\ pipeEdge \in [Workers -> BOOLEAN]
      /\ closing \in [Workers -> BOOLEAN] /\ pipe \in BOOLEAN
      /\ stage \in [Task \cup Func -> Stage]
      /\ input \in Seq(InputEntry) /\ Len(input) \in Nat
      /\ counter \in Nat /\ tokens \in Nat /\ refs \in Nat
      /\ Main \notin Workers /\ NULL \notin Task
  BY EQAssumption, LenProperties DEF IInv, TypeOK
\* A step that takes no task and counts none off.
<1>1. ASSUME NEW label \in WorkerLabel \ {"none", "start", "done"},
             pc[w] \notin {"none", "done"}, Goto(w, label),
             UNCHANGED <<input, counter, held, refs, call>>,
             value' \in [Workers -> Nat], \A v \in Workers \ {w} : value'[v] = value[v],
             label \in HandLabel \ {"forward"} => held[w] \in Task,
             held[w] # NULL => label \in HandLabel,
             label = "pop" => value'[w] > 0
      PROVE  /\ pc' \in [Workers \cup {Main} -> WorkerLabel \cup MainLabel]
             /\ \A v \in Workers : pc'[v] = IF v = w THEN label ELSE pc[v]
             /\ CallsCarry' /\ HandsMatch' /\ RefsExact' /\ CounterExact'
             /\ label # "dispose" /\ pc[w] \notin {"start", "dispose"} =>
                  Registered' = Registered
  <2>1. /\ pc' \in [Workers \cup {Main} -> WorkerLabel \cup MainLabel]
        /\ \A v \in Workers : pc'[v] = IF v = w THEN label ELSE pc[v]
        /\ Submitting' = Submitting
        /\ CallsCarry' /\ HandsMatch' /\ RefsExact'
        /\ label # "dispose" /\ pc[w] \notin {"start", "dispose"} =>
             Registered' = Registered
    BY <1>0, <1>1, WorkerMoves
  <2>2. Holding' = Holding
    BY <1>1 DEF Holding
  <2>3. CounterExact'
    BY <1>0, <1>1, <2>1, <2>2, CounterFrame
  <2> QED BY <2>1, <2>3
<1>2. CASE Register(w)
  <2>1. /\ pc[w] = "start" /\ Goto(w, "poll")
        /\ pipeEdge' = [pipeEdge EXCEPT ![w] = pipe]
        /\ edge' = [edge EXCEPT ![w] = tokens > 0]
        /\ UNCHANGED <<queueVars, tokens, mainVars, pipe, refs, workerVars, call, stack,
                       stage>>
    BY <1>2 DEF Register
  <2>2. held[w] = NULL
    BY <1>0, <2>1 DEF HandsMatch, HandLabel
  <2>3. /\ pc' \in [Workers \cup {Main} -> WorkerLabel \cup MainLabel]
        /\ \A v \in Workers : pc'[v] = IF v = w THEN "poll" ELSE pc[v]
        /\ CallsCarry' /\ HandsMatch' /\ RefsExact' /\ CounterExact'
    BY <1>0, <1>1, <2>1, <2>2 DEF WorkerLabel, HandLabel
  <2>4. edge' \in [Workers -> BOOLEAN] /\ pipeEdge' \in [Workers -> BOOLEAN]
    BY <1>0, <2>1
  <2>5. TypeOK'
    BY <1>0, <2>1, <2>3, <2>4 DEF TypeOK
  <2>6. CancelKnown'
    BY <1>0, <2>1 DEF CancelKnown
  <2>7. TokensNoticed'
    <3>1. edge'[w] = (tokens > 0) /\ w \in Registered'
      BY <1>0, <2>1, <2>3 DEF Registered
    <3> QED BY <2>1, <3>1 DEF TokensNoticed
  <2> QED BY <2>3, <2>5, <2>6, <2>7 DEF IInv
<1>3. CASE PollEvents(w)
  <2> DEFINE label == IF edge[w] /\ tokens > 0 THEN "read" ELSE "dispose"
  <2>1. /\ pc[w] = "poll" /\ Goto(w, label)
        /\ edge[w] \/ pipeEdge[w]
        /\ pipeEdge[w] \/ tokens > 0
        /\ edge' = [edge EXCEPT ![w] = FALSE]
        /\ pipeEdge' = [pipeEdge EXCEPT ![w] = FALSE]
        /\ closing' = [closing EXCEPT ![w] = pipeEdge[w]]
        /\ UNCHANGED <<queueVars, tokens, mainVars, pipe, refs, value, held, call, stack,
                       stage>>
    BY <1>3 DEF PollEvents, EpollWait
  <2>2. held[w] = NULL
    BY <1>0, <2>1 DEF HandsMatch, HandLabel
  <2>3. /\ pc' \in [Workers \cup {Main} -> WorkerLabel \cup MainLabel]
        /\ \A v \in Workers : pc'[v] = IF v = w THEN label ELSE pc[v]
        /\ CallsCarry' /\ HandsMatch' /\ RefsExact' /\ CounterExact'
        /\ label # "dispose" => Registered' = Registered
    <3>1. label \in {"read", "dispose"}
      OBVIOUS
    <3> HIDE DEF label
    <3> QED BY <1>0, <1>1, <2>1, <2>2, <3>1 DEF WorkerLabel, HandLabel
  <2>4. /\ edge' \in [Workers -> BOOLEAN] /\ pipeEdge' \in [Workers -> BOOLEAN]
        /\ closing' \in [Workers -> BOOLEAN]
    BY <1>0, <2>1
  <2>5. TypeOK'
    BY <1>0, <2>1, <2>3, <2>4 DEF TypeOK
  <2>6. CancelKnown'
    BY <1>0, <2>1 DEF CancelKnown
  <2>7. TokensNoticed'
    <3>1. CASE edge[w] /\ tokens > 0
      <4>1. pc'[w] = "read" /\ w \in Registered'
        BY <2>3, <3>1 DEF Registered
      <4> QED BY <4>1 DEF TokensNoticed
    <3>2. CASE ~edge[w]
      <4>1. pipe'
        BY <1>0, <2>1, <3>2 DEF CancelKnown
      <4> QED BY <4>1 DEF TokensNoticed
    <3>3. CASE ~(tokens > 0)
      BY <2>1, <3>3 DEF TokensNoticed
    <3> QED BY <3>1, <3>2, <3>3
  <2> QED BY <2>3, <2>5, <2>6, <2>7 DEF IInv
<1>4. CASE PollNothing(w)
  <2>1. /\ tokens = 0
        /\ edge' = [edge EXCEPT ![w] = FALSE]
        /\ pipeEdge' = [pipeEdge EXCEPT ![w] = FALSE]
        /\ UNCHANGED <<queueVars, tokens, mainVars, pipe, refs, workerVars, pc, call,
                       stack, stage>>
    BY <1>4 DEF PollNothing, EpollWait
  <2>2. edge' \in [Workers -> BOOLEAN] /\ pipeEdge' \in [Workers -> BOOLEAN]
    BY <1>0, <2>1
  <2>3. TypeOK'
    BY <1>0, <2>1, <2>2 DEF TypeOK
  <2>4. CallsCarry' /\ HandsMatch' /\ CounterExact' /\ RefsExact'
    BY <2>1 DEF IInv, CallsCarry, HandsMatch, CounterExact, Submitting, Holding,
                RefsExact, Retaining
  <2>5. CancelKnown' /\ TokensNoticed'
    BY <1>0, <2>1 DEF CancelKnown, TokensNoticed
  <2> QED BY <2>3, <2>4, <2>5 DEF IInv
\* The round's end, after a step that touches no token, or after a write.
<1>5. PICK over \in {"poll", "dispose"} :
        /\ over = IF closing[w] THEN "dispose" ELSE "poll"
        /\ RoundEnds(w) => Goto(w, over)
        /\ over = "dispose" => pipe
  BY <1>0, RoundLabel
<1>6. CASE Read(w)
  <2> DEFINE label == IF tokens > 0 THEN "pop" ELSE over
  <2>1. /\ pc[w] = "read" /\ Goto(w, label)
        /\ value' = [value EXCEPT ![w] = tokens]
        /\ tokens' = 0
        /\ UNCHANGED <<queueVars, edge, mainVars, cancelVars, closing, held, call, stack,
                       stage>>
    BY <1>5, <1>6 DEF Read
  <2>2. held[w] = NULL
    BY <1>0, <2>1 DEF HandsMatch, HandLabel
  <2>3. /\ value' \in [Workers -> Nat]
        /\ \A v \in Workers \ {w} : value'[v] = value[v]
        /\ label = "pop" => value'[w] > 0
    BY <1>0, <1>5, <2>1
  <2>4. /\ pc' \in [Workers \cup {Main} -> WorkerLabel \cup MainLabel]
        /\ CallsCarry' /\ HandsMatch' /\ RefsExact' /\ CounterExact'
    <3>1. label \in {"pop", "poll", "dispose"}
      OBVIOUS
    <3> HIDE DEF label
    <3> QED BY <1>0, <1>1, <2>1, <2>2, <2>3, <3>1 DEF WorkerLabel, HandLabel
  <2>5. TypeOK'
    BY <1>0, <2>1, <2>3, <2>4 DEF TypeOK
  <2>6. CancelKnown' /\ TokensNoticed'
    BY <1>0, <2>1 DEF CancelKnown, TokensNoticed
  <2> QED BY <2>4, <2>5, <2>6 DEF IInv
<1>7. CASE Pop(w)
  <2>1. /\ pc[w] = "pop" /\ value[w] > 0 /\ held[w] = NULL
        /\ value' = [value EXCEPT ![w] = @ - 1]
        /\ UNCHANGED <<counter, output, callbacks, eventVars, mainVars, cancelVars,
                       closing, call, stack>>
    BY <1>0, <1>7 DEF Pop, HandsMatch, HandLabel
  <2>2. /\ value' \in [Workers -> Nat]
        /\ \A v \in Workers \ {w} : value'[v] = value[v]
    BY <1>0, <2>1
  <2>3. CancelKnown'
    BY <1>0, <2>1 DEF CancelKnown
  <2>4. CASE input = <<>> /\ AfterPop(w, NULL) /\ UNCHANGED <<input, held, stage>>
    <3>1. PICK label \in {"forward", "poll", "dispose"} :
            Goto(w, label) /\ (label = "dispose" => pipe)
      BY <1>5, <2>4 DEF AfterPop
    <3>2. /\ pc' \in [Workers \cup {Main} -> WorkerLabel \cup MainLabel]
          /\ \A v \in Workers : pc'[v] = IF v = w THEN label ELSE pc[v]
          /\ CallsCarry' /\ HandsMatch' /\ RefsExact' /\ CounterExact'
          /\ label # "dispose" => Registered' = Registered
      BY <1>0, <1>1, <2>1, <2>2, <2>4, <3>1 DEF WorkerLabel, HandLabel
    <3>3. TypeOK'
      BY <1>0, <2>1, <2>2, <2>4, <3>2 DEF TypeOK
    <3>4. TokensNoticed'
      BY <1>0, <2>1, <3>1, <3>2, NoticedFrame
    <3> QED BY <2>3, <3>2, <3>3, <3>4 DEF IInv
  <2>5. CASE /\ input # <<>>
             /\ AfterPop(w, Head(input).task)
             /\ input' = Tail(input)
             /\ held' = [held EXCEPT ![w] = Head(input).task]
             /\ stage' = [stage EXCEPT ![Head(input).task] = "taken"]
    <3> DEFINE t == Head(input).task
    <3>1. /\ t \in Task /\ t # NULL
          /\ input' \in Seq(InputEntry) /\ Len(input') = Len(input) - 1
      <4>1. /\ Head(input) \in InputEntry
            /\ input' \in Seq(InputEntry) /\ Len(input') = Len(input) - 1
        BY <1>0, <2>5, HeadTailProperties
      <4> QED BY <1>0, <4>1 DEF InputEntry
    <3> HIDE DEF t
    <3>2. PICK label \in {"forward", "execute"} : Goto(w, label)
      BY <2>5, <3>1 DEF AfterPop, t
    <3>3. held' = [held EXCEPT ![w] = t] /\ stage' = [stage EXCEPT ![t] = "taken"]
      BY <2>5 DEF t
    <3>4. /\ held' \in [Workers -> Task \cup {NULL}] /\ held'[w] = t
          /\ \A v \in Workers \ {w} : held'[v] = held[v]
          /\ stage' \in [Task \cup Func -> Stage]
      BY <1>0, <3>1, <3>3 DEF Stage
    <3>5. /\ pc' \in [Workers \cup {Main} -> WorkerLabel \cup MainLabel]
          /\ \A v \in Workers : pc'[v] = IF v = w THEN label ELSE pc[v]
          /\ Submitting' = Submitting
          /\ CallsCarry' /\ HandsMatch' /\ RefsExact'
          /\ Registered' = Registered
      BY <1>0, <2>1, <2>2, <3>1, <3>2, <3>4, WorkerMoves DEF WorkerLabel, HandLabel
    <3>6. TypeOK'
      BY <1>0, <2>1, <2>2, <3>1, <3>4, <3>5 DEF TypeOK
    <3>7. Cardinality(Holding') = Cardinality(Holding) + 1
      <4>1. w \notin Holding /\ Holding' = Holding \cup {w}
        BY <2>1, <3>1, <3>4 DEF Holding
      <4> QED BY <4>1, Finite, AddOne
    <3>8. CounterExact'
      BY <1>0, <2>1, <3>1, <3>5, <3>7, Finite DEF CounterExact
    <3>9. TokensNoticed'
      BY <1>0, <2>1, <3>5, NoticedFrame
    <3> QED BY <2>3, <3>5, <3>6, <3>8, <3>9 DEF IInv
  <2> QED BY <1>7, <2>4, <2>5 DEF Pop
<1>8. CASE Forward(w)
  <2>1. /\ pc[w] = "forward" /\ Write(value[w])
        /\ value' = [value EXCEPT ![w] = 0]
        /\ UNCHANGED <<queueVars, mainVars, cancelVars, closing, held, call, stack, stage>>
    BY <1>8 DEF Forward
  <2>2. PICK label \in {"execute", "poll", "dispose"} :
          /\ Goto(w, label)
          /\ label = "execute" <=> held[w] # NULL
          /\ label = "dispose" => pipe
    BY <1>5, <1>8 DEF Forward
  <2>3. /\ value' \in [Workers -> Nat]
        /\ \A v \in Workers \ {w} : value'[v] = value[v]
    BY <1>0, <2>1
  <2>4. /\ pc' \in [Workers \cup {Main} -> WorkerLabel \cup MainLabel]
        /\ CallsCarry' /\ HandsMatch' /\ RefsExact' /\ CounterExact'
        /\ label # "dispose" => Registered' = Registered
    BY <1>0, <1>1, <2>1, <2>2, <2>3 DEF WorkerLabel, HandLabel
  <2>5. tokens' \in Nat /\ edge' \in [Workers -> BOOLEAN]
    BY <1>0, <2>1, WriteType
  <2>6. TypeOK'
    BY <1>0, <2>1, <2>3, <2>4, <2>5 DEF TypeOK
  <2>7. CancelKnown'
    BY <1>0, <2>1 DEF CancelKnown
  <2>8. TokensNoticed'
    <3>1. CASE label = "dispose"
      BY <2>1, <2>2, <3>1 DEF TokensNoticed
    <3>2. CASE label # "dispose"
      BY <2>1, <2>4, <3>2, WriteNotices
    <3> QED BY <3>1, <3>2
  <2> QED BY <2>4, <2>6, <2>7, <2>8 DEF IInv
\* The steps that leave the tokens and the worker's own share of them alone.
<1>9. ASSUME NEW label \in WorkerLabel \ {"none", "start", "done"},
             pc[w] \notin {"none", "start", "read", "dispose", "done"}, Goto(w, label),
             UNCHANGED <<input, counter, held, call, cancelVars, eventVars, closing, value,
                         stack>>,
             label \in HandLabel \ {"forward"} => held[w] \in Task,
             held[w] # NULL => label \in HandLabel,
             label # "pop",
             label = "dispose" => pipe,
             output' \in Seq(Task), callbacks' \in Seq(Func),
             mainEvent' \in BOOLEAN, mainEdge' \in BOOLEAN,
             stage' \in [Task \cup Func -> Stage]
      PROVE  IInv'
  <2>1. /\ pc' \in [Workers \cup {Main} -> WorkerLabel \cup MainLabel]
        /\ \A v \in Workers : pc'[v] = IF v = w THEN label ELSE pc[v]
        /\ CallsCarry' /\ HandsMatch' /\ RefsExact' /\ CounterExact'
        /\ label # "dispose" => Registered' = Registered
    BY <1>0, <1>1, <1>9
  <2>2. TypeOK'
    BY <1>0, <1>9, <2>1 DEF TypeOK
  <2>3. CancelKnown'
    BY <1>0, <1>9 DEF CancelKnown
  <2>4. TokensNoticed'
    BY <1>0, <1>9, <2>1, NoticedFrame
  <2> QED BY <2>1, <2>2, <2>3, <2>4 DEF IInv
<1>10. /\ output \in Seq(Task) /\ callbacks \in Seq(Func)
       /\ mainEvent \in BOOLEAN /\ mainEdge \in BOOLEAN
  BY <1>0 DEF TypeOK
<1>11. pc[w] \in HandLabel \ {"forward"} => held[w] \in Task /\ held[w] # NULL
  BY <1>0 DEF HandsMatch
<1>12. CASE Executed(w)
  <2>1. /\ pc[w] = "execute" /\ Goto(w, "report")
        /\ stage' = [stage EXCEPT ![held[w]] = "executed"]
        /\ UNCHANGED <<queueVars, eventVars, mainVars, cancelVars, workerVars, call, stack>>
    BY <1>12 DEF Executed
  <2>2. held[w] \in Task
    BY <1>11, <2>1 DEF HandLabel
  <2>3. stage' \in [Task \cup Func -> Stage]
    BY <1>0, <2>1, <2>2 DEF Stage
  <2> QED BY <1>9, <1>10, <2>1, <2>2, <2>3 DEF WorkerLabel, HandLabel
<1>13. CASE Report(w)
  <2>1. /\ pc[w] = "report" /\ Goto(w, "uncount")
        /\ UNCHANGED <<input, counter, eventVars, mainVars, cancelVars, workerVars, call,
                       stack>>
    BY <1>13 DEF Report
  <2>2. held[w] \in Task
    BY <1>11, <2>1 DEF HandLabel
  <2>3. /\ output' \in Seq(Task) /\ callbacks' \in Seq(Func)
        /\ stage' \in [Task \cup Func -> Stage]
    <3>1. CASE Emit(held[w])
      BY <1>0, <2>2, <3>1, EmitType
    <3>2. CASE /\ UNCHANGED <<output, callbacks>>
               /\ stage' = [stage EXCEPT ![held[w]] = "done"]
      BY <1>0, <1>10, <2>2, <3>2 DEF Stage
    <3> QED BY <1>13, <3>1, <3>2 DEF Report
  <2> QED BY <1>9, <1>10, <2>1, <2>2, <2>3 DEF WorkerLabel, HandLabel
<1>14. CASE Uncount(w)
  <2>1. /\ pc[w] = "uncount" /\ counter' = counter - 1
        /\ held' = [held EXCEPT ![w] = NULL]
        /\ UNCHANGED <<input, output, callbacks, eventVars, mainVars, cancelVars, closing,
                       value, call, stack, stage>>
    BY <1>14 DEF Uncount
  <2>2. PICK label \in {"wakeup", "poll", "dispose"} :
          Goto(w, label) /\ (label = "dispose" => pipe)
    BY <1>5, <1>14 DEF Uncount
  <2>3. /\ held' \in [Workers -> Task \cup {NULL}] /\ held'[w] = NULL
        /\ \A v \in Workers \ {w} : held'[v] = held[v]
    BY <1>0, <2>1
  <2>4. /\ pc' \in [Workers \cup {Main} -> WorkerLabel \cup MainLabel]
        /\ \A v \in Workers : pc'[v] = IF v = w THEN label ELSE pc[v]
        /\ Submitting' = Submitting
        /\ CallsCarry' /\ HandsMatch' /\ RefsExact'
        /\ label # "dispose" => Registered' = Registered
    BY <1>0, <2>1, <2>2, <2>3, WorkerMoves DEF WorkerLabel, HandLabel
  <2>5. /\ Cardinality(Holding') \in Nat
        /\ Cardinality(Holding') = Cardinality(Holding) - 1
    <3>1. w \in Holding /\ Holding' = Holding \ {w}
      BY <1>11, <2>1, <2>3 DEF Holding, HandLabel
    <3>2. Holding \ {w} \subseteq Holding
      OBVIOUS
    <3> QED BY <3>1, <3>2, Finite, RemoveOne, FS_Subset, FS_CardinalityType
  <2>6. CounterExact' /\ counter' \in Nat
    BY <1>0, <2>1, <2>4, <2>5, Finite, SMTT(30) DEF CounterExact
  <2>7. TypeOK'
    BY <1>0, <2>1, <2>3, <2>4, <2>6 DEF TypeOK
  <2>8. CancelKnown'
    BY <1>0, <2>1 DEF CancelKnown
  <2>9. TokensNoticed'
    BY <1>0, <2>1, <2>2, <2>4, NoticedFrame
  <2> QED BY <2>4, <2>6, <2>7, <2>8, <2>9 DEF IInv
<1>15. CASE WakeMain(w)
  <2>1. /\ pc[w] = "wakeup" /\ Wakeup /\ Goto(w, over)
        /\ UNCHANGED <<queueVars, eventVars, cancelVars, workerVars, call, stack, stage>>
    BY <1>5, <1>15 DEF WakeMain
  <2>2. held[w] = NULL
    BY <1>0, <2>1 DEF HandsMatch, HandLabel
  <2>3. mainEvent' \in BOOLEAN /\ mainEdge' \in BOOLEAN
    BY <2>1, Zenon DEF Wakeup
  <2>4. /\ over \in WorkerLabel \ {"none", "start", "done"}
        /\ over # "pop" /\ over \notin HandLabel /\ (over = "dispose" => pipe)
        /\ pc[w] \notin {"none", "start", "read", "dispose", "done"}
    BY <1>5, <2>1 DEF WorkerLabel, HandLabel
  <2>5. stage' \in [Task \cup Func -> Stage]
    BY <1>0, <2>1
  <2> QED BY <1>9, <1>10, <2>1, <2>2, <2>3, <2>4, <2>5
<1>16. CASE Dispose(w)
  <2>1. /\ pc[w] = "dispose" /\ Goto(w, "done")
        /\ refs' = refs - 1
        /\ UNCHANGED <<queueVars, eventVars, mainVars, pipe, pipeEdge, workerVars, call,
                       stack, stage>>
    BY <1>16 DEF Dispose
  <2>2. /\ pc' \in [Workers \cup {Main} -> WorkerLabel \cup MainLabel]
        /\ pc'[Main] = pc[Main]
        /\ \A v \in Workers : pc'[v] = IF v = w THEN "done" ELSE pc[v]
    BY <1>0, <2>1 DEF Goto, WorkerLabel
  <2>3. /\ Cardinality(Retaining') \in Nat
        /\ Cardinality(Retaining') = Cardinality(Retaining) - 1
    <3>1. w \in Retaining /\ Retaining' = Retaining \ {w}
      BY <2>1, <2>2 DEF Retaining
    <3>2. Retaining \ {w} \subseteq Retaining
      OBVIOUS
    <3> QED BY <3>1, <3>2, Finite, RemoveOne, FS_Subset, FS_CardinalityType
  <2>4. RefsExact' /\ refs' \in Nat
    BY <1>0, <2>1, <2>2, <2>3, Finite, SMTT(30) DEF RefsExact
  <2>5. TypeOK'
    BY <1>0, <2>1, <2>2, <2>4 DEF TypeOK
  <2>6. CallsCarry' /\ CancelKnown' /\ Submitting' = Submitting /\ Holding' = Holding
    BY <1>0, <2>1 DEF IInv, CallsCarry, CancelKnown, Submitting, Holding
  <2>7. HandsMatch'
    <3>1. held' = held /\ value' = value /\ held[w] = NULL
      BY <1>0, <2>1 DEF HandsMatch, HandLabel
    <3> QED BY <1>0, <2>2, <3>1 DEF HandsMatch, HandLabel
  <2>8. CounterExact'
    BY <1>0, <2>1, <2>6, CounterFrame
  <2>9. TokensNoticed'
    <3>1. Registered' = Registered
      BY <2>1, <2>2 DEF Registered
    <3> QED BY <1>0, <2>1, <2>2, <3>1, NoticedFrame
  <2> QED BY <2>4, <2>5, <2>6, <2>7, <2>8, <2>9 DEF IInv
<1> QED BY <1>2, <1>3, <1>4, <1>6, <1>7, <1>8, <1>12, <1>13, <1>14, <1>15, <1>16 DEF Worker

-------------------------------------------------------------------------------
\* A step of Main that leaves the work, the tokens and the workers alone.
LEMMA MainKeepsOthers ==
    ASSUME IInv, NEW label \in MainLabel, Goto(Main, label),
           UNCHANGED <<input, counter, held, call, value, closing, pipe, pipeEdge, eventVars>>
    PROVE  /\ pc' \in [Workers \cup {Main} -> WorkerLabel \cup MainLabel]
           /\ pc'[Main] = label
           /\ \A w \in Workers : pc'[w] = pc[w]
           /\ Retaining' = Retaining
           /\ CallsCarry' /\ HandsMatch' /\ CancelKnown' /\ CounterExact' /\ TokensNoticed'
<1> USE DEF eventVars
<1>0. /\ CallsCarry /\ HandsMatch /\ CancelKnown /\ CounterExact /\ TokensNoticed
      /\ pc \in [Workers \cup {Main} -> WorkerLabel \cup MainLabel]
      /\ Main \notin Workers
  BY EQAssumption DEF IInv, TypeOK
<1>1. /\ pc' \in [Workers \cup {Main} -> WorkerLabel \cup MainLabel]
      /\ pc'[Main] = label
      /\ \A w \in Workers : pc'[w] = pc[w]
  BY <1>0 DEF Goto
<1>2. /\ Retaining' = Retaining /\ Registered' = Registered
      /\ Submitting' = Submitting /\ Holding' = Holding
  BY <1>1 DEF Retaining, Registered, Submitting, Holding
<1>3. CallsCarry' /\ HandsMatch' /\ CancelKnown'
  BY <1>0, <1>1 DEF CallsCarry, HandsMatch, CancelKnown
<1>4. CounterExact'
  BY <1>0, <1>2, CounterFrame
<1>5. TokensNoticed'
  BY <1>0, <1>1, <1>2, NoticedFrame
<1> QED BY <1>1, <1>2, <1>3, <1>4, <1>5

\* ... and that releases nothing either.
LEMMA MainLabelKeepsInv ==
    ASSUME IInv, NEW label \in MainLabel \ {"dead"}, Goto(Main, label), pc[Main] # "dead",
           UNCHANGED <<input, counter, eventVars, cancelVars, workerVars, call, stage>>,
           output' \in Seq(Task), callbacks' \in Seq(Func), stack' \in Seq(Task \cup Func),
           mainEvent' \in BOOLEAN, mainEdge' \in BOOLEAN
    PROVE  IInv'
<1> USE DEF cancelVars, workerVars
<1>0. TypeOK /\ RefsExact
  BY DEF IInv
<1>1. /\ pc' \in [Workers \cup {Main} -> WorkerLabel \cup MainLabel]
      /\ pc'[Main] = label
      /\ Retaining' = Retaining
      /\ CallsCarry' /\ HandsMatch' /\ CancelKnown' /\ CounterExact' /\ TokensNoticed'
  BY MainKeepsOthers
<1>2. RefsExact'
  BY <1>0, <1>1, RefsFrame
<1>3. TypeOK'
  BY <1>0, <1>1 DEF TypeOK, eventVars
<1> QED BY <1>1, <1>2, <1>3 DEF IInv

LEMMA TakeOutputKeepsInv ==
    ASSUME IInv, TakeOutput, pc[Main] # "dead"
    PROVE  IInv'
<1>1. /\ output \in Seq(Task) /\ callbacks \in Seq(Func)
      /\ mainEvent \in BOOLEAN /\ mainEdge \in BOOLEAN
  BY DEF IInv, TypeOK
<1>2. stack' \in Seq(Task \cup Func)
  <2>1. output \in Seq(Task \cup Func) /\ callbacks \in Seq(Task \cup Func)
    BY <1>1, SeqMonotonic
  <2> QED BY <2>1, ConcatProperties DEF TakeOutput
<1>3. output' \in Seq(Task) /\ callbacks' \in Seq(Func)
  BY EmptySeq DEF TakeOutput
<1> QED BY <1>1, <1>2, <1>3, MainLabelKeepsInv DEF TakeOutput, MainLabel, mainVars

\* A step of Main keeps the invariant.
LEMMA MainKeepsInv ==
    ASSUME IInv, MainStep \/ MainCall
    PROVE  IInv'
<1> USE DEF queueVars, eventVars, mainVars, cancelVars, workerVars
<1>0. /\ TypeOK /\ CallsCarry /\ HandsMatch /\ CancelKnown /\ CounterExact /\ RefsExact
      /\ TokensNoticed
      /\ pc \in [Workers \cup {Main} -> WorkerLabel \cup MainLabel]
      /\ stage \in [Task \cup Func -> Stage]
      /\ output \in Seq(Task) /\ callbacks \in Seq(Func) /\ stack \in Seq(Task \cup Func)
      /\ mainEvent \in BOOLEAN /\ mainEdge \in BOOLEAN
      /\ pipeEdge \in [Workers -> BOOLEAN]
      /\ refs \in Nat
      /\ Main \notin Workers
  BY EQAssumption DEF IInv, TypeOK
<1>1. CASE Complete
  <2>1. /\ stack # <<>>
        /\ stage' = [stage EXCEPT ![Head(stack)] = "done"]
        /\ stack' = Tail(stack)
        /\ UNCHANGED <<queueVars, eventVars, mainVars, cancelVars, workerVars, pc, call>>
    BY <1>1 DEF Complete
  <2>2. Head(stack) \in Task \cup Func /\ stack' \in Seq(Task \cup Func)
    BY <1>0, <2>1, HeadTailProperties
  <2>3. stage' \in [Task \cup Func -> Stage]
    BY <1>0, <2>1, <2>2 DEF Stage
  <2>4. TypeOK'
    BY <1>0, <2>1, <2>2, <2>3 DEF TypeOK
  <2> QED BY <1>0, <2>1, <2>4
          DEF IInv, CallsCarry, HandsMatch, CancelKnown, CounterExact, Submitting, Holding,
              RefsExact, Retaining, TokensNoticed, Registered
<1>2. CASE Updated
  BY <1>0, <1>2, MainLabelKeepsInv DEF Updated, MainLabel
<1>3. CASE Woken
  BY <1>3, TakeOutputKeepsInv DEF Woken
<1>4. CASE MainEpoll
  <2>1. CASE mainEvent
    BY <1>0, <1>4, <2>1, MainLabelKeepsInv DEF MainEpoll, MainLabel
  <2>2. CASE ~mainEvent
    <3>1. /\ mainEdge' = FALSE
          /\ UNCHANGED <<queueVars, eventVars, mainEvent, cancelVars, workerVars, pc, call,
                         stack, stage>>
      BY <1>4, <2>2 DEF MainEpoll
    <3>2. TypeOK'
      BY <1>0, <3>1 DEF TypeOK
    <3> QED BY <1>0, <3>1, <3>2
            DEF IInv, CallsCarry, HandsMatch, CancelKnown, CounterExact, Submitting,
                Holding, RefsExact, Retaining, TokensNoticed, Registered
  <2> QED BY <2>1, <2>2
<1>5. CASE Join
  BY <1>0, <1>5, MainLabelKeepsInv DEF Join, MainLabel
<1>6. CASE Update
  BY <1>6, TakeOutputKeepsInv DEF Update, MainIdle
<1>7. CASE Wait
  <2>1. PICK label \in {"woken", "epoll"} : Goto(Main, label)
    BY <1>7 DEF Wait
  <2> QED BY <1>0, <1>7, <2>1, MainLabelKeepsInv DEF Wait, MainIdle, MainLabel
<1>8. CASE Timeout
  BY <1>0, <1>8, MainLabelKeepsInv DEF Timeout, MainLabel
<1>9. CASE SpawnWorkers
  <2>1. /\ pc[Main] = "idle" /\ \A w \in Workers : pc[w] = "none"
        /\ refs' = refs + Cardinality(Workers)
        /\ UNCHANGED <<queueVars, eventVars, mainVars, pipe, pipeEdge, workerVars, call,
                       stack, stage>>
    BY <1>9 DEF SpawnWorkers, MainIdle
  <2>2. /\ pc' \in [Workers \cup {Main} -> WorkerLabel \cup MainLabel]
        /\ pc'[Main] = "idle"
        /\ \A w \in Workers : pc'[w] = "start"
    BY <1>0, <1>9 DEF SpawnWorkers, MainIdle, WorkerLabel
  <2>3. Retaining = {} /\ Retaining' = Workers /\ Registered' = {}
    BY <2>1, <2>2 DEF Retaining, Registered
  <2>4. RefsExact' /\ refs' \in Nat
    <3>1. refs = 1
      BY <1>0, <2>1, <2>3, FS_EmptySet DEF RefsExact
    <3> QED BY <2>1, <2>2, <2>3, <3>1, Finite DEF RefsExact
  <2>5. TypeOK'
    BY <1>0, <2>1, <2>2, <2>4 DEF TypeOK
  <2>6. HandsMatch'
    BY <1>0, <2>1, <2>2 DEF HandsMatch, HandLabel
  <2>7. CallsCarry' /\ CancelKnown' /\ Submitting' = Submitting /\ Holding' = Holding
    BY <1>0, <2>1 DEF CallsCarry, CancelKnown, Submitting, Holding
  <2>8. CounterExact'
    BY <1>0, <2>1, <2>7, CounterFrame
  <2>9. TokensNoticed'
    BY <2>3 DEF TokensNoticed
  <2> QED BY <2>4, <2>5, <2>6, <2>7, <2>8, <2>9 DEF IInv
<1>10. CASE CancelWorkers
  <2>1. /\ pc[Main] = "idle" /\ Goto(Main, "join") /\ pipe' = TRUE
        /\ pipeEdge' = [w \in Workers |-> pipeEdge[w] \/ w \in Registered]
        /\ UNCHANGED <<queueVars, eventVars, mainVars, refs, workerVars, call, stack, stage>>
    BY <1>10 DEF CancelWorkers, MainIdle
  <2>2. /\ pc' \in [Workers \cup {Main} -> WorkerLabel \cup MainLabel]
        /\ pc'[Main] = "join"
        /\ \A w \in Workers : pc'[w] = pc[w]
    BY <1>0, <2>1 DEF Goto, MainLabel
  <2>3. pipeEdge' \in [Workers -> BOOLEAN]
    BY <2>1, Zenon
  <2>4. TypeOK'
    BY <1>0, <2>1, <2>2, <2>3 DEF TypeOK
  <2>5. CallsCarry' /\ Submitting' = Submitting /\ Holding' = Holding
    BY <1>0, <2>1 DEF CallsCarry, Submitting, Holding
  <2>6. HandsMatch'
    BY <1>0, <2>1, <2>2 DEF HandsMatch
  <2>7. CounterExact'
    BY <1>0, <2>1, <2>5, CounterFrame
  <2>8. RefsExact'
    <3>1. Retaining' = Retaining
      BY <2>2 DEF Retaining
    <3> QED BY <1>0, <2>1, <2>2, <3>1, RefsFrame
  <2>9. CancelKnown' /\ TokensNoticed'
    BY <2>1 DEF CancelKnown, TokensNoticed
  <2> QED BY <2>4, <2>5, <2>6, <2>7, <2>8, <2>9 DEF IInv
<1>11. CASE Destroy
  <2>1. /\ pc[Main] = "idle" /\ Goto(Main, "dead") /\ refs' = refs - 1
        /\ UNCHANGED <<queueVars, eventVars, mainVars, pipe, pipeEdge, workerVars, call,
                       stack, stage>>
    BY <1>11 DEF Destroy, MainIdle
  <2>2. /\ pc' \in [Workers \cup {Main} -> WorkerLabel \cup MainLabel]
        /\ pc'[Main] = "dead"
        /\ Retaining' = Retaining
        /\ CallsCarry' /\ HandsMatch' /\ CancelKnown' /\ CounterExact' /\ TokensNoticed'
    BY <2>1, MainKeepsOthers DEF MainLabel
  <2>3. RefsExact' /\ refs' \in Nat
    BY <1>0, <2>1, <2>2, Finite DEF RefsExact
  <2>4. TypeOK'
    BY <1>0, <2>1, <2>2, <2>3 DEF TypeOK
  <2> QED BY <2>2, <2>3, <2>4 DEF IInv
<1> QED BY <1>1, <1>2, <1>3, <1>4, <1>5, <1>6, <1>7, <1>8, <1>9, <1>10, <1>11
        DEF MainStep, MainCall

-------------------------------------------------------------------------------
LEMMA StutterKeepsInv == IInv /\ UNCHANGED vars => IInv'
BY DEF IInv, vars, queueVars, eventVars, mainVars, cancelVars, workerVars, TypeOK,
       CallsCarry, HandsMatch, CancelKnown, CounterExact, Submitting, Holding, RefsExact,
       Retaining, TokensNoticed, Registered

LEMMA InvHolds == Spec => []IInv
<1>1. IInv /\ [Next]_vars => IInv'
  <2> SUFFICES ASSUME IInv, Next PROVE IInv'
    BY StutterKeepsInv
  <2> QED BY CallsKeepInv, WorkerKeepsInv, MainKeepsInv DEF Next
<1> QED BY <1>1, InitInv, PTL DEF Spec

-------------------------------------------------------------------------------
\* What is in the output queues stays announced as long as no witness is lost: the
\* eventfd is read only by wait, which takes the queues over next, and a thread
\* that owes a wakeup gives it.
LEMMA AnnouncedFrame ==
    ASSUME OutputAnnounced, output' \o callbacks' = output \o callbacks,
           mainEvent => mainEvent' \/ pc'[Main] = "woken",
           pc[Main] = "woken" => pc'[Main] = "woken",
           \A th \in Threads : call[th].at = "signal" => call'[th].at = "signal" \/ mainEvent',
           \A w \in Workers : pc[w] = "wakeup" => pc'[w] = "wakeup" \/ mainEvent',
           \A w \in Workers : pc[w] = "uncount" /\ held[w] \notin Silent =>
                pc'[w] = "wakeup" \/ (pc'[w] = "uncount" /\ held'[w] = held[w])
    PROVE  OutputAnnounced'
BY DEF OutputAnnounced

\* A thread's call announces what it adds.
LEMMA CallsAnnounce ==
    ASSUME IInv, OutputAnnounced, NEW th \in Threads, Calls(th) \/ Caller(th)
    PROVE  OutputAnnounced'
<1> USE DEF queueVars, eventVars, mainVars, cancelVars, workerVars
<1>0. call \in [Threads -> Call] /\ UNCHANGED <<pc, held>>
  BY DEF IInv, TypeOK, Calls, Caller, Perform, OnMainThread, Push, WriteToken, Post, Signal
<1>1. ASSUME NEW t \in Task, Perform(th, t) PROVE OutputAnnounced'
  <2>1. call[th] = NoCall /\ UNCHANGED <<output, callbacks, mainEvent>>
    BY <1>1 DEF Perform, MayCall
  <2>2. \A x \in Threads : call[x].at = "signal" => call'[x].at = "signal"
    BY <1>0, <1>1, <2>1 DEF Perform, NoCall
  <2> QED BY <1>0, <2>1, <2>2, AnnouncedFrame
<1>2. ASSUME NEW f \in Func, OnMainThread(th, f) PROVE OutputAnnounced'
  <2>1. call[th] = NoCall /\ UNCHANGED <<output, callbacks, mainEvent>>
    BY <1>2 DEF OnMainThread, MayCall
  <2>2. \A x \in Threads : call[x].at = "signal" => call'[x].at = "signal"
    BY <1>0, <1>2, <2>1 DEF OnMainThread, NoCall
  <2> QED BY <1>0, <2>1, <2>2, AnnouncedFrame
<1>3. ASSUME NEW first \in BOOLEAN, Push(th, first) PROVE OutputAnnounced'
  <2>1. call[th].at = "push" /\ UNCHANGED <<output, callbacks, mainEvent>>
    BY <1>3 DEF Push
  <2>2. \A x \in Threads : call[x].at = "signal" => call'[x].at = "signal"
    BY <1>0, <1>3, <2>1 DEF Push
  <2> QED BY <1>0, <2>1, <2>2, AnnouncedFrame
<1>4. CASE WriteToken(th)
  <2>1. call[th].at = "write" /\ UNCHANGED <<output, callbacks, mainEvent>>
    BY <1>4 DEF WriteToken
  <2>2. \A x \in Threads : call[x].at = "signal" => call'[x].at = "signal"
    BY <1>0, <1>4, <2>1 DEF WriteToken
  <2> QED BY <1>0, <2>1, <2>2, AnnouncedFrame
<1>5. CASE Post(th)
  <2>1. call'[th].at = "signal"
    BY <1>0, <1>5 DEF Post
  <2> QED BY <2>1 DEF OutputAnnounced
<1>6. CASE Signal(th)
  BY <1>6 DEF Signal, Wakeup, OutputAnnounced
<1> QED BY <1>1, <1>2, <1>3, <1>4, <1>5, <1>6 DEF Calls, Caller

\* A worker announces what it reports when it has counted the task off.
LEMMA WorkerAnnounces ==
    ASSUME IInv, OutputAnnounced, NEW w \in Workers, Worker(w)
    PROVE  OutputAnnounced'
<1> USE DEF queueVars, eventVars, mainVars, cancelVars, workerVars
<1>0. /\ pc \in [Workers \cup {Main} -> WorkerLabel \cup MainLabel]
      /\ held \in [Workers -> Task \cup {NULL}]
      /\ Main \notin Workers
  BY EQAssumption DEF IInv, TypeOK
<1>1. CASE WakeMain(w)
  BY <1>1 DEF WakeMain, Wakeup, OutputAnnounced
<1>2. CASE Report(w)
  <2>1. /\ pc[w] = "report" /\ pc' = [pc EXCEPT ![w] = "uncount"]
        /\ UNCHANGED <<mainEvent, call, held>>
    BY <1>2 DEF Report, Goto
  <2>2. CASE held[w] \in Silent
    <3>1. UNCHANGED <<output, callbacks>>
      BY <1>2, <2>2 DEF Report
    <3> QED BY <1>0, <2>1, <3>1, AnnouncedFrame
  <2>3. CASE held[w] \notin Silent
    BY <1>0, <2>1, <2>3 DEF OutputAnnounced
  <2> QED BY <2>2, <2>3
<1>3. CASE Uncount(w)
  <2>1. /\ pc[w] = "uncount"
        /\ held' = [held EXCEPT ![w] = NULL]
        /\ held[w] \notin Silent => Goto(w, "wakeup")
        /\ UNCHANGED <<output, callbacks, mainEvent, call>>
        /\ \E label \in WorkerLabel : Goto(w, label)
    BY <1>3 DEF Uncount, RoundEnds, WorkerLabel
  <2>2. pc'[Main] = pc[Main] /\ \A v \in Workers \ {w} : pc'[v] = pc[v] /\ held'[v] = held[v]
    BY <1>0, <2>1 DEF Goto
  <2>3. held[w] \notin Silent => pc'[w] = "wakeup"
    BY <1>0, <2>1 DEF Goto
  <2> QED BY <2>1, <2>2, <2>3, AnnouncedFrame
<1>4. ASSUME pc[w] \notin {"wakeup", "uncount"}, UNCHANGED <<output, callbacks, mainEvent, call>>,
             \A v \in Workers \ {w} : held'[v] = held[v],
             pc' = pc \/ \E label \in WorkerLabel : Goto(w, label)
      PROVE  OutputAnnounced'
  <2>1. pc'[Main] = pc[Main] /\ \A v \in Workers \ {w} : pc'[v] = pc[v]
    BY <1>0, <1>4 DEF Goto
  <2> QED BY <1>4, <2>1, AnnouncedFrame
<1>5. CASE Register(w)
  BY <1>4, <1>5 DEF Register, WorkerLabel
<1>6. CASE PollEvents(w)
  BY <1>4, <1>6 DEF PollEvents, EpollWait, WorkerLabel
<1>7. CASE PollNothing(w)
  BY <1>4, <1>7 DEF PollNothing, EpollWait
<1>8. CASE Read(w)
  BY <1>4, <1>8 DEF Read, RoundEnds, WorkerLabel
<1>9. CASE Pop(w)
  <2>1. \A v \in Workers \ {w} : held'[v] = held[v]
    BY <1>0, <1>9 DEF Pop
  <2> QED BY <1>4, <1>9, <2>1 DEF Pop, AfterPop, RoundEnds, WorkerLabel
<1>10. CASE Forward(w)
  BY <1>4, <1>10 DEF Forward, RoundEnds, WorkerLabel
<1>11. CASE Executed(w)
  BY <1>4, <1>11 DEF Executed, WorkerLabel
<1>12. CASE Dispose(w)
  BY <1>4, <1>12 DEF Dispose, WorkerLabel
<1> QED BY <1>1, <1>2, <1>3, <1>5, <1>6, <1>7, <1>8, <1>9, <1>10, <1>11, <1>12 DEF Worker

\* Main takes the output queues over whole, and reads its eventfd only to do so.
LEMMA MainAnnounces ==
    ASSUME IInv, OutputAnnounced, MainStep \/ MainCall
    PROVE  OutputAnnounced'
<1> USE DEF queueVars, eventVars, mainVars, cancelVars, workerVars
<1>0. /\ pc \in [Workers \cup {Main} -> WorkerLabel \cup MainLabel]
      /\ Main \notin Workers
  BY EQAssumption DEF IInv, TypeOK
<1>1. ASSUME TakeOutput PROVE OutputAnnounced'
  BY <1>1 DEF TakeOutput, OutputAnnounced
<1>2. ASSUME pc[Main] # "woken", UNCHANGED <<output, callbacks, mainEvent, call, held>>,
             pc' = pc \/ \E label \in MainLabel : Goto(Main, label)
      PROVE  OutputAnnounced'
  <2>1. \A v \in Workers : pc'[v] = pc[v]
    BY <1>0, <1>2 DEF Goto
  <2> QED BY <1>2, <2>1, AnnouncedFrame
<1>3. CASE Complete
  BY <1>2, <1>3 DEF Complete
<1>4. CASE MainEpoll
  BY <1>2, <1>4 DEF MainEpoll, MainLabel
<1>5. CASE Updated \/ Join \/ Timeout \/ CancelWorkers \/ Destroy
  BY <1>2, <1>5 DEF Updated, Join, Timeout, CancelWorkers, Destroy, MainIdle, MainLabel
<1>6. CASE Wait
  <2>1. /\ UNCHANGED <<output, callbacks, call, held>>
        /\ pc' = [pc EXCEPT ![Main] = IF mainEvent THEN "woken" ELSE "epoll"]
        /\ pc[Main] = "idle"
    BY <1>6 DEF Wait, MainIdle, Goto
  <2>2. /\ \A v \in Workers : pc'[v] = pc[v]
        /\ mainEvent => pc'[Main] = "woken"
    BY <1>0, <2>1
  <2> QED BY <2>1, <2>2, AnnouncedFrame
<1>7. CASE SpawnWorkers
  <2>1. /\ UNCHANGED <<output, callbacks, mainEvent, call, held>>
        /\ pc[Main] = "idle" /\ \A v \in Workers : pc[v] = "none"
    BY <1>7 DEF SpawnWorkers, MainIdle
  <2> QED BY <2>1, AnnouncedFrame
<1> QED BY <1>1, <1>3, <1>4, <1>5, <1>6, <1>7 DEF MainStep, MainCall, Woken, Update

\* Every variable of the event task queue keeps the type of the member it stands
\* for: no count wraps below zero, no list takes what is not of its kind.
THEOREM TypeCorrect == Spec => []TypeOK
BY InvHolds, PTL DEF IInv

\* _taskCounter counts the tasks on their way into the input queue, in it and with
\* the workers, whatever the threads do at once.
THEOREM CounterExactHolds == Spec => []CounterExact
BY InvHolds, PTL DEF IInv

\* The queue's Data has one reference for the queue and one for each worker whose
\* thread has not ended: it is never freed under a worker, and never left behind.
THEOREM RefsExactHolds == Spec => []RefsExact
BY InvHolds, PTL DEF IInv

\* As long as nobody cancels the workers, tokens in the eventfd are on some worker's
\* ready list or being read: what EPOLLEXCLUSIVE and EPOLLET spare is not missed.
THEOREM TokensNoticedHolds == Spec => []TokensNoticed
BY InvHolds, PTL DEF IInv

\* What was reported or posted is not left in the output queues unnoticed: wait finds
\* the eventfd of Main written, or some thread is about to write it.
THEOREM OutputAnnouncedHolds == Spec => []OutputAnnounced
<1>1. Init => OutputAnnounced
  BY DEF Init, OutputAnnounced
<1>2. IInv /\ OutputAnnounced /\ [Next]_vars => OutputAnnounced'
  <2> SUFFICES ASSUME IInv, OutputAnnounced, [Next]_vars PROVE OutputAnnounced'
    OBVIOUS
  <2>1. CASE Next
    BY <2>1, CallsAnnounce, WorkerAnnounces, MainAnnounces DEF Next
  <2>2. CASE UNCHANGED vars
    BY <2>2 DEF vars, queueVars, eventVars, mainVars, cancelVars, workerVars, OutputAnnounced
  <2> QED BY <2>1, <2>2
<1> QED BY <1>1, <1>2, InvHolds, PTL DEF Spec

-------------------------------------------------------------------------------
\* EventTaskQueue implements what TaskQueueSpec promises, and there is a token for every
\* queued task.  The first rests on where a task is, as in TaskQueue_proof: in a call, in
\* the input queue, in a worker's hands or in the output queues, once, and its stage says
\* in which.  The second on a worker having tokens only between reading them and writing
\* them back.

\* A task that is being submitted is in one thread's call.
CallsPlaced ==
    /\ \A th \in Threads :
        /\ call[th].at = "push" =>
            stage[call[th].item] = "counted" /\ call[th].item \notin Refusing
        /\ call[th].at = "post" /\ call[th].item \in Task =>
            stage[call[th].item] = "refused" /\ call[th].item \in Refusing
    /\ \A th, u \in Threads :
        th # u /\ {call[th].at, call[u].at} \subseteq {"push", "post"}
            /\ call[th].item \in Task => call[th].item # call[u].item

\* A queued task is in the input queue, once.
InputPlaced ==
    /\ \A i \in 1..Len(input) : stage[input[i].task] = "queued"
    /\ \A i, j \in 1..Len(input) : input[i].task = input[j].task => i = j
    /\ \A t \in Task : stage[t] = "queued" => \E i \in 1..Len(input) : input[i].task = t

\* A task that is executed is in one worker's hands.
HandsPlaced ==
    /\ \A w \in Executing : stage[held[w]] = IF pc[w] = "report" THEN "executed" ELSE "taken"
    /\ \A v, w \in Executing : held[v] = held[w] => v = w
    /\ \A t \in Task : stage[t] \in {"taken", "executed"} => \E w \in Executing : held[w] = t

\* Main takes tasks over before functions.
TasksLead == \E n \in 0..Len(stack) : \A i \in 1..Len(stack) : stack[i] \in Task <=> i <= n

\* A reported task is in the output queue or with Main, once.
OutputPlaced ==
    /\ \A i \in 1..Len(output) : stage[output[i]] = "output"
    /\ \A i \in 1..Len(stack) : stack[i] \in Task => stage[stack[i]] = "output"
    /\ \A i, j \in 1..Len(output) : output[i] = output[j] => i = j
    /\ \A i, j \in 1..Len(stack) : stack[i] = stack[j] /\ stack[i] \in Task => i = j
    /\ \A i \in 1..Len(stack), j \in 1..Len(output) : stack[i] # output[j]
    /\ \A t \in Task : stage[t] = "output" => \/ \E i \in 1..Len(output) : output[i] = t
                                              \/ \E i \in 1..Len(stack) : stack[i] = t

\* Main has nothing left to complete when it leaves update.
StackEmptied == pc[Main] # "update" => stack = <<>>

Placed == /\ CallsPlaced /\ InputPlaced /\ HandsPlaced /\ OutputPlaced /\ TasksLead
          /\ StackEmptied

\* A step of the queue is one of the promise, or none.
Promised == [Promise!Next]_(Promise!vars)

-------------------------------------------------------------------------------
\* What a step leaves in its place.

LEMMA Types ==
    ASSUME IInv
    PROVE  /\ TypeOK /\ CallsCarry /\ HandsMatch
           /\ pc \in [Workers \cup {Main} -> WorkerLabel \cup MainLabel]
           /\ held \in [Workers -> Task \cup {NULL}]
           /\ call \in [Threads -> Call]
           /\ stage \in [Task \cup Func -> Stage]
           /\ input \in Seq(InputEntry) /\ Len(input) \in Nat
           /\ output \in Seq(Task) /\ Len(output) \in Nat
           /\ callbacks \in Seq(Func) /\ Len(callbacks) \in Nat
           /\ stack \in Seq(Task \cup Func) /\ Len(stack) \in Nat
           /\ \A i \in 1..Len(input) : input[i].task \in Task
           /\ \A i \in 1..Len(output) : output[i] \in Task
           /\ \A i \in 1..Len(stack) : stack[i] \in Task \cup Func
           /\ Main \notin Workers /\ NULL \notin Task /\ Task \cap Func = {}
           /\ Workers \subseteq Threads /\ Main \in Threads
<1>1. /\ TypeOK /\ CallsCarry /\ HandsMatch
      /\ pc \in [Workers \cup {Main} -> WorkerLabel \cup MainLabel]
      /\ held \in [Workers -> Task \cup {NULL}]
      /\ call \in [Threads -> Call]
      /\ stage \in [Task \cup Func -> Stage]
      /\ input \in Seq(InputEntry) /\ output \in Seq(Task)
      /\ callbacks \in Seq(Func) /\ stack \in Seq(Task \cup Func)
  BY DEF IInv, TypeOK
<1>2. /\ Len(input) \in Nat /\ Len(output) \in Nat
      /\ Len(callbacks) \in Nat /\ Len(stack) \in Nat
  BY <1>1, LenProperties
<1>3. \A i \in 1..Len(input) : input[i] \in InputEntry
  BY <1>1, ElementOfSeq
<1>4. \A i \in 1..Len(output) : output[i] \in Task
  BY <1>1, ElementOfSeq
<1>5. \A i \in 1..Len(stack) : stack[i] \in Task \cup Func
  BY <1>1, ElementOfSeq
<1>6. /\ Main \notin Workers /\ NULL \notin Task /\ Task \cap Func = {}
      /\ Workers \subseteq Threads /\ Main \in Threads
  BY EQAssumption DEF Threads
<1> QED BY <1>1, <1>2, <1>3, <1>4, <1>5, <1>6 DEF InputEntry

\* A call ends or goes on to its notification, with its task in the next place.
LEMMA CallsEnd ==
    ASSUME IInv, CallsPlaced, NEW th \in Threads, NEW r, r.at \notin {"push", "post"},
           call' = [call EXCEPT ![th] = r],
           \A t \in Task : stage[t] \in {"counted", "refused"} =>
               \/ stage'[t] = stage[t]
               \/ call[th].at \in {"push", "post"} /\ t = call[th].item
    PROVE  CallsPlaced'
<1>1. /\ \A u \in Threads : call'[u] = IF u = th THEN r ELSE call[u]
      /\ \A u \in Threads : call[u].at = "push" => call[u].item \in Task
  BY Types DEF CallsCarry
<1>2. \A u \in Threads :
        /\ call'[u].at = "push" =>
            stage'[call'[u].item] = "counted" /\ call'[u].item \notin Refusing
        /\ call'[u].at = "post" /\ call'[u].item \in Task =>
            stage'[call'[u].item] = "refused" /\ call'[u].item \in Refusing
  BY <1>1 DEF CallsPlaced
<1>3. \A u, v \in Threads :
        u # v /\ {call'[u].at, call'[v].at} \subseteq {"push", "post"} /\ call'[u].item \in Task
            => call'[u].item # call'[v].item
  BY <1>1 DEF CallsPlaced
<1> QED BY <1>2, <1>3 DEF CallsPlaced

LEMMA CallsFrame ==
    ASSUME IInv, CallsPlaced, call' = call,
           \A t \in Task : stage[t] \in {"counted", "refused"} => stage'[t] = stage[t]
    PROVE  CallsPlaced'
BY Types DEF CallsPlaced, CallsCarry

LEMMA InputFrame ==
    ASSUME IInv, InputPlaced, input' = input,
           \A t \in Task : stage[t] = "queued" <=> stage'[t] = "queued"
    PROVE  InputPlaced'
BY Types DEF InputPlaced

LEMMA HandsFrame ==
    ASSUME IInv, HandsPlaced, Executing' = Executing,
           \A w \in Executing : /\ held'[w] = held[w]
                                /\ pc'[w] = "report" <=> pc[w] = "report",
           \A t \in Task : stage[t] \in {"taken", "executed"}
                              \/ stage'[t] \in {"taken", "executed"} => stage'[t] = stage[t]
    PROVE  HandsPlaced' /\ Running' = Running
<1>1. \A w \in Executing : held[w] \in Task
  BY Types DEF Executing
<1>2. HandsPlaced'
  BY <1>1 DEF HandsPlaced
<1> QED BY <1>2 DEF Running

LEMMA OutputFrame ==
    ASSUME IInv, OutputPlaced, UNCHANGED <<output, stack>>,
           \A t \in Task : stage[t] = "output" <=> stage'[t] = "output"
    PROVE  OutputPlaced' /\ Reported' = Reported
<1>1. /\ \A i \in 1..Len(output) : output[i] \in Task
      /\ \A i \in 1..Len(stack) : stack[i] \in Task \cup Func
  BY Types
<1>2. OutputPlaced'
  BY <1>1 DEF OutputPlaced
<1> QED BY <1>2 DEF Reported

\* A task joins the output queue.
LEMMA OutputAdds ==
    ASSUME IInv, OutputPlaced, TasksLead, NEW t \in Task, output' = Append(output, t),
           stack' = stack, stage[t] # "output",
           \A u \in Task : stage'[u] = IF u = t THEN "output" ELSE stage[u]
    PROVE  OutputPlaced' /\ TasksLead' /\ Reported' = Append(Reported, t)
<1>1. /\ Len(output) \in Nat /\ Len(stack) \in Nat
      /\ output \in Seq(Task) /\ stack \in Seq(Task \cup Func)
      /\ \A i \in 1..Len(output) : output[i] \in Task
      /\ \A i \in 1..Len(stack) : stack[i] \in Task \cup Func
  BY Types
<1>2. /\ Len(output') = Len(output) + 1
      /\ output'[Len(output) + 1] = t
      /\ \A i \in 1..Len(output) : output'[i] = output[i]
  BY <1>1, AppendProperties
<1>3. /\ \A i \in 1..Len(output) : output[i] # t
      /\ \A i \in 1..Len(stack) : stack[i] # t
  BY DEF OutputPlaced
<1>4. \A i \in 1..Len(output') : i = Len(output) + 1 \/ i \in 1..Len(output)
  BY <1>1, <1>2
<1>5. OutputPlaced'
  <2>1. \A i \in 1..Len(output') : stage'[output'[i]] = "output"
    BY <1>1, <1>2, <1>3, <1>4 DEF OutputPlaced
  <2>2. \A i \in 1..Len(stack') : stack'[i] \in Task => stage'[stack'[i]] = "output"
    BY <1>1, <1>3 DEF OutputPlaced
  <2>3. \A i, j \in 1..Len(output') : output'[i] = output'[j] => i = j
    BY <1>1, <1>2, <1>3, <1>4 DEF OutputPlaced
  <2>4. \A i \in 1..Len(stack'), j \in 1..Len(output') : stack'[i] # output'[j]
    BY <1>2, <1>3, <1>4 DEF OutputPlaced
  <2>5. ASSUME NEW u \in Task, stage'[u] = "output"
        PROVE  \/ \E i \in 1..Len(output') : output'[i] = u
               \/ \E i \in 1..Len(stack') : stack'[i] = u
    <3>1. CASE u = t
      <4>1. Len(output) + 1 \in 1..Len(output')
        BY <1>1, <1>2
      <4> QED BY <1>2, <3>1, <4>1
    <3>2. CASE u # t
      <4>1. \/ \E i \in 1..Len(output) : output[i] = u
            \/ \E i \in 1..Len(stack) : stack[i] = u
        BY <2>5, <3>2 DEF OutputPlaced
      <4>2. \A i \in 1..Len(output) : i \in 1..Len(output')
        BY <1>1, <1>2
      <4> QED BY <1>2, <4>1, <4>2
    <3> QED BY <3>1, <3>2
  <2> QED BY <2>1, <2>2, <2>3, <2>4, <2>5 DEF OutputPlaced
<1>6. TasksLead'
  BY DEF TasksLead
<1>7. Reported' = Append(Reported, t)
  <2>1. Leading(stack, Task) \in Seq(Task)
    BY <1>1, LeadingPrefix DEF TasksLead
  <2>2. \A u \in Task :
            Leading(stack, Task) \o Append(output, u) = Append(Leading(stack, Task) \o output, u)
    BY <1>1, <2>1, ConcatEnds, SMTT(30)
  <2> QED BY <2>2 DEF Reported
<1> QED BY <1>5, <1>6, <1>7

\* A step that moves no task but into a call is no step of the promise.
LEMMA QuietStep ==
    ASSUME IInv, Placed, UNCHANGED <<input, output, stack>>,
           \A t \in Task : \/ stage'[t] = stage[t]
                           \/ stage[t] = "new" /\ stage'[t] \in {"counted", "refused"},
           Executing' = Executing,
           \A w \in Executing : /\ held'[w] = held[w]
                                /\ pc'[w] = "report" <=> pc[w] = "report",
           CallsPlaced', StackEmptied'
    PROVE  Placed' /\ Promised
<1>1. InputPlaced'
  BY InputFrame DEF Placed
<1>2. HandsPlaced' /\ Running' = Running
  BY HandsFrame DEF Placed
<1>3. OutputPlaced' /\ TasksLead' /\ Reported' = Reported
  BY OutputFrame DEF Placed, TasksLead
<1>4. Completed' = Completed
  BY DEF Completed
<1> QED BY <1>1, <1>2, <1>3, <1>4 DEF Placed, Promised, Promise!vars

\* The promise knows no task that is still in a call.
LEMMA NotKnown ==
    ASSUME IInv, Placed, NEW t \in Task, stage[t] \in {"new", "counted", "refused"}
    PROVE  t \notin Promise!Known
<1>1. \A i \in DOMAIN input : input[i].task # t
  <2>1. DOMAIN input = 1..Len(input)
    BY Types, LenProperties
  <2>2. \A i \in 1..Len(input) : stage[input[i].task] = "queued"
    BY DEF Placed, InputPlaced
  <2> QED BY <2>1, <2>2
<1>2. t \notin Running
  BY DEF Running, Executing, Placed, HandsPlaced
<1>3. \A i \in DOMAIN Reported : Reported[i] # t
  <2>1. PICK n \in 0..Len(stack) : \A i \in 1..Len(stack) : stack[i] \in Task <=> i <= n
    BY DEF Placed, TasksLead
  <2>2. /\ Leading(stack, Task) \in Seq(Task)
        /\ Len(Leading(stack, Task)) = n
        /\ \A i \in 1..n : Leading(stack, Task)[i] = stack[i]
    BY <2>1, Types, LeadingPrefix
  <2>3. /\ Reported \in Seq(Task)
        /\ Len(Reported) = n + Len(output)
        /\ \A i \in 1..n + Len(output) :
             Reported[i] = IF i <= n THEN stack[i] ELSE output[i - n]
    <3> DEFINE s == Leading(stack, Task)
    <3>1. s \in Seq(Task) /\ Len(s) = n /\ \A i \in 1..n : s[i] = stack[i]
      BY <2>2
    <3>2. output \in Seq(Task) /\ Reported = s \o output
      BY Types DEF Reported
    <3> HIDE DEF s
    <3>3. /\ s \o output \in Seq(Task)
          /\ Len(s \o output) = Len(s) + Len(output)
          /\ \A i \in 1..Len(s) + Len(output) :
               (s \o output)[i] = IF i <= Len(s) THEN s[i] ELSE output[i - Len(s)]
      BY <3>1, <3>2, ConcatProperties
    <3>4. n \in Nat /\ Len(output) \in Nat
      BY Types
    <3> QED BY <3>1, <3>2, <3>3, <3>4
  <2>4. DOMAIN Reported = 1..n + Len(output)
    BY <2>3, LenProperties
  <2>5. /\ \A i \in 1..n : stack[i] # t
        /\ \A i \in 1..Len(output) : output[i] # t
    <3>1. Len(stack) \in Nat /\ \A i \in 1..n : i \in 1..Len(stack) /\ stack[i] \in Task
      BY <2>1, Types
    <3> QED BY <3>1 DEF Placed, OutputPlaced
  <2>6. n \in Nat /\ Len(output) \in Nat
    BY <2>1, Types
  <2>7. ASSUME NEW i \in 1..n + Len(output) PROVE Reported[i] # t
    <3>1. CASE i <= n
      <4>1. i \in 1..n
        BY <2>6, <3>1
      <4> QED BY <2>3, <2>5, <3>1, <4>1
    <3>2. CASE ~(i <= n)
      <4>1. i - n \in 1..Len(output)
        BY <2>6, <3>2
      <4> QED BY <2>3, <2>5, <3>2, <4>1
    <3> QED BY <3>1, <3>2
  <2> QED BY <2>4, <2>7
<1>4. t \notin Completed
  BY DEF Completed
<1> QED BY <1>1, <1>2, <1>3, <1>4 DEF Promise!Known

-------------------------------------------------------------------------------
\* perform and onMainThread.

\* A call begins: its task is in nobody else's.
LEMMA CallsBegin ==
    ASSUME IInv, Placed, NEW th \in Threads, NEW x \in Task \cup Func,
           NEW at \in {"push", "post"}, NEW to \in {"counted", "refused"},
           call[th] = NoCall, stage[x] = "new",
           call' = [call EXCEPT ![th] = [at |-> at, item |-> x]],
           stage' = [stage EXCEPT ![x] = to],
           UNCHANGED <<input, output, stack, pc, held>>,
           at = "push" => x \in Task \ Refusing /\ to = "counted",
           at = "post" /\ x \in Task => x \in Refusing /\ to = "refused"
    PROVE  Placed' /\ Promised
<1>1. /\ call \in [Threads -> Call] /\ stage \in [Task \cup Func -> Stage]
      /\ CallsCarry /\ CallsPlaced
  BY Types DEF Placed
<1>2. /\ \A u \in Threads : call'[u] = IF u = th THEN [at |-> at, item |-> x] ELSE call[u]
      /\ \A t \in Task \cup Func : stage'[t] = IF t = x THEN to ELSE stage[t]
  BY <1>1
<1>3. \A u \in Threads : call[u].at \in {"push", "post"} /\ call[u].item \in Task =>
        call[u].item # x
  BY <1>1 DEF CallsPlaced
<1>4. CallsPlaced'
  BY <1>1, <1>2, <1>3 DEF CallsPlaced, CallsCarry
<1>5. StackEmptied'
  BY DEF Placed, StackEmptied
<1>6. \A t \in Task : \/ stage'[t] = stage[t]
                      \/ stage[t] = "new" /\ stage'[t] \in {"counted", "refused"}
  BY <1>2
<1> QED BY <1>4, <1>5, <1>6, QuietStep DEF Executing

LEMMA PushPromised ==
    ASSUME IInv, Placed, NEW th \in Threads, NEW first \in BOOLEAN, Push(th, first)
    PROVE  Placed' /\ Promised
<1> USE DEF queueVars, eventVars, mainVars, cancelVars, workerVars
<1> DEFINE t == call[th].item
           e == [prio |-> Prio[t], task |-> t]
<1>1. /\ call[th].at = "push"
      /\ call' = [call EXCEPT ![th] = [at |-> "write", item |-> t]]
      /\ stage' = [stage EXCEPT ![t] = "queued"]
      /\ UNCHANGED <<output, stack, pc, held>>
  BY DEF Push
<1>2. t \in Task /\ stage[t] = "counted" /\ t \notin Refusing
  BY <1>1, Types DEF Placed, CallsPlaced, CallsCarry
<1>3. PICK k \in 1..Len(input) + 1 :
        IsSlot(input, Prio[t], first, k) /\ input' = InsertedAt(input, k, e)
  BY DEF Push
<1>4. \A u \in Task : stage'[u] = IF u = t THEN "queued" ELSE stage[u]
  BY <1>1, Types
<1>5. CallsPlaced'
  BY <1>1, <1>4, CallsEnd DEF Placed
<1>6. InputPlaced'
  <2>1. e \in InputEntry
    BY <1>2, EQAssumption DEF InputEntry
  <2>2. Len(input') = Len(input) + 1
    BY <1>3, <2>1, Types, InsertedAtType
  <2>3. /\ input'[k] = e
        /\ \A i \in 1..Len(input) : input'[IF i < k THEN i ELSE i + 1] = input[i]
        /\ \A i \in 1..Len(input) + 1 \ {k} :
             LET j == IF i < k THEN i ELSE i - 1
             IN  j \in 1..Len(input) /\ input'[i] = input[j]
    BY <1>3, <2>1, Types, InsertedAtEntries
  <2>4. \A i \in 1..Len(input) : input[i].task # t /\ input[i].task \in Task
    BY <1>2, Types DEF Placed, InputPlaced
  <2>5. \A i \in 1..Len(input') : stage'[input'[i].task] = "queued"
    BY <1>2, <1>4, <2>2, <2>3, <2>4 DEF Placed, InputPlaced
  <2>6. \A i, j \in 1..Len(input') : input'[i].task = input'[j].task => i = j
    <3> SUFFICES ASSUME NEW i \in 1..Len(input'), NEW j \in 1..Len(input'),
                        input'[i].task = input'[j].task
                 PROVE  i = j
      OBVIOUS
    <3>1. Len(input) \in Nat /\ e.task = t
      BY Types
    <3> HIDE DEF e, t
    <3>2. (i = k) <=> (j = k)
      BY <2>2, <2>3, <2>4, <3>1
    <3>3. CASE i # k
      <4> DEFINE m == IF i < k THEN i ELSE i - 1
                 n == IF j < k THEN j ELSE j - 1
      <4>1. /\ m \in 1..Len(input) /\ input'[i] = input[m]
            /\ n \in 1..Len(input) /\ input'[j] = input[n]
        BY <2>2, <2>3, <3>2, <3>3
      <4>2. m = n
        BY <4>1 DEF Placed, InputPlaced
      <4> QED BY <2>2, <3>1, <3>2, <3>3, <4>2
    <3> QED BY <3>2, <3>3
  <2>7. ASSUME NEW u \in Task, stage'[u] = "queued"
        PROVE  \E i \in 1..Len(input') : input'[i].task = u
    <3>1. CASE u = t
      BY <2>2, <2>3, <3>1, Types
    <3>2. CASE u # t
      <4>1. PICK i \in 1..Len(input) : input[i].task = u
        BY <1>4, <2>7, <3>2 DEF Placed, InputPlaced
      <4>2. (IF i < k THEN i ELSE i + 1) \in 1..Len(input')
        BY <2>2, Types
      <4> QED BY <2>3, <4>1, <4>2
    <3> QED BY <3>1, <3>2
  <2> QED BY <2>5, <2>6, <2>7 DEF InputPlaced
<1>7. HandsPlaced' /\ Running' = Running
  BY <1>1, <1>2, <1>4, HandsFrame DEF Placed, Executing
<1>8. OutputPlaced' /\ Reported' = Reported
  BY <1>1, <1>2, <1>4, OutputFrame DEF Placed
<1>9. TasksLead' /\ StackEmptied'
  BY <1>1 DEF Placed, TasksLead, StackEmptied
<1>10. Completed' = Completed
  BY <1>2, <1>4 DEF Completed
<1>11. Promise!Accept(t, first)
  <2>1. t \notin Promise!Known \cup Refusing
    BY <1>2, NotKnown
  <2>2. UNCHANGED <<Running, Reported, Completed>>
    BY <1>7, <1>8, <1>10
  <2> HIDE DEF t
  <2>3. /\ Promise!IsSlot(input, Prio[t], first, k)
        /\ input' = Promise!InsertedAt(input, k, e)
    BY <1>3 DEF IsSlot, StaysAhead, InsertedAt,
                Promise!IsSlot, Promise!StaysAhead, Promise!InsertedAt
  <2> QED BY <1>3, <2>1, <2>2, <2>3 DEF Promise!Accept
<1> QED BY <1>2, <1>5, <1>6, <1>7, <1>8, <1>9, <1>11 DEF Placed, Promised, Promise!Next

LEMMA PostPromised ==
    ASSUME IInv, Placed, NEW th \in Threads, Post(th)
    PROVE  Placed' /\ Promised
<1> USE DEF queueVars, eventVars, mainVars, cancelVars, workerVars
<1> DEFINE x == call[th].item
<1>1. /\ call[th].at = "post"
      /\ call' = [call EXCEPT ![th] = [at |-> "signal", item |-> x]]
      /\ stage' = [stage EXCEPT ![x] = "output"]
      /\ UNCHANGED <<input, stack, pc, held>>
  BY DEF Post, Emit
<1>2. x \in Task \cup Func
  BY <1>1, Types DEF CallsCarry
<1>3. \A u \in Task : stage'[u] = IF u = x THEN "output" ELSE stage[u]
  BY <1>1, Types
<1>4. CallsPlaced'
  BY <1>1, <1>3, CallsEnd DEF Placed
<1>5. CASE x \notin Task
  <2>1. UNCHANGED output
    BY <1>5 DEF Post, Emit
  <2>2. StackEmptied'
    BY <1>1, <2>1 DEF Placed, StackEmptied
  <2> QED BY <1>1, <1>3, <1>4, <1>5, <2>1, <2>2, QuietStep DEF Executing
<1>6. CASE x \in Task
  <2>1. stage[x] = "refused" /\ x \in Refusing /\ output' = Append(output, x)
    BY <1>1, <1>6 DEF Post, Emit, Placed, CallsPlaced
  <2>2. InputPlaced'
    BY <1>1, <1>3, <2>1, InputFrame DEF Placed
  <2>3. HandsPlaced' /\ Running' = Running
    BY <1>1, <1>3, <2>1, HandsFrame DEF Placed, Executing
  <2>4. OutputPlaced' /\ TasksLead' /\ Reported' = Append(Reported, x)
    BY <1>1, <1>3, <1>6, <2>1, OutputAdds DEF Placed
  <2>5. StackEmptied'
    BY <1>1 DEF Placed, StackEmptied
  <2>6. Completed' = Completed
    BY <1>3, <2>1 DEF Completed
  <2>7. Promise!Refuse(x)
    BY <1>1, <1>6, <2>1, <2>3, <2>4, <2>6, NotKnown DEF Promise!Refuse
  <2> QED BY <1>4, <1>6, <2>2, <2>3, <2>4, <2>5, <2>7 DEF Placed, Promised, Promise!Next
<1> QED BY <1>2, <1>5, <1>6

\* The calls' steps are steps of the promise.
LEMMA CallsPromised ==
    ASSUME IInv, Placed, NEW th \in Threads, Calls(th) \/ Caller(th)
    PROVE  Placed' /\ Promised
<1> USE DEF queueVars, eventVars, mainVars, cancelVars, workerVars
<1>1. ASSUME NEW t \in Task, Perform(th, t) PROVE Placed' /\ Promised
  BY <1>1, CallsBegin DEF Perform, MayCall
<1>2. ASSUME NEW f \in Func, OnMainThread(th, f) PROVE Placed' /\ Promised
  <2>1. f \notin Task
    BY EQAssumption
  <2> QED BY <1>2, <2>1, CallsBegin DEF OnMainThread, MayCall
<1>3. ASSUME call' = [call EXCEPT ![th] = NoCall],
             UNCHANGED <<input, output, stack, pc, held, stage>>
      PROVE  Placed' /\ Promised
  <2>1. CallsPlaced'
    BY <1>3, CallsEnd DEF Placed, NoCall
  <2>2. StackEmptied' /\ Executing' = Executing
    BY <1>3 DEF Placed, StackEmptied, Executing
  <2> QED BY <1>3, <2>1, <2>2, QuietStep
<1>4. CASE WriteToken(th)
  BY <1>3, <1>4 DEF WriteToken
<1>5. CASE Signal(th)
  BY <1>3, <1>5 DEF Signal
<1> QED BY <1>1, <1>2, <1>4, <1>5, PushPromised, PostPromised DEF Calls, Caller

-------------------------------------------------------------------------------
\* The workers.

\* A step of a worker that takes, executes and reports no task.
LEMMA WorkerQuiet ==
    ASSUME IInv, Placed, NEW w \in Workers, NEW label, Goto(w, label),
           UNCHANGED <<input, output, stack, call, stage>>,
           \A v \in Workers \ {w} : held'[v] = held[v],
           \/ w \in Executing /\ held'[w] = held[w] /\ pc[w] # "report" /\ label = "execute"
           \/ w \notin Executing /\ (label \notin {"forward", "execute", "report"}
                                        \/ held'[w] = NULL)
    PROVE  Placed' /\ Promised
<1>1. /\ \A v \in Workers : pc'[v] = IF v = w THEN label ELSE pc[v]
      /\ pc'[Main] = pc[Main]
  BY Types DEF Goto
<1>2. CallsPlaced' /\ StackEmptied'
  BY <1>1, CallsFrame DEF Placed, StackEmptied
<1>3. Executing' = Executing
  BY <1>1 DEF Executing
<1>4. \A v \in Executing : /\ held'[v] = held[v]
                           /\ pc'[v] = "report" <=> pc[v] = "report"
  BY <1>1 DEF Executing
<1> QED BY <1>2, <1>3, <1>4, QuietStep

LEMMA TakePromised ==
    ASSUME IInv, Placed, NEW w \in Workers, pc[w] = "pop",
           NEW label \in {"forward", "execute"}, Goto(w, label), input # <<>>, input' = Tail(input),
           held' = [held EXCEPT ![w] = Head(input).task],
           stage' = [stage EXCEPT ![Head(input).task] = "taken"],
           UNCHANGED <<output, stack, call>>
    PROVE  Placed' /\ Promised
<1> DEFINE t == Head(input).task
<1>1. /\ Len(input) \in Nat \ {0} /\ t = input[1].task
      /\ Len(input') = Len(input) - 1
      /\ \A i \in 1..Len(input') : input'[i] = input[i + 1]
  BY Types, HeadIsFirst, HeadTailProperties
<1>2. t \in Task /\ stage[t] = "queued"
  BY <1>1, Types DEF Placed, InputPlaced
<1>3. /\ \A u \in Task : stage'[u] = IF u = t THEN "taken" ELSE stage[u]
      /\ \A v \in Workers : held'[v] = IF v = w THEN t ELSE held[v]
      /\ \A v \in Workers : pc'[v] = IF v = w THEN label ELSE pc[v]
      /\ pc'[Main] = pc[Main]
  BY Types DEF Goto
<1> HIDE DEF t
<1>4. CallsPlaced'
  BY <1>2, <1>3, CallsFrame DEF Placed
<1>5. InputPlaced'
  <2>1. \A i \in 1..Len(input') : i + 1 \in 1..Len(input) /\ i + 1 # 1
    BY <1>1
  <2>2. \A i \in 1..Len(input') : input'[i].task # t /\ input'[i].task \in Task
    BY <1>1, <2>1, Types DEF Placed, InputPlaced
  <2>3. \A i \in 1..Len(input') : stage'[input'[i].task] = "queued"
    BY <1>1, <1>3, <2>1, <2>2 DEF Placed, InputPlaced
  <2>4. \A i, j \in 1..Len(input') : input'[i].task = input'[j].task => i = j
    <3> SUFFICES ASSUME NEW i \in 1..Len(input'), NEW j \in 1..Len(input'),
                        input'[i].task = input'[j].task
                 PROVE  i = j
      OBVIOUS
    <3>1. i + 1 = j + 1
      BY <1>1, <2>1 DEF Placed, InputPlaced
    <3> QED BY <3>1
  <2>5. ASSUME NEW u \in Task, stage'[u] = "queued"
        PROVE  \E i \in 1..Len(input') : input'[i].task = u
    <3>1. u # t /\ stage[u] = "queued"
      BY <1>3, <2>5
    <3>2. PICK i \in 1..Len(input) : input[i].task = u
      BY <3>1 DEF Placed, InputPlaced
    <3>3. i - 1 \in 1..Len(input') /\ (i - 1) + 1 = i
      BY <1>1, <3>1, <3>2
    <3> QED BY <1>1, <3>2, <3>3
  <2> QED BY <2>3, <2>4, <2>5 DEF InputPlaced
<1>6. Executing' = Executing \cup {w} /\ w \notin Executing
  BY <1>2, <1>3, Types DEF Executing
<1>7. HandsPlaced'
  <2>1. \A v \in Executing : held[v] # t /\ held[v] \in Task
    BY <1>2, Types DEF Placed, HandsPlaced, Executing
  <2>2. \A v \in Executing' : stage'[held'[v]] = IF pc'[v] = "report" THEN "executed" ELSE "taken"
    BY <1>2, <1>3, <1>6, <2>1 DEF Placed, HandsPlaced, Executing
  <2>3. \A v, x \in Executing' : held'[v] = held'[x] => v = x
    BY <1>3, <1>6, <2>1 DEF Placed, HandsPlaced, Executing
  <2>4. ASSUME NEW u \in Task, stage'[u] \in {"taken", "executed"}
        PROVE  \E v \in Executing' : held'[v] = u
    BY <1>3, <1>6, <2>4 DEF Placed, HandsPlaced, Executing
  <2> QED BY <2>2, <2>3, <2>4 DEF HandsPlaced
<1>8. OutputPlaced' /\ Reported' = Reported
  BY <1>2, <1>3, OutputFrame DEF Placed
<1>9. TasksLead' /\ StackEmptied'
  BY <1>3 DEF Placed, TasksLead, StackEmptied
<1>10. Running' = Running \cup {t}
  BY <1>3, <1>6 DEF Running, Executing
<1>11. Completed' = Completed
  BY <1>2, <1>3 DEF Completed
<1>12. Promise!Take
  BY <1>8, <1>10, <1>11 DEF Promise!Take, t
<1> QED BY <1>4, <1>5, <1>7, <1>8, <1>9, <1>12 DEF Placed, Promised, Promise!Next

LEMMA ExecutedPromised ==
    ASSUME IInv, Placed, NEW w \in Workers, Executed(w)
    PROVE  Placed' /\ Promised
<1> USE DEF queueVars, eventVars, mainVars, cancelVars, workerVars
<1> DEFINE t == held[w]
<1>1. /\ pc[w] = "execute" /\ stage[t] = "taken" /\ t \in Task
      /\ stage' = [stage EXCEPT ![t] = "executed"]
      /\ UNCHANGED <<input, output, stack, held, call>>
  <2>1. pc[w] = "execute" /\ w \in Executing /\ t \in Task
    BY Types DEF Executed, Executing, HandsMatch, HandLabel
  <2> QED BY <2>1 DEF Executed, Placed, HandsPlaced
<1>2. /\ \A v \in Workers : pc'[v] = IF v = w THEN "report" ELSE pc[v]
      /\ pc'[Main] = pc[Main]
      /\ \A u \in Task : stage'[u] = IF u = t THEN "executed" ELSE stage[u]
  BY <1>1, Types DEF Executed, Goto
<1>3. CallsPlaced' /\ InputPlaced' /\ OutputPlaced' /\ Reported' = Reported
  BY <1>1, <1>2, CallsFrame, InputFrame, OutputFrame DEF Placed
<1>4. /\ Executing' = Executing /\ w \in Executing
      /\ \A v \in Executing : held[v] = t => v = w
  BY <1>1, <1>2, Types DEF Executing, Placed, HandsPlaced
<1>5. HandsPlaced'
  <2>1. \A v \in Executing : held[v] \in Task
    BY Types DEF Executing
  <2>2. \A v \in Executing' : stage'[held'[v]] = IF pc'[v] = "report" THEN "executed" ELSE "taken"
    BY <1>1, <1>2, <1>4, <2>1 DEF Placed, HandsPlaced, Executing
  <2>3. \A u \in Task : stage'[u] \in {"taken", "executed"} => \E v \in Executing' : held'[v] = u
    BY <1>1, <1>2, <1>4 DEF Placed, HandsPlaced
  <2> QED BY <1>1, <1>4, <2>2, <2>3 DEF Placed, HandsPlaced
<1>6. TasksLead' /\ StackEmptied'
  BY <1>1, <1>2 DEF Placed, TasksLead, StackEmptied
<1>7. Running' = Running /\ Completed' = Completed
  BY <1>1, <1>2, <1>4 DEF Running, Completed
<1> QED BY <1>1, <1>3, <1>5, <1>6, <1>7 DEF Placed, Promised, Promise!vars

LEMMA ReportPromised ==
    ASSUME IInv, Placed, NEW w \in Workers, Report(w)
    PROVE  Placed' /\ Promised
<1> USE DEF queueVars, eventVars, mainVars, cancelVars, workerVars
<1> DEFINE t == held[w]
<1>1. /\ pc[w] = "report" /\ stage[t] = "executed" /\ t \in Task
      /\ UNCHANGED <<input, stack, held, call>>
  <2>1. pc[w] = "report" /\ w \in Executing /\ t \in Task
    BY Types DEF Report, Executing, HandsMatch, HandLabel
  <2> QED BY <2>1 DEF Report, Placed, HandsPlaced
<1>2. /\ \A v \in Workers : pc'[v] = IF v = w THEN "uncount" ELSE pc[v]
      /\ pc'[Main] = pc[Main]
  BY Types DEF Report, Goto
<1>3. PICK to \in {"done", "output"} :
        /\ \A u \in Task : stage'[u] = IF u = t THEN to ELSE stage[u]
        /\ t \in Silent <=> to = "done"
        /\ to = "done" => UNCHANGED output
        /\ to = "output" => output' = Append(output, t)
  BY <1>1, Types DEF Report, Emit
<1>4. CallsPlaced' /\ InputPlaced'
  BY <1>1, <1>3, CallsFrame, InputFrame DEF Placed
<1>5. /\ Executing' = Executing \ {w} /\ w \in Executing
      /\ \A v \in Executing : held[v] = t => v = w
  BY <1>1, <1>2, Types DEF Executing, Placed, HandsPlaced
<1>6. HandsPlaced'
  <2>1. \A v \in Executing' : held[v] \in Task /\ held[v] # t
    BY <1>5, Types DEF Executing
  <2>2. \A v \in Executing' : stage'[held'[v]] = IF pc'[v] = "report" THEN "executed" ELSE "taken"
    <3>1. \A v \in Executing' : stage'[held'[v]] = stage[held[v]] /\ pc'[v] = pc[v]
      BY <1>1, <1>2, <1>3, <1>5, <2>1 DEF Executing
    <3> QED BY <1>5, <3>1 DEF Placed, HandsPlaced
  <2>3. \A u \in Task : stage'[u] \in {"taken", "executed"} => \E v \in Executing' : held'[v] = u
    BY <1>1, <1>3, <1>5 DEF Placed, HandsPlaced
  <2> QED BY <1>1, <1>5, <2>2, <2>3 DEF Placed, HandsPlaced
<1>7. StackEmptied'
  BY <1>1, <1>2 DEF Placed, StackEmptied
<1>8. Running' = Running \ {t} /\ t \in Running
  BY <1>1, <1>5 DEF Running
<1>9. CASE to = "done"
  <2>1. OutputPlaced' /\ Reported' = Reported /\ TasksLead'
    BY <1>1, <1>3, <1>9, OutputFrame DEF Placed, TasksLead
  <2>2. Completed' = Completed \cup {t}
    BY <1>1, <1>3, <1>9 DEF Completed
  <2>3. Promise!Report(t)
    BY <1>1, <1>3, <1>8, <1>9, <2>1, <2>2 DEF Promise!Report
  <2> QED BY <1>1, <1>4, <1>6, <1>7, <2>1, <2>3 DEF Placed, Promised, Promise!Next
<1>10. CASE to = "output"
  <2>1. OutputPlaced' /\ TasksLead' /\ Reported' = Append(Reported, t)
    BY <1>1, <1>3, <1>10, OutputAdds DEF Placed
  <2>2. Completed' = Completed
    BY <1>1, <1>3, <1>10 DEF Completed
  <2>3. Promise!Report(t)
    BY <1>1, <1>3, <1>8, <1>10, <2>1, <2>2 DEF Promise!Report
  <2> QED BY <1>1, <1>4, <1>6, <1>7, <2>1, <2>3 DEF Placed, Promised, Promise!Next
<1> QED BY <1>9, <1>10

\* A worker's steps are steps of the promise.
LEMMA WorkerPromised ==
    ASSUME IInv, Placed, NEW w \in Workers, Worker(w)
    PROVE  Placed' /\ Promised
<1> USE DEF queueVars, eventVars, mainVars, cancelVars, workerVars
<1>1. ASSUME NEW label, label \notin {"forward", "execute", "report"}, Goto(w, label),
             pc[w] \notin {"forward", "execute", "report"},
             UNCHANGED <<input, output, stack, call, stage>>,
             \A v \in Workers \ {w} : held'[v] = held[v]
      PROVE  Placed' /\ Promised
  BY <1>1, WorkerQuiet DEF Executing
<1>2. CASE Register(w)
  BY <1>1, <1>2 DEF Register
<1>3. CASE PollEvents(w)
  BY <1>1, <1>3 DEF PollEvents, EpollWait
<1>4. CASE PollNothing(w)
  <2>1. CallsPlaced' /\ StackEmptied' /\ Executing' = Executing
    BY <1>4, CallsFrame DEF PollNothing, Placed, StackEmptied, Executing
  <2> QED BY <1>4, <2>1, QuietStep DEF PollNothing
<1>5. CASE Read(w)
  BY <1>1, <1>5 DEF Read, RoundEnds
<1>6. CASE Pop(w)
  <2>0. pc[w] = "pop" /\ held[w] = NULL
    BY <1>6, Types DEF Pop, HandsMatch, HandLabel
  <2>1. CASE input = <<>> /\ AfterPop(w, NULL) /\ UNCHANGED <<input, held, stage>>
    <3>1. \E label \in {"forward", "dispose", "poll"} : Goto(w, label)
      BY <2>1 DEF AfterPop, RoundEnds
    <3> QED BY <1>6, <2>0, <2>1, <3>1, WorkerQuiet DEF Pop, Executing
  <2>2. CASE /\ input # <<>> /\ AfterPop(w, Head(input).task) /\ input' = Tail(input)
             /\ held' = [held EXCEPT ![w] = Head(input).task]
             /\ stage' = [stage EXCEPT ![Head(input).task] = "taken"]
    <3>1. Head(input).task \in Task
      BY <2>2, Types, HeadIsFirst
    <3>2. PICK label \in {"forward", "execute"} : Goto(w, label)
      BY <2>2, <3>1, Types DEF AfterPop
    <3> QED BY <1>6, <2>0, <2>2, <3>2, TakePromised DEF Pop
  <2> QED BY <1>6, <2>1, <2>2 DEF Pop
<1>7. CASE Forward(w)
  <2>1. CASE held[w] # NULL
    BY <1>7, <2>1, WorkerQuiet DEF Forward, Executing
  <2>2. CASE held[w] = NULL
    <3>1. \E label : Goto(w, label)
      BY <1>7, <2>2 DEF Forward, RoundEnds
    <3> QED BY <1>7, <2>2, <3>1, WorkerQuiet DEF Forward, Executing
  <2> QED BY <2>1, <2>2
<1>8. CASE Uncount(w)
  <2>1. \A v \in Workers \ {w} : held'[v] = held[v]
    BY <1>8, Types DEF Uncount
  <2> QED BY <1>1, <1>8, <2>1 DEF Uncount, RoundEnds
<1>9. CASE WakeMain(w)
  BY <1>1, <1>9 DEF WakeMain, RoundEnds
<1>10. CASE Dispose(w)
  BY <1>1, <1>10 DEF Dispose
<1> QED BY <1>2, <1>3, <1>4, <1>5, <1>6, <1>7, <1>8, <1>9, <1>10,
           ExecutedPromised, ReportPromised DEF Worker

-------------------------------------------------------------------------------
\* The owner.

\* A step of the owner that moves no task.
LEMMA MainQuiet ==
    ASSUME IInv, Placed, UNCHANGED <<input, output, stack, call, held, stage>>,
           Executing' = Executing, \A w \in Executing : pc'[w] = pc[w],
           stack = <<>> \/ pc'[Main] = pc[Main]
    PROVE  Placed' /\ Promised
<1>1. CallsPlaced' /\ StackEmptied'
  BY CallsFrame DEF Placed, StackEmptied
<1> QED BY <1>1, QuietStep

\* Main takes the reports over, in their order.
LEMMA TakeOutputQuiet ==
    ASSUME IInv, Placed, TakeOutput, pc[Main] # "update"
    PROVE  Placed' /\ Promised
<1> USE DEF queueVars, eventVars, mainVars, cancelVars, workerVars
<1>1. /\ stack' = output \o callbacks /\ output' = <<>>
      /\ UNCHANGED <<input, call, held, stage>>
      /\ pc'[Main] = "update" /\ \A w \in Workers : pc'[w] = pc[w]
      /\ stack = <<>>
  BY Types DEF TakeOutput, Goto, Placed, StackEmptied
<1>2. /\ output \in Seq(Task) /\ callbacks \in Seq(Func) /\ Task \cap Func = {}
      /\ Len(output) \in Nat /\ Len(callbacks) \in Nat
      /\ \A i \in 1..Len(output) : output[i] \in Task
      /\ \A i \in 1..Len(callbacks) : callbacks[i] \in Func
  <2>1. \A i \in 1..Len(callbacks) : callbacks[i] \in Func
    BY Types, ElementOfSeq
  <2> QED BY <2>1, Types
<1>3. CallsPlaced' /\ InputPlaced' /\ HandsPlaced' /\ Running' = Running
  BY <1>1, CallsFrame, InputFrame, HandsFrame DEF Placed, Executing
<1>4. /\ Leading(stack', Task) = output
      /\ Len(output) \in 0..Len(stack')
      /\ \A i \in 1..Len(stack') : stack'[i] \in Task <=> i <= Len(output)
  BY <1>1, <1>2, LeadingConcat
<1>5. /\ Len(stack') = Len(output) + Len(callbacks)
      /\ \A i \in 1..Len(output) : stack'[i] = output[i]
      /\ Len(output') = 0
  BY <1>1, <1>2, ConcatProperties, EmptySeq
<1>6. OutputPlaced'
  <2>1. \A i \in 1..Len(stack') : stack'[i] \in Task =>
            i \in 1..Len(output) /\ stack'[i] = output[i]
    BY <1>2, <1>4, <1>5
  <2>2. \A i \in 1..Len(stack') : stack'[i] \in Task => stage'[stack'[i]] = "output"
    BY <1>1, <2>1 DEF Placed, OutputPlaced
  <2>3. \A i, j \in 1..Len(stack') : stack'[i] = stack'[j] /\ stack'[i] \in Task => i = j
    BY <2>1 DEF Placed, OutputPlaced
  <2>4. ASSUME NEW t \in Task, stage'[t] = "output"
        PROVE  \E i \in 1..Len(stack') : stack'[i] = t
    <3>1. Len(stack) = 0
      BY <1>1, EmptySeq
    <3>2. PICK i \in 1..Len(output) : output[i] = t
      BY <1>1, <2>4, <3>1 DEF Placed, OutputPlaced
    <3>3. i \in 1..Len(stack')
      BY <1>2, <1>5
    <3> QED BY <1>5, <3>2, <3>3
  <2> QED BY <1>5, <2>2, <2>3, <2>4 DEF OutputPlaced
<1>7. TasksLead' /\ StackEmptied'
  BY <1>1, <1>4, <1>5 DEF TasksLead, StackEmptied
<1>8. Reported' = Reported
  <2>1. Leading(stack, Task) = <<>>
    <3>1. \A i \in 1..Len(stack) : stack[i] \notin Task
      BY <1>1, EmptySeq
    <3> QED BY <3>1, Types, LeadingNothing
  <2> QED BY <1>1, <1>2, <1>4, <2>1, ConcatEmptySeq DEF Reported
<1>9. Completed' = Completed
  BY <1>1 DEF Completed
<1> QED BY <1>1, <1>3, <1>6, <1>7, <1>8, <1>9 DEF Placed, Promised, Promise!vars

\* The owner completes the task that was reported first, or runs a function.
LEMMA CompletePromised ==
    ASSUME IInv, Placed, Complete
    PROVE  Placed' /\ Promised
<1> USE DEF queueVars, eventVars, mainVars, cancelVars, workerVars
<1> DEFINE x == Head(stack)
<1>1. /\ pc[Main] = "update" /\ stack # <<>> /\ stack' = Tail(stack)
      /\ stage' = [stage EXCEPT ![x] = "done"]
      /\ UNCHANGED <<input, output, pc, call, held>>
  BY DEF Complete
<1>2. /\ Len(stack) \in Nat \ {0} /\ x = stack[1] /\ x \in Task \cup Func
      /\ Len(stack') = Len(stack) - 1
      /\ \A i \in 1..Len(stack') : stack'[i] = stack[i + 1]
  BY <1>1, Types, HeadIsFirst, HeadTailProperties
<1>3. \A t \in Task : stage'[t] = IF t = x THEN "done" ELSE stage[t]
  BY <1>1, Types
<1>4. x \in Task => stage[x] = "output"
  BY <1>2 DEF Placed, OutputPlaced
<1>5. PICK n \in 0..Len(stack) : \A i \in 1..Len(stack) : stack[i] \in Task <=> i <= n
  BY DEF Placed, TasksLead
<1> HIDE DEF x
<1>6. CallsPlaced' /\ InputPlaced' /\ HandsPlaced' /\ Running' = Running
  BY <1>1, <1>3, <1>4, CallsFrame, InputFrame, HandsFrame DEF Placed, Executing
<1>7. StackEmptied'
  BY <1>1 DEF Placed, StackEmptied
<1>8. \A i \in 1..Len(stack') : i + 1 \in 1..Len(stack) /\ i + 1 # 1
  BY <1>2
<1>9. OutputPlaced'
  <2>1. \A i \in 1..Len(output) : output[i] \in Task /\ output[i] # x
    BY <1>2, Types DEF Placed, OutputPlaced
  <2>2. \A i \in 1..Len(stack') : stack'[i] \in Task => stack'[i] # x
    BY <1>2, <1>8 DEF Placed, OutputPlaced
  <2>3. \A i \in 1..Len(output') : stage'[output'[i]] = "output"
    BY <1>1, <1>3, <2>1 DEF Placed, OutputPlaced
  <2>4. \A i \in 1..Len(stack') : stack'[i] \in Task => stage'[stack'[i]] = "output"
    BY <1>2, <1>3, <1>8, <2>2 DEF Placed, OutputPlaced
  <2>5. \A i, j \in 1..Len(stack') : stack'[i] = stack'[j] /\ stack'[i] \in Task => i = j
    <3> SUFFICES ASSUME NEW i \in 1..Len(stack'), NEW j \in 1..Len(stack'),
                        stack'[i] = stack'[j], stack'[i] \in Task
                 PROVE  i = j
      OBVIOUS
    <3>1. i + 1 = j + 1
      BY <1>2, <1>8 DEF Placed, OutputPlaced
    <3> QED BY <3>1
  <2>6. \A i \in 1..Len(stack'), j \in 1..Len(output') : stack'[i] # output'[j]
    BY <1>1, <1>2, <1>8 DEF Placed, OutputPlaced
  <2>7. ASSUME NEW t \in Task, stage'[t] = "output"
        PROVE  \/ \E i \in 1..Len(output') : output'[i] = t
               \/ \E i \in 1..Len(stack') : stack'[i] = t
    <3>1. t # x /\ stage[t] = "output"
      BY <1>3, <2>7
    <3>2. CASE \E i \in 1..Len(output) : output[i] = t
      BY <1>1, <3>2
    <3>3. ASSUME NEW i \in 1..Len(stack), stack[i] = t
          PROVE  \E j \in 1..Len(stack') : stack'[j] = t
      <4>1. i - 1 \in 1..Len(stack') /\ (i - 1) + 1 = i
        BY <1>2, <3>1, <3>3
      <4> QED BY <1>2, <3>3, <4>1
    <3> QED BY <3>1, <3>2, <3>3 DEF Placed, OutputPlaced
  <2> QED BY <1>1, <2>3, <2>4, <2>5, <2>6, <2>7 DEF Placed, OutputPlaced
<1>10. CASE x \in Task
  <2>1. /\ Leading(stack, Task) # <<>>
        /\ Head(Leading(stack, Task)) = x
        /\ Leading(stack', Task) = Tail(Leading(stack, Task))
        /\ n - 1 \in 0..Len(stack')
        /\ \A i \in 1..Len(stack') : stack'[i] \in Task <=> i <= n - 1
    BY <1>1, <1>5, <1>10, Types, LeadingTail DEF x
  <2>2. Leading(stack, Task) \in Seq(Task) /\ output \in Seq(Task)
    BY <1>5, Types, LeadingPrefix
  <2>3. /\ Reported # <<>> /\ Head(Reported) = x
        /\ Reported' = Tail(Reported)
    <3> DEFINE s == Leading(stack, Task)
    <3>1. s \in Seq(Task) /\ s # <<>> /\ output \in Seq(Task) /\ Head(s) = x
          /\ Reported = s \o output /\ Reported' = Tail(s) \o output
      BY <1>1, <2>1, <2>2 DEF Reported
    <3> HIDE DEF s
    <3> QED BY <3>1, ConcatEnds
  <2>4. Completed' = Completed \cup {x}
    BY <1>3, <1>10 DEF Completed
  <2>5. TasksLead'
    BY <2>1 DEF TasksLead
  <2>6. Promise!Complete
    BY <1>1, <1>6, <2>3, <2>4 DEF Promise!Complete
  <2> QED BY <1>6, <1>7, <1>9, <2>5, <2>6 DEF Placed, Promised, Promise!Next
<1>11. CASE x \notin Task
  <2>1. n = 0
    BY <1>2, <1>5, <1>11
  <2>2. /\ \A i \in 1..Len(stack) : stack[i] \notin Task
        /\ \A i \in 1..Len(stack') : stack'[i] \notin Task
    BY <1>2, <1>5, <1>8, <2>1
  <2>3. stack' \in Seq(Task \cup Func)
    BY <1>1, Types, HeadTailProperties
  <2>4. Leading(stack, Task) = <<>> /\ Leading(stack', Task) = <<>>
    <3> DEFINE r == stack'
    <3>1. r \in Seq(Task \cup Func) /\ \A i \in 1..Len(r) : r[i] \notin Task
      BY <2>2, <2>3
    <3> HIDE DEF r
    <3>2. Leading(r, Task) = <<>>
      BY <3>1, LeadingNothing
    <3>3. Leading(stack, Task) = <<>>
      BY <2>2, Types, LeadingNothing
    <3> QED BY <3>2, <3>3 DEF r
  <2>5. Reported' = Reported
    BY <1>1, <2>4 DEF Reported
  <2>6. TasksLead'
    <3>1. 0 \in 0..Len(stack') /\ \A i \in 1..Len(stack') : ~(i <= 0)
      BY <1>2
    <3> QED BY <2>2, <3>1 DEF TasksLead
  <2>7. Completed' = Completed
    BY <1>3, <1>11 DEF Completed
  <2> QED BY <1>1, <1>6, <1>7, <1>9, <2>5, <2>6, <2>7 DEF Placed, Promised, Promise!vars
<1> QED BY <1>10, <1>11

\* The owner's steps are steps of the promise.
LEMMA MainPromised ==
    ASSUME IInv, Placed, MainStep \/ MainCall
    PROVE  Placed' /\ Promised
<1> USE DEF queueVars, eventVars, mainVars, cancelVars, workerVars
<1>0. pc[Main] # "update" => stack = <<>>
  BY DEF Placed, StackEmptied
<1>1. ASSUME NEW label, Goto(Main, label), stack = <<>>,
             UNCHANGED <<input, output, stack, call, held, stage>>
      PROVE  Placed' /\ Promised
  <2>1. \A w \in Workers : pc'[w] = pc[w]
    BY <1>1, Types DEF Goto
  <2>2. Executing' = Executing
    BY <1>1, <2>1 DEF Executing
  <2> QED BY <1>1, <2>1, <2>2, MainQuiet DEF Executing
<1>2. CASE Updated \/ Timeout
  BY <1>0, <1>1, <1>2 DEF Updated, Timeout
<1>3. CASE MainEpoll
  <2>1. CASE UNCHANGED pc
    BY <1>3, <2>1, MainQuiet DEF MainEpoll, Executing
  <2>2. CASE mainEvent
    BY <1>0, <1>1, <1>3, <2>2 DEF MainEpoll
  <2> QED BY <1>3, <2>1, <2>2 DEF MainEpoll
<1>4. CASE Join \/ CancelWorkers \/ Destroy
  BY <1>0, <1>1, <1>4 DEF Join, CancelWorkers, Destroy, MainIdle
<1>5. CASE Wait
  BY <1>0, <1>1, <1>5 DEF Wait, MainIdle
<1>6. CASE Woken \/ Update
  BY <1>6, TakeOutputQuiet DEF Woken, Update, MainIdle
<1>7. CASE SpawnWorkers
  <2>1. /\ pc'[Main] = pc[Main] /\ \A w \in Workers : pc[w] = "none" /\ pc'[w] = "start"
        /\ UNCHANGED <<input, output, stack, call, held, stage>>
    BY <1>7, Types DEF SpawnWorkers
  <2>2. Executing = {} /\ Executing' = {}
    BY <2>1 DEF Executing
  <2> QED BY <2>1, <2>2, MainQuiet
<1> QED BY <1>2, <1>3, <1>4, <1>5, <1>6, <1>7, CompletePromised DEF MainStep, MainCall

-------------------------------------------------------------------------------
LEMMA StutterPromised == Placed /\ UNCHANGED vars => Placed' /\ Promised
BY DEF vars, queueVars, eventVars, mainVars, cancelVars, workerVars, Placed, CallsPlaced,
       InputPlaced, HandsPlaced, OutputPlaced, TasksLead, StackEmptied, Promised,
       Promise!vars, Executing, Running, Reported, Completed

LEMMA InitPlaced == Init => Placed /\ Promise!Init
<1> SUFFICES ASSUME Init PROVE Placed /\ Promise!Init
  OBVIOUS
<1>1. /\ input = <<>> /\ output = <<>> /\ stack = <<>>
      /\ \A th \in Threads : call[th] = NoCall
      /\ \A t \in Task \cup Func : stage[t] = "new"
      /\ \A w \in Workers : pc[w] = "none"
  BY EQAssumption DEF Init
<1>2. Len(input) = 0 /\ Len(output) = 0 /\ Len(stack) = 0
  BY <1>1
<1>3. Executing = {} /\ Completed = {} /\ Running = {}
  BY <1>1 DEF Executing, Completed, Running
<1>4. CallsPlaced /\ HandsPlaced
  BY <1>1, <1>3 DEF CallsPlaced, NoCall, HandsPlaced, Executing
<1>5. InputPlaced /\ OutputPlaced /\ StackEmptied
  BY <1>1, <1>2 DEF InputPlaced, OutputPlaced, StackEmptied
<1>6. TasksLead
  <2>1. 0 \in 0..Len(stack) /\ \A i \in 1..Len(stack) : FALSE
    BY <1>2
  <2> QED BY <2>1 DEF TasksLead
<1>7. Reported = <<>>
  <2>1. /\ stack \in Seq(Task \cup Func) /\ output \in Seq(Task)
        /\ \A i \in 1..Len(stack) : stack[i] \notin Task
    BY <1>1, <1>2, EmptySeq
  <2>2. Leading(stack, Task) = <<>>
    BY <2>1, LeadingNothing
  <2> QED BY <1>1, <2>1, <2>2, ConcatEmptySeq DEF Reported
<1> QED BY <1>1, <1>3, <1>4, <1>5, <1>6, <1>7 DEF Placed, Promise!Init

LEMMA StepPromised == IInv /\ Placed /\ [Next]_vars => Placed' /\ Promised
<1> SUFFICES ASSUME IInv, Placed, Next PROVE Placed' /\ Promised
  BY StutterPromised
<1> QED BY CallsPromised, WorkerPromised, MainPromised DEF Next

LEMMA PlacedHolds == Spec => []Placed
BY InitPlaced, StepPromised, InvHolds, PTL DEF Spec

\* EventTaskQueue does what TaskQueueSpec promises: whatever the threads do at once, a
\* task is queued at the place its priority gives it, taken in turn, executed and
\* completed once, and completed in the order of the reports.
THEOREM PromiseHolds == Spec => ImplementsPromise
<1>1. Init => Promise!Init
  BY InitPlaced
<1>2. IInv /\ Placed /\ [Next]_vars => [Promise!Next]_(Promise!vars)
  BY StepPromised DEF Promised
<1> QED BY <1>1, <1>2, InvHolds, PlacedHolds, PTL DEF Spec, ImplementsPromise, Promise!Spec

-------------------------------------------------------------------------------
\* Tokens and tasks.

\* A worker has tokens from reading them to the last one used or written back.
TokensHeld == \A w \in Workers : pc[w] \notin {"pop", "forward"} => value[w] = 0

Covered == TokensHeld /\ TokensCoverTasks

\* The tokens of the threads W, each of which has f.
ReadIn(f, W) == UNION {{w} \X (1..f[w]) : w \in W}

LEMMA ReadByOne ==
    ASSUME NEW f \in [Workers -> Nat], NEW w \in Workers
    PROVE  /\ Cardinality(ReadIn(f, Workers \ {w})) \in Nat
           /\ Cardinality(ReadIn(f, Workers)) = Cardinality(ReadIn(f, Workers \ {w})) + f[w]
<1> DEFINE others == ReadIn(f, Workers \ {w})
           mine == {w} \X (1..f[w])
<1>1. ASSUME NEW v \in Workers
      PROVE  IsFiniteSet({v} \X (1..f[v])) /\ Cardinality({v} \X (1..f[v])) = f[v]
  <2>1. IsFiniteSet(1..f[v]) /\ Cardinality(1..f[v]) = f[v]
    BY FS_Interval
  <2>2. IsFiniteSet({v}) /\ Cardinality({v}) = 1
    BY FS_Singleton
  <2>3. /\ IsFiniteSet({v} \X (1..f[v]))
        /\ Cardinality({v} \X (1..f[v])) = Cardinality({v}) * Cardinality(1..f[v])
    BY <2>1, <2>2, FS_Product
  <2> QED BY <2>1, <2>2, <2>3
<1>2. IsFiniteSet(others)
  <2> DEFINE img == {{v} \X (1..f[v]) : v \in Workers \ {w}}
             g == [v \in Workers \ {w} |-> {v} \X (1..f[v])]
  <2>1. IsFiniteSet(Workers \ {w})
    BY Finite, FS_Subset
  <2>2. g \in Surjection(Workers \ {w}, img)
    BY DEF Surjection
  <2>3. \A T \in img : IsFiniteSet(T)
    BY <1>1
  <2>4. others = UNION img
    BY DEF ReadIn
  <2> HIDE DEF g, img, others
  <2>5. IsFiniteSet(img)
    BY <2>1, <2>2, FS_Surjection
  <2> QED BY <2>3, <2>4, <2>5, FS_UNION
<1>3. ReadIn(f, Workers) = others \cup mine /\ others \cap mine = {}
  BY DEF ReadIn
<1>4. IsFiniteSet(mine) /\ Cardinality(mine) = f[w] /\ f[w] \in Nat
  BY <1>1
<1> HIDE DEF mine, others
<1>5. Cardinality(others) \in Nat
  BY <1>2, FS_CardinalityType
<1>6. Cardinality(others \cup mine) =
        Cardinality(others) + Cardinality(mine) - Cardinality(others \cap mine)
  BY <1>2, <1>4, FS_Union
<1>7. Cardinality(others \cap mine) = 0
  BY <1>3, FS_EmptySet
<1> QED BY <1>3, <1>4, <1>5, <1>6, <1>7 DEF others

\* A worker that comes to have more tokens, or less.
LEMMA ReadChanges ==
    ASSUME NEW f \in [Workers -> Nat], NEW g \in [Workers -> Nat], NEW w \in Workers,
           \A v \in Workers \ {w} : g[v] = f[v]
    PROVE  /\ Cardinality(ReadIn(f, Workers)) \in Nat /\ Cardinality(ReadIn(g, Workers)) \in Nat
           /\ Cardinality(ReadIn(g, Workers)) + f[w] = Cardinality(ReadIn(f, Workers)) + g[w]
<1>1. ReadIn(g, Workers \ {w}) = ReadIn(f, Workers \ {w})
  BY DEF ReadIn
<1>2. f[w] \in Nat /\ g[w] \in Nat
  OBVIOUS
<1>3. /\ Cardinality(ReadIn(f, Workers \ {w})) \in Nat
      /\ Cardinality(ReadIn(f, Workers)) = Cardinality(ReadIn(f, Workers \ {w})) + f[w]
  BY ReadByOne
<1>4. Cardinality(ReadIn(g, Workers)) = Cardinality(ReadIn(g, Workers \ {w})) + g[w]
  BY ReadByOne
<1> QED BY <1>1, <1>2, <1>3, <1>4

\* The numbers that are compared.
LEMMA Counts ==
    ASSUME IInv
    PROVE  /\ Len(input) \in Nat /\ tokens \in Nat /\ value \in [Workers -> Nat]
           /\ TokensRead = ReadIn(value, Workers)
           /\ IsFiniteSet(Writing) /\ Cardinality(Writing) \in Nat
<1>1. Len(input) \in Nat /\ tokens \in Nat /\ value \in [Workers -> Nat]
  BY LenProperties DEF IInv, TypeOK
<1>2. IsFiniteSet(Writing)
  BY FS_Subset, EQAssumption DEF Writing
<1>3. TokensRead = ReadIn(value, Workers)
  BY DEF TokensRead, ReadIn
<1> QED BY <1>1, <1>2, <1>3, FS_CardinalityType

LEMMA ReadNat ==
    ASSUME IInv
    PROVE  Cardinality(TokensRead) \in Nat
<1>1. CASE Workers = {}
  <2>1. TokensRead = {}
    BY <1>1 DEF TokensRead
  <2> QED BY <2>1, FS_EmptySet
<1>2. ASSUME NEW w \in Workers PROVE Cardinality(TokensRead) \in Nat
  <2>1. value \in [Workers -> Nat] /\ value[w] \in Nat /\ TokensRead = ReadIn(value, Workers)
    BY Counts
  <2>2. /\ Cardinality(ReadIn(value, Workers \ {w})) \in Nat
        /\ Cardinality(ReadIn(value, Workers)) =
                Cardinality(ReadIn(value, Workers \ {w})) + value[w]
    BY <2>1, ReadByOne
  <2> QED BY <2>1, <2>2
<1> QED BY <1>1, <1>2

\* A step that moves no token and queues no task.
LEMMA CoveredFrame ==
    ASSUME Covered, UNCHANGED <<input, tokens, value>>, Writing' = Writing,
           \A w \in Workers : pc'[w] \notin {"pop", "forward"} => pc[w] \notin {"pop", "forward"}
    PROVE  Covered'
<1>1. TokensRead' = TokensRead
  BY DEF TokensRead
<1> QED BY <1>1 DEF Covered, TokensHeld, TokensCoverTasks

\* A worker's step that changes its own tokens: none is lost but for a task taken,
\* or when there is no task.
LEMMA WorkerCovers ==
    ASSUME IInv, Covered, NEW w \in Workers, NEW n \in Nat, NEW queued \in Nat,
           NEW left \in Nat, Len(input') = queued, tokens' = left,
           value' = [value EXCEPT ![w] = n], UNCHANGED call,
           queued = 0 \/ left + n + Len(input) >= tokens + value[w] + queued,
           \A v \in Workers \ {w} : pc'[v] = pc[v],
           pc'[w] \notin {"pop", "forward"} => n = 0
    PROVE  Covered'
<1>1. /\ value \in [Workers -> Nat] /\ value[w] \in Nat
      /\ Len(input) \in Nat /\ tokens \in Nat /\ Cardinality(Writing) \in Nat
      /\ TokensRead = ReadIn(value, Workers)
  BY Counts
<1>2. TokensRead' = ReadIn(value', Workers)
  BY DEF TokensRead, ReadIn
<1>3. /\ Cardinality(TokensRead) \in Nat /\ Cardinality(TokensRead') \in Nat
      /\ Cardinality(TokensRead') + value[w] = Cardinality(TokensRead) + n
  <2> DEFINE f == value
             g == value'
  <2>1. /\ f \in [Workers -> Nat] /\ g \in [Workers -> Nat] /\ g[w] = n
        /\ \A v \in Workers \ {w} : g[v] = f[v]
    BY <1>1
  <2> HIDE DEF f, g
  <2>2. /\ Cardinality(ReadIn(f, Workers)) \in Nat /\ Cardinality(ReadIn(g, Workers)) \in Nat
        /\ Cardinality(ReadIn(g, Workers)) + f[w] = Cardinality(ReadIn(f, Workers)) + n
    BY <2>1, ReadChanges
  <2>3. TokensRead = ReadIn(f, Workers) /\ TokensRead' = ReadIn(g, Workers) /\ f[w] = value[w]
    BY <1>1, <1>2 DEF f, g
  <2> QED BY <2>2, <2>3, Zenon
<1>4. Writing' = Writing
  BY DEF Writing
<1>5. Len(input) <= tokens + Cardinality(TokensRead) + Cardinality(Writing)
  BY DEF Covered, TokensCoverTasks
<1>6. queued <= left + Cardinality(TokensRead') + Cardinality(Writing)
  BY <1>1, <1>3, <1>5, SMTT(30)
<1>7. TokensCoverTasks'
  BY <1>4, <1>6 DEF TokensCoverTasks
<1>8. TokensHeld'
  BY <1>1 DEF Covered, TokensHeld
<1> QED BY <1>7, <1>8 DEF Covered

\* A task is queued before its token is written, and by the thread that will.
LEMMA CallsCover ==
    ASSUME IInv, Covered, NEW th \in Threads, Calls(th) \/ Caller(th)
    PROVE  Covered'
<1> USE DEF queueVars, eventVars, mainVars, cancelVars, workerVars
<1>0. call \in [Threads -> Call] /\ UNCHANGED <<pc, value>>
  BY DEF IInv, TypeOK, Calls, Caller, Perform, OnMainThread, Push, WriteToken, Post, Signal
<1>1. TokensRead' = TokensRead /\ TokensHeld'
  BY <1>0 DEF TokensRead, Covered, TokensHeld
<1>2. ASSUME UNCHANGED <<input, tokens>>, NEW r, r.at # "write", call[th].at # "write",
             call' = [call EXCEPT ![th] = r]
      PROVE  Covered'
  <2>1. Writing' = Writing
    BY <1>0, <1>2 DEF Writing
  <2> QED BY <1>0, <1>2, <2>1, CoveredFrame
<1>3. CASE Calls(th)
  <2>1. /\ call[th] = NoCall /\ UNCHANGED <<input, tokens>>
        /\ \E r : r.at # "write" /\ call' = [call EXCEPT ![th] = r]
    BY <1>3 DEF Calls, Perform, OnMainThread, MayCall
  <2>2. call[th].at # "write"
    BY <2>1 DEF NoCall
  <2> QED BY <1>2, <2>1, <2>2
<1>4. CASE Post(th)
  BY <1>2, <1>4 DEF Post
<1>5. CASE Signal(th)
  <2>1. NoCall.at # "write"
    BY DEF NoCall
  <2> QED BY <1>2, <1>5, <2>1 DEF Signal
<1>6. ASSUME NEW first \in BOOLEAN, Push(th, first) PROVE Covered'
  <2>1. Len(input') = Len(input) + 1
    <3>1. call[th].item \in Task /\ call[th].at = "push"
      BY <1>6, Types DEF Push, CallsCarry
    <3>2. PICK k \in 1..Len(input) + 1 :
            input' = InsertedAt(input, k, [prio |-> Prio[call[th].item], task |-> call[th].item])
      BY <1>6 DEF Push
    <3>3. [prio |-> Prio[call[th].item], task |-> call[th].item] \in InputEntry
      BY <3>1, EQAssumption DEF InputEntry
    <3> QED BY <3>2, <3>3, Types, InsertedAtType
  <2>2. Writing' = Writing \cup {th} /\ th \notin Writing /\ tokens' = tokens
    BY <1>0, <1>6 DEF Push, Writing
  <2>3. Cardinality(Writing') = Cardinality(Writing) + 1
    BY <2>2, Counts, AddOne
  <2>4. TokensCoverTasks'
    <3>1. Cardinality(TokensRead) \in Nat
      BY Counts, ReadNat
    <3> QED BY <1>1, <2>1, <2>2, <2>3, <3>1, Counts DEF Covered, TokensCoverTasks
  <2> QED BY <1>1, <2>4 DEF Covered
<1>7. CASE WriteToken(th)
  <2>1. /\ UNCHANGED input /\ tokens' = tokens + 1
        /\ Writing' = Writing \ {th} /\ th \in Writing
    BY <1>0, <1>7 DEF WriteToken, Write, Writing, NoCall
  <2>2. Cardinality(Writing') = Cardinality(Writing) - 1
    BY <2>1, Counts, RemoveOne
  <2>3. Cardinality(TokensRead) \in Nat
    BY Counts, ReadNat
  <2>4. TokensCoverTasks'
    BY <1>1, <2>1, <2>2, <2>3, Counts DEF Covered, TokensCoverTasks
  <2> QED BY <1>1, <2>4 DEF Covered
<1> QED BY <1>3, <1>4, <1>5, <1>6, <1>7 DEF Caller

\* A worker takes a task for a token, and writes back those it has left.
LEMMA WorkerKeepsCovered ==
    ASSUME IInv, Covered, NEW w \in Workers, Worker(w)
    PROVE  Covered'
<1> USE DEF queueVars, eventVars, mainVars, cancelVars, workerVars
<1>0. value[w] \in Nat /\ tokens \in Nat /\ Len(input) \in Nat
  BY Counts
<1>1. ASSUME NEW label, label \notin {"pop", "forward"}, Goto(w, label),
             pc[w] \notin {"pop", "forward"}, UNCHANGED <<input, tokens, value, call>>
      PROVE  Covered'
  <2>1. /\ \A v \in Workers : pc'[v] = IF v = w THEN label ELSE pc[v]
        /\ Writing' = Writing
    BY <1>1, Types DEF Goto, Writing
  <2> QED BY <1>1, <2>1, CoveredFrame
<1>2. CASE Register(w)
  BY <1>1, <1>2 DEF Register
<1>3. CASE PollEvents(w)
  BY <1>1, <1>3 DEF PollEvents, EpollWait
<1>4. CASE PollNothing(w)
  BY <1>4, CoveredFrame DEF PollNothing, Writing
<1>5. CASE Read(w)
  <2>1. PICK label : Goto(w, label) /\ (label \notin {"pop", "forward"} => tokens = 0)
    BY <1>0, <1>5 DEF Read, RoundEnds
  <2>2. \A v \in Workers : pc'[v] = IF v = w THEN label ELSE pc[v]
    BY <2>1, Types DEF Goto
  <2>3. value[w] = 0
    BY <1>5 DEF Read, Covered, TokensHeld
  <2>4. Len(input') = Len(input) /\ tokens' = 0 /\ value' = [value EXCEPT ![w] = tokens]
        /\ UNCHANGED call
    BY <1>5 DEF Read
  <2>5. 0 + tokens + Len(input) >= tokens + value[w] + Len(input)
    BY <1>0, <2>3
  <2> QED BY <1>0, <2>1, <2>2, <2>4, <2>5, WorkerCovers
<1>6. CASE Pop(w)
  <2>1. value[w] > 0
    BY <1>6 DEF Pop, IInv, HandsMatch
  <2>2. PICK label : Goto(w, label) /\ (label \notin {"pop", "forward"} => value[w] - 1 = 0)
    BY <1>0, <1>6, <2>1 DEF Pop, AfterPop, RoundEnds
  <2>3. \A v \in Workers : pc'[v] = IF v = w THEN label ELSE pc[v]
    BY <2>2, Types DEF Goto
  <2>4. tokens' = tokens /\ value' = [value EXCEPT ![w] = value[w] - 1] /\ UNCHANGED call
    BY <1>6 DEF Pop
  <2>5. Len(input') \in Nat
        /\ (Len(input') = 0 \/ tokens + (value[w] - 1) + Len(input)
                                    >= tokens + value[w] + Len(input'))
    <3>1. CASE input = <<>> /\ UNCHANGED input
      BY <3>1
    <3>2. CASE input # <<>> /\ input' = Tail(input)
      <4>1. Len(input) \in Nat \ {0} /\ Len(input') = Len(input) - 1
        BY <3>2, Types, HeadIsFirst, HeadTailProperties
      <4> QED BY <1>0, <4>1
    <3> QED BY <1>6, <3>1, <3>2 DEF Pop
  <2>6. value[w] - 1 \in Nat
    BY <1>0, <2>1
  <2> QED BY <1>0, <2>2, <2>3, <2>4, <2>5, <2>6, WorkerCovers
<1>7. CASE Forward(w)
  <2>1. PICK label : Goto(w, label)
    BY <1>7 DEF Forward, RoundEnds
  <2>2. \A v \in Workers : pc'[v] = IF v = w THEN label ELSE pc[v]
    BY <2>1, Types DEF Goto
  <2>3. /\ Len(input') = Len(input) /\ tokens' = tokens + value[w]
        /\ value' = [value EXCEPT ![w] = 0] /\ UNCHANGED call
    BY <1>7 DEF Forward, Write
  <2>4. /\ tokens + value[w] \in Nat
        /\ tokens + value[w] + 0 + Len(input) >= tokens + value[w] + Len(input)
    BY <1>0
  <2> QED BY <1>0, <2>2, <2>3, <2>4, WorkerCovers
<1>8. CASE Executed(w) \/ Report(w)
  BY <1>1, <1>8 DEF Executed, Report
<1>9. CASE Uncount(w)
  BY <1>1, <1>9 DEF Uncount, RoundEnds
<1>10. CASE WakeMain(w) \/ Dispose(w)
  BY <1>1, <1>10 DEF WakeMain, Dispose, RoundEnds
<1> QED BY <1>2, <1>3, <1>4, <1>5, <1>6, <1>7, <1>8, <1>9, <1>10 DEF Worker

\* The owner touches no token.
LEMMA MainKeepsCovered ==
    ASSUME IInv, Covered, MainStep \/ MainCall
    PROVE  Covered'
<1> USE DEF queueVars, eventVars, mainVars, cancelVars, workerVars
<1>1. UNCHANGED <<input, tokens, value, call>>
  BY DEF MainStep, MainCall, Complete, Updated, Woken, MainEpoll, Join, Update, Wait,
         Timeout, SpawnWorkers, CancelWorkers, Destroy, TakeOutput
<1>2. \A w \in Workers : pc'[w] = pc[w] \/ pc[w] = "none"
  <2>1. UNCHANGED pc \/ (\E label : Goto(Main, label)) \/ SpawnWorkers
    BY DEF MainStep, MainCall, Complete, Updated, Woken, MainEpoll, Join, Update, Wait,
           Timeout, CancelWorkers, Destroy, TakeOutput
  <2> QED BY <2>1, Types DEF Goto, SpawnWorkers
<1> QED BY <1>1, <1>2, CoveredFrame DEF Writing

LEMMA InitCovered == Init => Covered
<1> SUFFICES ASSUME Init PROVE Covered
  OBVIOUS
<1>1. TokensHeld /\ Len(input) = 0
  BY DEF Init, TokensHeld
<1>2. IInv
  BY InitInv
<1> QED BY <1>1, <1>2, Counts, ReadNat DEF Covered, TokensCoverTasks

LEMMA CoveredHolds == Spec => []Covered
<1>1. IInv /\ Covered /\ [Next]_vars => Covered'
  <2> SUFFICES ASSUME IInv, Covered, [Next]_vars PROVE Covered'
    OBVIOUS
  <2>1. CASE UNCHANGED vars
    BY <2>1, CoveredFrame
       DEF vars, queueVars, eventVars, mainVars, cancelVars, workerVars, Writing
  <2> QED BY <2>1, CallsCover, WorkerKeepsCovered, MainKeepsCovered DEF Next
<1> QED BY <1>1, InitCovered, InvHolds, PTL DEF Spec

\* For every queued task a token is in the eventfd, with a worker or about to be
\* written, and a token in the eventfd is noticed unless the workers are cancelled:
\* no queued task is forgotten, however many workers read the eventfd at once.
THEOREM TokensSufficeHolds == Spec => []TokensSuffice
<1>1. IInv /\ Covered => TokensSuffice
  BY DEF IInv, Covered, TokensSuffice
<1> QED BY <1>1, InvHolds, CoveredHolds, PTL

===============================================================================
