----------------------------- MODULE EventTaskQueue -----------------------------
(***************************************************************************)
(* thread::EventTaskQueue (modules/threads/SPEventTaskQueue.cc): the task  *)
(* queue whose workers sleep in epoll_wait.  perform adds a token to an    *)
(* eventfd for every task; a worker that reads the eventfd takes all its   *)
(* tokens, uses one and writes the others back.                            *)
(*                                                                         *)
(* What runs under one mutex is one step, and so is each system call.  The *)
(* eventfd is registered with EPOLLET | EPOLLEXCLUSIVE in an epoll of each *)
(* worker: a write puts it on the ready list of one worker that waits, or  *)
(* of all if none does, and perhaps of some that are busy.  epoll_wait     *)
(* takes it off that list, and reports it if it can be read by then.       *)
(*                                                                         *)
(* waitForAll returns at once and performAll only spawns and cancels.      *)
(* Failures of epoll and signals are left out, and a task leaves errno     *)
(* alone: poll would take an EINTR of the task's for one of its own.       *)
(***************************************************************************)
EXTENDS PriorityList, FiniteSets, FiniteSetsExt

CONSTANTS
    Workers,      \* the threads that spawnWorkers starts
    Producers,    \* other threads that use the queue
    Main,         \* the thread that owns the queue
    Task,
    Func,         \* functions handed to onMainThread
    Prio,         \* a task's getPriority()
    Refusing,     \* tasks whose prepare() fails
    Silent,       \* tasks with no complete callback
    NULL

Threads == Workers \cup Producers \cup {Main}

ASSUME EQAssumption ==
    /\ IsFiniteSet(Threads)
    /\ Main \notin Workers \cup Producers /\ Workers \cap Producers = {}
    /\ NULL \notin Threads \cup Task \cup Func
    /\ Task \cap Func = {}
    /\ Prio \in [Task -> Int]
    /\ Refusing \subseteq Task /\ Silent \subseteq Task

VARIABLES
    input,        \* _inputQueue
    counter,      \* _taskCounter
    output, callbacks,    \* _outputQueue, _outputCallbacks
    tokens,       \* the value of _eventFdWorkers
    mainEvent,    \* _eventFdMain is not zero
    mainEdge,     \* _eventFdMain is on the ready list of _epollFd
    pipe,         \* cancelWorkers has written to _pipe, which nobody reads
    refs,         \* _refCount of the queue's Data
    pc,           \* what a worker, or Main, is doing
    edge, pipeEdge,    \* what is on the ready list of a worker's epoll
    closing,      \* a worker's _shouldClose
    value,        \* the tokens a worker has read
    held,         \* the task in a worker's hands
    call,         \* a thread's call of perform or onMainThread
    stack,        \* Main in update: what is left to run
    stage         \* how far each task and function has got

queueVars == <<input, counter, output, callbacks>>
eventVars == <<tokens, edge>>
mainVars == <<mainEvent, mainEdge>>
cancelVars == <<pipe, pipeEdge, refs>>
workerVars == <<closing, value, held>>
vars == <<queueVars, eventVars, mainVars, cancelVars, workerVars, pc, call, stack, stage>>

InputEntry == [prio : Int, task : Task]

Call == [at : {"none", "push", "write", "post", "signal"},
         item : Task \cup Func \cup {NULL}]
NoCall == [at |-> "none", item |-> NULL]

Init ==
    /\ input = <<>> /\ counter = 0 /\ output = <<>> /\ callbacks = <<>>
    /\ tokens = 0 /\ mainEvent = FALSE /\ mainEdge = FALSE
    /\ pipe = FALSE /\ refs = 1
    /\ pc = [th \in Workers \cup {Main} |-> IF th = Main THEN "idle" ELSE "none"]
    /\ edge = [w \in Workers |-> FALSE] /\ pipeEdge = [w \in Workers |-> FALSE]
    /\ closing = [w \in Workers |-> FALSE]
    /\ value = [w \in Workers |-> 0] /\ held = [w \in Workers |-> NULL]
    /\ call = [th \in Threads |-> NoCall]
    /\ stack = <<>>
    /\ stage = [x \in Task \cup Func |-> "new"]

-------------------------------------------------------------------------------
\* The two eventfds.

Registered == {w \in Workers : pc[w] \notin {"none", "start", "dispose", "done"}}
Polling == {w \in Workers : pc[w] = "poll"}

\* write(_eventFdWorkers): EPOLLEXCLUSIVE need not wake more than one.
Write(n) ==
    /\ tokens' = tokens + n
    /\ \E W \in SUBSET Registered :
        /\ IF Polling = {} THEN W = Registered ELSE W \cap Polling # {}
        /\ edge' = [w \in Workers |-> edge[w] \/ w \in W]

\* wakeup: write(_eventFdMain).
Wakeup == mainEvent' = TRUE /\ mainEdge' = TRUE

-------------------------------------------------------------------------------
\* perform and onMainThread, on any thread.

MayCall(th) ==
    /\ call[th] = NoCall /\ pc[Main] # "dead"
    /\ \/ th \in Producers
       \/ th \in Workers /\ pc[th] = "execute"
       \/ th = Main /\ pc[Main] \in {"idle", "update"} /\ (pc[th] = "update" => stack # <<>>)

\* pushTask, down to the counter: a task that prepare() refuses goes straight to
\* onMainThread.
Perform(th, t) ==
    /\ MayCall(th) /\ stage[t] = "new"
    /\ IF t \in Refusing
       THEN /\ call' = [call EXCEPT ![th] = [at |-> "post", item |-> t]]
            /\ stage' = [stage EXCEPT ![t] = "refused"]
            /\ UNCHANGED counter
       ELSE /\ call' = [call EXCEPT ![th] = [at |-> "push", item |-> t]]
            /\ stage' = [stage EXCEPT ![t] = "counted"]
            /\ counter' = counter + 1
    /\ UNCHANGED <<input, output, callbacks, eventVars, mainVars, cancelVars, workerVars,
                   pc, stack>>

\* ... _inputQueue.push, with the caller's choice of insertFirst,
Push(th, first) ==
    LET t == call[th].item
    IN  /\ call[th].at = "push"
        /\ \E k \in 1..Len(input) + 1 :
            /\ IsSlot(input, Prio[t], first, k)
            /\ input' = InsertedAt(input, k, [prio |-> Prio[t], task |-> t])
        /\ call' = [call EXCEPT ![th] = [at |-> "write", item |-> t]]
        /\ stage' = [stage EXCEPT ![t] = "queued"]
        /\ UNCHANGED <<counter, output, callbacks, eventVars, mainVars, cancelVars,
                       workerVars, pc, stack>>

\* ... and the token.
WriteToken(th) ==
    /\ call[th].at = "write"
    /\ Write(1)
    /\ call' = [call EXCEPT ![th] = NoCall]
    /\ UNCHANGED <<queueVars, mainVars, cancelVars, workerVars, pc, stack, stage>>

OnMainThread(th, f) ==
    /\ MayCall(th) /\ stage[f] = "new"
    /\ call' = [call EXCEPT ![th] = [at |-> "post", item |-> f]]
    /\ stage' = [stage EXCEPT ![f] = "refused"]
    /\ UNCHANGED <<queueVars, eventVars, mainVars, cancelVars, workerVars, pc, stack>>

\* Under _outputMutex: the item joins the queue of its kind.
Emit(x) ==
    /\ IF x \in Task THEN output' = Append(output, x) /\ UNCHANGED callbacks
                     ELSE callbacks' = Append(callbacks, x) /\ UNCHANGED output
    /\ stage' = [stage EXCEPT ![x] = "output"]

Post(th) ==
    /\ call[th].at = "post"
    /\ Emit(call[th].item)
    /\ call' = [call EXCEPT ![th] = [at |-> "signal", item |-> call[th].item]]
    /\ UNCHANGED <<input, counter, eventVars, mainVars, cancelVars, workerVars, pc, stack>>

Signal(th) ==
    /\ call[th].at = "signal"
    /\ Wakeup
    /\ call' = [call EXCEPT ![th] = NoCall]
    /\ UNCHANGED <<queueVars, eventVars, cancelVars, workerVars, pc, stack, stage>>

Calls(th) == \/ \E t \in Task : Perform(th, t)
             \/ \E f \in Func : OnMainThread(th, f)

Caller(th) == \/ \E first \in BOOLEAN : Push(th, first)
              \/ WriteToken(th)
              \/ Post(th)
              \/ Signal(th)

-------------------------------------------------------------------------------
\* A worker.

Goto(th, label) == pc' = [pc EXCEPT ![th] = label]

\* A worker's round ends: poll goes on, or returns to worker(), which returns.
RoundEnds(w) == Goto(w, IF closing[w] THEN "dispose" ELSE "poll")

\* worker() registers the pipe and the eventfd; what can be read is ready at once.
Register(w) ==
    /\ pc[w] = "start" /\ Goto(w, "poll")
    /\ pipeEdge' = [pipeEdge EXCEPT ![w] = pipe]
    /\ edge' = [edge EXCEPT ![w] = tokens > 0]
    /\ UNCHANGED <<queueVars, tokens, mainVars, pipe, refs, workerVars, call, stack, stage>>

\* epoll_wait, with the events it takes off the ready list.
EpollWait(w) ==
    /\ pc[w] = "poll"
    /\ edge[w] \/ pipeEdge[w]
    /\ edge' = [edge EXCEPT ![w] = FALSE]
    /\ pipeEdge' = [pipeEdge EXCEPT ![w] = FALSE]

\* It reports the eventfd, the pipe or both.
PollEvents(w) ==
    /\ EpollWait(w)
    /\ pipeEdge[w] \/ tokens > 0
    /\ closing' = [closing EXCEPT ![w] = pipeEdge[w]]
    /\ Goto(w, IF edge[w] /\ tokens > 0 THEN "read" ELSE "dispose")
    /\ UNCHANGED <<queueVars, tokens, mainVars, pipe, refs, value, held, call,
                   stack, stage>>

\* Another worker has read the tokens by then: epoll_wait sleeps on.
PollNothing(w) ==
    /\ EpollWait(w) /\ ~pipeEdge[w] /\ tokens = 0
    /\ UNCHANGED <<queueVars, tokens, mainVars, pipe, refs, workerVars, pc, call, stack,
                   stage>>

\* read(_eventFd) takes all tokens; it fails if another worker was faster.
Read(w) ==
    /\ pc[w] = "read"
    /\ value' = [value EXCEPT ![w] = tokens]
    /\ tokens' = 0
    /\ IF tokens > 0 THEN Goto(w, "pop") ELSE RoundEnds(w)
    /\ UNCHANGED <<queueVars, edge, mainVars, cancelVars, closing, held, call,
                   stack, stage>>

\* Mutant: a single token besides the worker's own is not written back.
AfterPopOffByOne(w, task) ==
    IF value[w] > 2 THEN Goto(w, "forward")
    ELSE IF task # NULL THEN Goto(w, "execute") ELSE RoundEnds(w)

\* Where a worker goes on from popTask: the other tokens first, then the task.
AfterPop(w, task) ==
    IF value[w] > 1 THEN Goto(w, "forward")
    ELSE IF task # NULL THEN Goto(w, "execute") ELSE RoundEnds(w)

\* popTask.  A token may be left over from a task that went with another one.
Pop(w) ==
    /\ pc[w] = "pop"
    /\ \/ /\ input = <<>>
          /\ AfterPop(w, NULL)
          /\ UNCHANGED <<input, held, stage>>
       \/ /\ input # <<>>
          /\ AfterPop(w, Head(input).task)
          /\ input' = Tail(input)
          /\ held' = [held EXCEPT ![w] = Head(input).task]
          /\ stage' = [stage EXCEPT ![Head(input).task] = "taken"]
    /\ value' = [value EXCEPT ![w] = @ - 1]
    /\ UNCHANGED <<counter, output, callbacks, eventVars, mainVars, cancelVars, closing,
                   call, stack>>

\* Mutant: the other tokens are not written back.
ForwardNothing(w) ==
    /\ pc[w] = "forward"
    /\ value' = [value EXCEPT ![w] = 0]
    /\ IF held[w] # NULL THEN Goto(w, "execute") ELSE RoundEnds(w)
    /\ UNCHANGED <<queueVars, eventVars, mainVars, cancelVars, closing, held, call,
                   stack, stage>>

Forward(w) ==
    /\ pc[w] = "forward"
    /\ Write(value[w])
    /\ value' = [value EXCEPT ![w] = 0]
    /\ IF held[w] # NULL THEN Goto(w, "execute") ELSE RoundEnds(w)
    /\ UNCHANGED <<queueVars, mainVars, cancelVars, closing, held, call, stack,
                   stage>>

\* runTask: the task's functions have run, their own calls included.
Executed(w) ==
    /\ pc[w] = "execute" /\ call[w] = NoCall
    /\ Goto(w, "report")
    /\ stage' = [stage EXCEPT ![held[w]] = "executed"]
    /\ UNCHANGED <<queueVars, eventVars, mainVars, cancelVars, closing, value, held, call,
                   stack>>

\* onMainThreadWorker: the output queue, for a task that has someone to tell,
Report(w) ==
    /\ pc[w] = "report" /\ Goto(w, "uncount")
    /\ IF held[w] \in Silent
       THEN UNCHANGED <<output, callbacks>> /\ stage' = [stage EXCEPT ![held[w]] = "done"]
       ELSE Emit(held[w])
    /\ UNCHANGED <<input, counter, eventVars, mainVars, cancelVars, workerVars, call,
                   stack>>

\* Mutant: only tasks with a report are counted off.
UncountReported(w) ==
    /\ pc[w] = "uncount"
    /\ counter' = IF held[w] \in Silent THEN counter ELSE counter - 1
    /\ held' = [held EXCEPT ![w] = NULL]
    /\ IF held[w] \notin Silent \/ counter = 1 THEN Goto(w, "wakeup") ELSE RoundEnds(w)
    /\ UNCHANGED <<input, output, callbacks, eventVars, mainVars, cancelVars, closing,
                   value, call, stack, stage>>

\* Mutant: Main is woken only when nothing is left to do.
UncountLastOnly(w) ==
    /\ pc[w] = "uncount"
    /\ counter' = counter - 1
    /\ held' = [held EXCEPT ![w] = NULL]
    /\ IF counter = 1 THEN Goto(w, "wakeup") ELSE RoundEnds(w)
    /\ UNCHANGED <<input, output, callbacks, eventVars, mainVars, cancelVars, closing,
                   value, call, stack, stage>>

\* ... _taskCounter, and a wakeup for Main if there is something to complete or
\* nothing left to do.
Uncount(w) ==
    /\ pc[w] = "uncount"
    /\ counter' = counter - 1
    /\ held' = [held EXCEPT ![w] = NULL]
    /\ IF held[w] \notin Silent \/ counter = 1 THEN Goto(w, "wakeup") ELSE RoundEnds(w)
    /\ UNCHANGED <<input, output, callbacks, eventVars, mainVars, cancelVars, closing,
                   value, call, stack, stage>>

WakeMain(w) ==
    /\ pc[w] = "wakeup"
    /\ Wakeup
    /\ RoundEnds(w)
    /\ UNCHANGED <<queueVars, eventVars, cancelVars, workerVars, call, stack, stage>>

\* Mutant: the worker's destructor releases the queue once more.
DisposeTwice(w) ==
    /\ pc[w] = "dispose" /\ Goto(w, "done")
    /\ refs' = refs - 2
    /\ UNCHANGED <<queueVars, eventVars, mainVars, pipe, pipeEdge, workerVars, call, stack,
                   stage>>

\* threadDispose
Dispose(w) ==
    /\ pc[w] = "dispose" /\ Goto(w, "done")
    /\ refs' = refs - 1
    /\ UNCHANGED <<queueVars, eventVars, mainVars, pipe, pipeEdge, workerVars, call, stack,
                   stage>>

Worker(w) ==
    \/ Register(w) \/ PollEvents(w) \/ PollNothing(w)
    \/ Read(w) \/ Pop(w) \/ Forward(w)
    \/ Executed(w) \/ Report(w) \/ Uncount(w) \/ WakeMain(w) \/ Dispose(w)

-------------------------------------------------------------------------------
\* The thread that owns the queue.

MainIdle == pc[Main] = "idle" /\ call[Main] = NoCall

\* Mutant: the output queue is copied, not moved.
TakeCopy ==
    /\ stack' = output \o callbacks
    /\ callbacks' = <<>>
    /\ Goto(Main, "update")
    /\ UNCHANGED <<input, counter, output, eventVars, mainVars, cancelVars, workerVars, call,
                   stage>>

\* update, under _outputMutex: everything reported is taken over, tasks before
\* functions, and run afterwards without the mutex.
TakeOutput ==
    /\ stack' = output \o callbacks
    /\ output' = <<>> /\ callbacks' = <<>>
    /\ Goto(Main, "update")
    /\ UNCHANGED <<input, counter, eventVars, mainVars, cancelVars, workerVars, call,
                   stage>>

Update == MainIdle /\ TakeOutput

\* onComplete, or the function, returns.
Complete ==
    /\ pc[Main] = "update" /\ call[Main] = NoCall /\ stack # <<>>
    /\ stage' = [stage EXCEPT ![Head(stack)] = "done"]
    /\ stack' = Tail(stack)
    /\ UNCHANGED <<queueVars, eventVars, mainVars, cancelVars, workerVars, pc, call>>

Updated ==
    /\ pc[Main] = "update" /\ call[Main] = NoCall /\ stack = <<>>
    /\ Goto(Main, "idle")
    /\ UNCHANGED <<queueVars, eventVars, mainVars, cancelVars, workerVars, call, stack,
                   stage>>

\* wait: read(_eventFdMain) and update if it was not zero.
Wait ==
    /\ MainIdle
    /\ mainEvent' = FALSE
    /\ Goto(Main, IF mainEvent THEN "woken" ELSE "epoll")
    /\ UNCHANGED <<queueVars, eventVars, mainEdge, cancelVars, workerVars, call, stack,
                   stage>>

Woken == pc[Main] = "woken" /\ TakeOutput

\* Otherwise epoll_wait; when it reports the event, wait takes that for a timeout
\* and returns with nothing read and nothing updated.
MainEpoll ==
    /\ pc[Main] = "epoll" /\ mainEdge
    /\ mainEdge' = FALSE
    /\ IF mainEvent THEN Goto(Main, "idle") ELSE UNCHANGED pc
    /\ UNCHANGED <<queueVars, eventVars, mainEvent, cancelVars, workerVars, call, stack,
                   stage>>

\* wait(interval): the time is up.
Timeout ==
    /\ pc[Main] = "epoll" /\ Goto(Main, "idle")
    /\ UNCHANGED <<queueVars, eventVars, mainVars, cancelVars, workerVars, call, stack,
                   stage>>

\* Mutant: the workers do not retain the queue.
SpawnUnretained ==
    /\ MainIdle /\ ~pipe /\ \A w \in Workers : pc[w] = "none"
    /\ pc' = [th \in DOMAIN pc |-> IF th \in Workers THEN "start" ELSE pc[th]]
    /\ UNCHANGED <<queueVars, eventVars, mainVars, cancelVars, workerVars, call, stack,
                   stage>>

\* run.  A worker is retained by its constructor, which may come after its thread
\* has started; but no worker disposes of anything before cancelWorkers.
SpawnWorkers ==
    /\ MainIdle /\ ~pipe /\ \A w \in Workers : pc[w] = "none"
    /\ pc' = [th \in DOMAIN pc |-> IF th \in Workers THEN "start" ELSE pc[th]]
    /\ refs' = refs + Cardinality(Workers)
    /\ UNCHANGED <<queueVars, eventVars, mainVars, pipe, pipeEdge, workerVars, call, stack,
                   stage>>

\* Mutant: the pipe wakes one worker.
CancelExclusive ==
    /\ MainIdle /\ ~pipe /\ \E w \in Workers : pc[w] # "none"
    /\ Goto(Main, "join")
    /\ pipe' = TRUE
    /\ \E v \in Workers : pipeEdge' = [pipeEdge EXCEPT ![v] = v \in Registered]
    /\ UNCHANGED <<queueVars, eventVars, mainVars, refs, workerVars, call, stack, stage>>

\* finalize: the pipe wakes every worker,
CancelWorkers ==
    /\ MainIdle /\ ~pipe /\ \E w \in Workers : pc[w] # "none"
    /\ Goto(Main, "join")
    /\ pipe' = TRUE
    /\ pipeEdge' = [w \in Workers |-> pipeEdge[w] \/ w \in Registered]
    /\ UNCHANGED <<queueVars, eventVars, mainVars, refs, workerVars, call, stack, stage>>

\* ... and all are joined.
Join ==
    /\ pc[Main] = "join" /\ \A w \in Workers : pc[w] = "done"
    /\ Goto(Main, "idle")
    /\ UNCHANGED <<queueVars, eventVars, mainVars, cancelVars, workerVars, call, stack,
                   stage>>

\* ~EventTaskQueue: one reference to the Data less.
Destroy ==
    /\ MainIdle /\ \A p \in Producers : call[p] = NoCall
    /\ Goto(Main, "dead")
    /\ refs' = refs - 1
    /\ UNCHANGED <<queueVars, eventVars, mainVars, pipe, pipeEdge, workerVars, call, stack,
                   stage>>

MainStep == Complete \/ Updated \/ Woken \/ MainEpoll \/ Join

MainCall == Update \/ Wait \/ Timeout \/ SpawnWorkers \/ CancelWorkers \/ Destroy

-------------------------------------------------------------------------------
Next ==
    \/ \E th \in Threads : Calls(th) \/ Caller(th)
    \/ \E w \in Workers : Worker(w)
    \/ MainStep \/ MainCall

Spec == Init /\ [][Next]_vars

-------------------------------------------------------------------------------
(* Properties *)

WorkerLabel == {"none", "start", "poll", "read", "pop", "forward", "execute", "report",
                "uncount", "wakeup", "dispose", "done"}
MainLabel == {"idle", "update", "woken", "epoll", "join", "dead"}
Stage == {"new", "counted", "queued", "taken", "executed", "refused", "output", "done"}

\* Every variable holds what its declaration allows.
TypeOK ==
    /\ input \in Seq(InputEntry) /\ counter \in Nat
    /\ output \in Seq(Task) /\ callbacks \in Seq(Func) /\ stack \in Seq(Task \cup Func)
    /\ tokens \in Nat /\ refs \in Nat
    /\ mainEvent \in BOOLEAN /\ mainEdge \in BOOLEAN /\ pipe \in BOOLEAN
    /\ pc \in [Workers \cup {Main} -> WorkerLabel \cup MainLabel]
    /\ edge \in [Workers -> BOOLEAN] /\ pipeEdge \in [Workers -> BOOLEAN]
    /\ closing \in [Workers -> BOOLEAN]
    /\ value \in [Workers -> Nat] /\ held \in [Workers -> Task \cup {NULL}]
    /\ call \in [Threads -> Call]
    /\ stage \in [Task \cup Func -> Stage]

Submitting == {th \in Threads : call[th].at = "push"}
Holding == {w \in Workers : held[w] # NULL}

\* _taskCounter counts the tasks that are left: on their way into the input queue,
\* in it, or with a worker that has not counted them off.
CounterExact == counter = Cardinality(Submitting) + Len(input) + Cardinality(Holding)

Retaining == {w \in Workers : pc[w] \notin {"none", "done"}}

\* The Data is referred to by the queue and by each worker whose thread has not
\* ended, and by nobody else: nothing is freed under a worker, and nothing is left
\* when the queue goes after cancelWorkers.
RefsExact == refs = Cardinality(Retaining) + (IF pc[Main] = "dead" THEN 0 ELSE 1)

\* Tokens do not lie in the eventfd unnoticed, exclusive and edge-triggered as its
\* registrations are: some worker has the event on its ready list or reads it now.
TokensNoticed ==
    tokens > 0 /\ ~pipe /\ Registered # {} =>
        \E w \in Registered : edge[w] \/ pc[w] = "read"

\* Nothing is left in the output queues unnoticed: wait finds the eventfd written,
\* or it will be.
OutputAnnounced ==
    output \o callbacks # <<>> =>
        \/ mainEvent \/ pc[Main] = "woken"
        \/ \E th \in Threads : call[th].at = "signal"
        \/ \E w \in Workers : \/ pc[w] = "wakeup"
                              \/ pc[w] = "uncount" /\ held[w] \notin Silent

\* The tokens that workers have read and neither used nor written back.
TokensRead == UNION {{w} \X (1..value[w]) : w \in Workers}
Writing == {th \in Threads : call[th].at = "write"}

\* There is a token for every queued task: in the eventfd, with a worker, or about
\* to be written by the thread that queued the task.
TokensCoverTasks ==
    Len(input) <= tokens + Cardinality(TokensRead) + Cardinality(Writing)

\* Together: a queued task is always about to be looked for.
TokensSuffice == TokensCoverTasks /\ TokensNoticed

\* The tasks that workers execute, those that wait to be completed in the order of
\* their reports, and those that are over.
Executing == {w \in Workers : held[w] # NULL /\ pc[w] \in {"forward", "execute", "report"}}
Running == {held[w] : w \in Executing}
Reported == Leading(stack, Task) \o output
Completed == {t \in Task : stage[t] = "done"}

\* EventTaskQueue makes the same promise as TaskQueue.
Promise == INSTANCE TaskQueueSpec WITH
    ready <- input, running <- Running, reported <- Reported, completed <- Completed
ImplementsPromise == Promise!Spec

===============================================================================
