------------------------------- MODULE TaskQueue -------------------------------
(***************************************************************************)
(* thread::TaskQueue (modules/threads/SPThreadTaskQueue.cc): threads       *)
(* perform tasks, workers execute them by priority, and the thread that    *)
(* owns the queue (Main) completes them in update.  The mode without       *)
(* Flags::LocalQueue; module TaskQueueLocal has the other one.             *)
(*                                                                         *)
(* What runs under one mutex is one step, and so is each access of an      *)
(* atomic or of a condition variable.  The input queue is what             *)
(* PriorityQueueSpec promises of it.  A condition variable may wake up     *)
(* spuriously, and a notification finds only the threads that wait on it.  *)
(*                                                                         *)
(* The functions that a task carries may themselves call perform and       *)
(* onMainThread: a worker may do so while it executes a task, Main while   *)
(* it completes one.                                                       *)
(*                                                                         *)
(* A Producer stays out of the queue while Main cancels the workers:       *)
(* _context is a plain pointer, and who deletes it answers for that.       *)
(***************************************************************************)
EXTENDS PriorityList, FiniteSets

CONSTANTS
    Workers,      \* the threads that spawnWorkers starts
    Producers,    \* other threads that use the queue
    Main,         \* the thread that owns the queue
    Task,
    Func,         \* functions handed to onMainThread
    Prio,         \* a task's getPriority()
    Refusing,     \* tasks whose prepare() fails
    Silent,       \* tasks with no complete callback
    Cancelable, Waitable,    \* TaskQueue::Flags
    MaxSpawns,    \* bound: spawnWorkers in a behaviour
    NULL

Threads == Workers \cup Producers \cup {Main}

ASSUME TQAssumption ==
    /\ IsFiniteSet(Threads)
    /\ Main \notin Workers \cup Producers /\ Workers \cap Producers = {}
    /\ NULL \notin Threads \cup Task \cup Func
    /\ Task \cap Func = {}
    /\ Prio \in [Task -> Int]
    /\ Refusing \subseteq Task /\ Silent \subseteq Task
    /\ Cancelable \in BOOLEAN /\ Waitable \in BOOLEAN
    /\ MaxSpawns \in Nat

VARIABLES
    input,          \* _inputQueue
    counter,        \* _tasksCounter
    output,         \* _outputQueue
    callbacks,      \* _outputCallbacks
    outputCounter,  \* _outputCounter
    context,        \* _context is not null
    finalized,      \* WorkerContext::finalized
    spawns,
    pc,             \* what a worker, or Main, is doing
    held,           \* the task in a worker's hands
    refs, shouldQuit,   \* a worker's _refCount and _shouldQuit
    call,           \* a thread's call of perform or onMainThread
    stack, after,   \* Main in update: what is left to run, and where it returns
    woken,          \* the wakeup callback ran, and Main has not updated since
    stage           \* how far each task and function has got

inputVars == <<input, counter>>
outputVars == <<output, callbacks, outputCounter>>
contextVars == <<context, finalized, spawns>>
workerVars == <<held, refs, shouldQuit>>
mainVars == <<stack, after, woken>>
vars == <<inputVars, outputVars, contextVars, pc, workerVars, call, mainVars, stage>>

InputEntry == [prio : Int, task : Task]
Call == [at : {"none", "push", "notify", "post", "signal"},
         item : Task \cup Func \cup {NULL}]
NoCall == [at |-> "none", item |-> NULL]

Init ==
    /\ input = <<>> /\ counter = 0
    /\ output = <<>> /\ callbacks = <<>> /\ outputCounter = 0
    /\ context = FALSE /\ finalized = FALSE /\ spawns = 0
    /\ pc = [th \in Workers \cup {Main} |-> IF th = Main THEN "idle" ELSE "none"]
    /\ held = [w \in Workers |-> NULL]
    /\ refs = [w \in Workers |-> 0]
    /\ shouldQuit = [w \in Workers |-> FALSE]
    /\ call = [th \in Threads |-> NoCall]
    /\ stack = <<>> /\ after = "idle" /\ woken = FALSE
    /\ stage = [x \in Task \cup Func |-> "new"]

-------------------------------------------------------------------------------
\* The condition variables.

\* A notified thread, or one that wakes for no reason, goes on to take its mutex.
Waiting == {w \in Workers : pc[w] = "waiting"}
Woken(W) == [th \in DOMAIN pc |-> IF th \in W THEN "awake" ELSE pc[th]]

\* WorkerContext::notify: one of the waiting workers, if there is one.
NotifyOne ==
    \/ Waiting = {} /\ UNCHANGED pc
    \/ \E w \in Waiting : pc' = Woken({w})

NotifyAll == pc' = Woken(Waiting)

\* notifyWait, when the queue is Waitable.  notifyExit needs no counterpart: it
\* only cuts short a timed wait, which may end at any moment anyway.
NotifyWait ==
    pc' = IF context /\ Waitable /\ pc[Main] = "waiting"
          THEN [pc EXCEPT ![Main] = "notified"] ELSE pc

-------------------------------------------------------------------------------
\* perform and onMainThread, on any thread.

\* No worker holds _inputMutexQueue from one step to the next.
InputFree == \A w \in Workers : pc[w] # "block"

Cancelling == pc[Main] \in {"release", "join", "delete"} \/ after = "delete"

MayCall(th) ==
    /\ call[th] = NoCall
    /\ \/ th \in Producers /\ ~Cancelling /\ pc[Main] # "dead"
       \/ th \in Workers /\ pc[th] = "execute"
       \/ th = Main /\ pc[th] \in {"idle", "update"} /\ (pc[th] = "update" => stack # <<>>)

\* Mutant: a refused task is counted too.
PerformCountsRefused(th, t) ==
    /\ MayCall(th) /\ stage[t] = "new"
    /\ call' = [call EXCEPT ![th] = [at |-> IF t \in Refusing THEN "post" ELSE "push",
                                    item |-> t]]
    /\ stage' = [stage EXCEPT ![t] = IF t \in Refusing THEN "refused" ELSE "counted"]
    /\ counter' = counter + 1
    /\ UNCHANGED <<input, outputVars, contextVars, pc, workerVars, mainVars>>

\* perform, down to the counter: a task that prepare() refuses goes straight to
\* onMainThread.
Perform(th, t) ==
    /\ MayCall(th) /\ stage[t] = "new"
    /\ IF t \in Refusing
       THEN /\ call' = [call EXCEPT ![th] = [at |-> "post", item |-> t]]
            /\ stage' = [stage EXCEPT ![t] = "refused"]
            /\ UNCHANGED counter
       ELSE /\ call' = [call EXCEPT ![th] = [at |-> "push", item |-> t]]
            /\ stage' = [stage EXCEPT ![t] = "counted"]
            /\ counter' = counter + 1
    /\ UNCHANGED <<input, outputVars, contextVars, pc, workerVars, mainVars>>

\* ... _inputQueue.push, with the caller's choice of insertFirst,
Push(th, first) ==
    LET t == call[th].item
    IN  /\ call[th].at = "push" /\ InputFree
        /\ \E k \in 1..Len(input) + 1 :
            /\ IsSlot(input, Prio[t], first, k)
            /\ input' = InsertedAt(input, k, [prio |-> Prio[t], task |-> t])
        /\ call' = [call EXCEPT ![th] = [at |-> "notify", item |-> t]]
        /\ stage' = [stage EXCEPT ![t] = "queued"]
        /\ UNCHANGED <<counter, outputVars, contextVars, pc,
                       workerVars, mainVars>>

\* ... and the notification, without the mutex.
Notify(th) ==
    /\ call[th].at = "notify"
    /\ IF context THEN NotifyOne ELSE UNCHANGED pc
    /\ call' = [call EXCEPT ![th] = NoCall]
    /\ UNCHANGED <<inputVars, outputVars, contextVars, workerVars, mainVars, stage>>

OnMainThread(th, f) ==
    /\ MayCall(th) /\ stage[f] = "new"
    /\ call' = [call EXCEPT ![th] = [at |-> "post", item |-> f]]
    /\ stage' = [stage EXCEPT ![f] = "refused"]
    /\ UNCHANGED <<inputVars, outputVars, contextVars, pc, workerVars, mainVars>>

\* Under _outputMutex: the item joins the queue of its kind.
Emit(x) ==
    /\ IF x \in Task THEN output' = Append(output, x) /\ UNCHANGED callbacks
                     ELSE callbacks' = Append(callbacks, x) /\ UNCHANGED output
    /\ outputCounter' = outputCounter + 1
    /\ stage' = [stage EXCEPT ![x] = "output"]

Post(th) ==
    /\ call[th].at = "post"
    /\ Emit(call[th].item)
    /\ call' = [call EXCEPT ![th] = [at |-> "signal", item |-> call[th].item]]
    /\ UNCHANGED <<inputVars, contextVars, pc, workerVars, mainVars>>

\* Mutant: the wakeup callback runs only for a queue that cannot be waited for.
SignalUnlessWaitable(th) ==
    /\ call[th].at = "signal"
    /\ NotifyWait
    /\ woken' = (woken \/ ~Waitable)
    /\ call' = [call EXCEPT ![th] = NoCall]
    /\ UNCHANGED <<inputVars, outputVars, contextVars, workerVars, stack, after, stage>>

\* notifyWait and the wakeup callback.
Signal(th) ==
    /\ call[th].at = "signal"
    /\ NotifyWait
    /\ woken' = TRUE
    /\ call' = [call EXCEPT ![th] = NoCall]
    /\ UNCHANGED <<inputVars, outputVars, contextVars, workerVars, stack, after, stage>>

Caller(th) == \/ \E first \in BOOLEAN : Push(th, first)
              \/ Notify(th)
              \/ Post(th)
              \/ Signal(th)

-------------------------------------------------------------------------------
\* Worker::worker and the loop around it.

Goto(th, label) == pc' = [pc EXCEPT ![th] = label]

\* threadInit, on the new thread: whatever was in _shouldQuit is overwritten.
ThreadInit(w) ==
    /\ pc[w] = "start" /\ Goto(w, "loop")
    /\ shouldQuit' = [shouldQuit EXCEPT ![w] = TRUE]
    /\ UNCHANGED <<inputVars, outputVars, contextVars, held, refs, call, mainVars, stage>>

\* _shouldQuit.test_and_set(): a cleared flag ends the thread.
TestQuit(w) ==
    /\ pc[w] = "loop"
    /\ Goto(w, IF shouldQuit[w] THEN "pop" ELSE "done")
    /\ shouldQuit' = [shouldQuit EXCEPT ![w] = TRUE]
    /\ UNCHANGED <<inputVars, outputVars, contextVars, held, refs, call, mainVars, stage>>

\* Workers with a task that _tasksCounter still counts.
BusyLabel == {"execute", "report", "signal", "uncount"}
Busy == {w \in Workers : pc[w] \in BusyLabel}

\* popTask
PopTask(w, label) ==
    /\ pc[w] = label /\ InputFree
    /\ \/ /\ input = <<>>
          /\ Goto(w, "empty")
          /\ UNCHANGED <<input, held, stage>>
       \/ /\ input # <<>>
          /\ Goto(w, "execute")
          /\ input' = Tail(input)
          /\ held' = [held EXCEPT ![w] = Head(input).task]
          /\ stage' = [stage EXCEPT ![Head(input).task] = "taken"]
    /\ UNCHANGED <<counter, outputVars, contextVars, refs, shouldQuit,
                   call, mainVars>>

\* No task: lock _inputMutexQueue and read finalized; the queue is not read again.
LockInput(w) ==
    /\ pc[w] = "empty" /\ InputFree
    /\ Goto(w, IF finalized THEN "loop" ELSE "block")
    /\ UNCHANGED <<inputVars, outputVars, contextVars, workerVars, call,
                   mainVars, stage>>

\* conditionGeneral->wait: the mutex is released as the worker joins the waiters.
Block(w) ==
    /\ pc[w] = "block" /\ Goto(w, "waiting")
    /\ UNCHANGED <<inputVars, outputVars, contextVars, workerVars, call,
                   mainVars, stage>>

Spurious(w) ==
    /\ pc[w] = "waiting" /\ Goto(w, "awake")
    /\ UNCHANGED <<inputVars, outputVars, contextVars, workerVars, call, mainVars, stage>>

\* wait returns with the mutex, which worker() releases on its way out.
Wake(w) ==
    /\ pc[w] = "awake" /\ InputFree
    /\ Goto(w, "loop")
    /\ UNCHANGED <<inputVars, outputVars, contextVars, workerVars, call, mainVars, stage>>

\* execute ends: the task's functions have run, their own calls included.
Executed(w) ==
    /\ pc[w] = "execute" /\ call[w] = NoCall
    /\ Goto(w, "report")
    /\ stage' = [stage EXCEPT ![held[w]] = "executed"]
    /\ UNCHANGED <<inputVars, outputVars, contextVars, workerVars, call, mainVars>>

\* onMainThreadWorker: the output queue, for a task that has someone to tell,
Report(w) ==
    /\ pc[w] = "report" /\ Goto(w, "signal")
    /\ IF held[w] \in Silent
       THEN UNCHANGED outputVars /\ stage' = [stage EXCEPT ![held[w]] = "done"]
       ELSE Emit(held[w])
    /\ UNCHANGED <<inputVars, contextVars, workerVars, call, mainVars>>

\* ... notifyWait and the wakeup callback,
ReportSignal(w) ==
    /\ pc[w] = "signal"
    /\ pc' = [th \in DOMAIN pc |->
                IF th = w THEN "uncount"
                ELSE IF th = Main /\ context /\ Waitable /\ pc[Main] = "waiting"
                THEN "notified" ELSE pc[th]]
    /\ woken' = (woken \/ held[w] \notin Silent)
    /\ UNCHANGED <<inputVars, outputVars, contextVars, workerVars, call, stack,
                   after, stage>>

\* Mutant: the worker waits after a task instead of looking for the next.
UncountThenWait(w) ==
    /\ pc[w] = "uncount" /\ Goto(w, "empty")
    /\ counter' = counter - 1
    /\ held' = [held EXCEPT ![w] = NULL]
    /\ UNCHANGED <<input, outputVars, contextVars, refs, shouldQuit, call, mainVars, stage>>

\* Mutant: the task is not counted off.
NeverUncounted(w) ==
    /\ pc[w] = "uncount" /\ Goto(w, "loop")
    /\ held' = [held EXCEPT ![w] = NULL]
    /\ UNCHANGED <<inputVars, outputVars, contextVars, refs, shouldQuit, call, mainVars,
                   stage>>

\* Mutant: two tasks are counted off.
UncountTwice(w) ==
    /\ pc[w] = "uncount" /\ Goto(w, "loop")
    /\ counter' = counter - 2
    /\ held' = [held EXCEPT ![w] = NULL]
    /\ UNCHANGED <<input, outputVars, contextVars, refs, shouldQuit, call, mainVars, stage>>

\* ... and only then _tasksCounter.fetch_sub(1).
Uncount(w) ==
    /\ pc[w] = "uncount" /\ Goto(w, "loop")
    /\ counter' = counter - 1
    /\ held' = [held EXCEPT ![w] = NULL]
    /\ UNCHANGED <<input, outputVars, contextVars, refs, shouldQuit, call,
                   mainVars, stage>>

Worker(w) ==
    \/ ThreadInit(w) \/ TestQuit(w)
    \/ PopTask(w, "pop") \/ LockInput(w) \/ Block(w) \/ Wake(w)
    \/ Executed(w) \/ Report(w) \/ ReportSignal(w) \/ Uncount(w)

-------------------------------------------------------------------------------
\* The thread that owns the queue.

MainIdle == pc[Main] = "idle" /\ call[Main] = NoCall

\* Mutant: the output queue is copied, not moved.
TakeCopy(ret) ==
    /\ stack' = output \o callbacks
    /\ callbacks' = <<>> /\ outputCounter' = 0 /\ UNCHANGED output
    /\ after' = ret
    /\ woken' = FALSE
    /\ Goto(Main, "update")
    /\ UNCHANGED <<inputVars, contextVars, workerVars, call, stage>>

\* update, under _outputMutex: everything reported is taken over, tasks before
\* functions, and run afterwards without the mutex; then control returns to ret.
TakeOutput(ret) ==
    /\ stack' = output \o callbacks
    /\ output' = <<>> /\ callbacks' = <<>> /\ outputCounter' = 0
    /\ after' = ret
    /\ woken' = FALSE
    /\ Goto(Main, "update")
    /\ UNCHANGED <<inputVars, contextVars, workerVars, call, stage>>

Update == MainIdle /\ TakeOutput("idle")

\* onComplete, or the function, returns.
Complete ==
    /\ pc[Main] = "update" /\ call[Main] = NoCall /\ stack # <<>>
    /\ stage' = [stage EXCEPT ![Head(stack)] = "done"]
    /\ stack' = Tail(stack)
    /\ UNCHANGED <<inputVars, outputVars, contextVars, pc, workerVars, call, after,
                   woken>>

Updated ==
    /\ pc[Main] = "update" /\ call[Main] = NoCall /\ stack = <<>>
    /\ Goto(Main, after)
    /\ after' = "idle"
    /\ UNCHANGED <<inputVars, outputVars, contextVars, workerVars, call, stack, woken,
                   stage>>

SpawnWorkers ==
    /\ MainIdle /\ ~context /\ spawns < MaxSpawns
    /\ context' = TRUE /\ finalized' = FALSE /\ spawns' = spawns + 1
    /\ pc' = [th \in DOMAIN pc |-> IF th = Main THEN "idle" ELSE "start"]
    /\ refs' = [w \in Workers |-> 1]
    /\ shouldQuit' = [w \in Workers |-> FALSE]
    /\ UNCHANGED <<inputVars, outputVars, held, call, mainVars, stage>>

\* waitForAll: update, then a timed wait and another update while tasks are left.
WaitForAll == MainIdle /\ context /\ Cancelable /\ TakeOutput("testCounter")

TestCounter ==
    /\ pc[Main] = "testCounter"
    /\ Goto(Main, IF counter = 0 THEN "idle" ELSE "waitExit")
    /\ UNCHANGED <<inputVars, outputVars, contextVars, workerVars, call, mainVars, stage>>

WaitExit == pc[Main] = "waitExit" /\ TakeOutput("testCounter")

\* wait(): no predicate, so a report made before it is not seen.
Wait ==
    /\ MainIdle /\ context /\ Waitable
    /\ Goto(Main, "waiting")
    /\ UNCHANGED <<inputVars, outputVars, contextVars, workerVars, call, mainVars, stage>>

\* ... ends with a notification or, spuriously, without one.
WaitSpurious ==
    /\ pc[Main] = "waiting" /\ Goto(Main, "notified")
    /\ UNCHANGED <<inputVars, outputVars, contextVars, workerVars, call, mainVars, stage>>

Waited == pc[Main] = "notified" /\ TakeOutput("idle")

\* wait(interval): the predicate is getOutputCounter() > 0, and the time runs out.
TimedWait ==
    /\ MainIdle /\ context /\ Waitable
    /\ \/ outputCounter > 0 /\ TakeOutput("idle")
       \/ /\ outputCounter = 0 /\ Goto(Main, "timed")
          /\ UNCHANGED <<inputVars, outputVars, contextVars, workerVars, call,
                         mainVars, stage>>

TimedWaitEnd ==
    /\ pc[Main] = "timed"
    /\ \/ outputCounter > 0 /\ TakeOutput("idle")
       \/ /\ outputCounter = 0 /\ Goto(Main, "idle")
          /\ UNCHANGED <<inputVars, outputVars, contextVars, workerVars, call,
                         mainVars, stage>>

\* finalize: the flag, then the notification.
Finalize ==
    /\ MainIdle /\ context /\ ~finalized
    /\ finalized' = TRUE
    /\ Goto(Main, "finalize")
    /\ UNCHANGED <<inputVars, outputVars, context, spawns, workerVars, call, mainVars,
                   stage>>

FinalizeNotify ==
    /\ pc[Main] = "finalize"
    /\ pc' = [Woken(Waiting) EXCEPT ![Main] = "idle"]
    /\ UNCHANGED <<inputVars, outputVars, contextVars, workerVars, call, mainVars, stage>>

\* cancelWorkers: every worker is released, all are notified and joined.
CancelWorkers ==
    /\ MainIdle /\ context
    /\ \A p \in Producers : call[p] = NoCall
    /\ Goto(Main, "release")
    /\ UNCHANGED <<inputVars, outputVars, contextVars, workerVars, call, mainVars, stage>>

\* Worker::release, by the thread that cancels
Release(w) ==
    /\ pc[Main] = "release" /\ refs[w] = 1
    /\ refs' = [refs EXCEPT ![w] = 0]
    /\ shouldQuit' = [shouldQuit EXCEPT ![w] = FALSE]
    /\ UNCHANGED <<inputVars, outputVars, contextVars, pc, held, call, mainVars, stage>>

CancelNotify ==
    /\ pc[Main] = "release" /\ \A w \in Workers : refs[w] = 0
    /\ pc' = [Woken(Waiting) EXCEPT ![Main] = "join"]
    /\ UNCHANGED <<inputVars, outputVars, contextVars, workerVars, call, mainVars, stage>>

\* Mutant: the workers are not joined.
JoinNobody == pc[Main] = "join" /\ TakeOutput("delete")

\* ... and when the last has ended, one more update,
Join ==
    /\ pc[Main] = "join" /\ \A w \in Workers : pc[w] = "done"
    /\ TakeOutput("delete")

\* ... before the context goes.
DeleteContext ==
    /\ pc[Main] = "delete"
    /\ context' = FALSE
    /\ pc' = [th \in DOMAIN pc |-> IF th = Main THEN "idle"
                                   ELSE IF pc[th] = "done" THEN "none" ELSE pc[th]]
    /\ UNCHANGED <<inputVars, outputVars, finalized, spawns, workerVars, call, mainVars,
                   stage>>

\* ~TaskQueue, when nobody refers to the queue any more (each worker does): what
\* is still in the input queue completes as failed.
Destroy ==
    /\ MainIdle /\ ~context
    /\ \A p \in Producers : call[p] = NoCall
    /\ Goto(Main, "dead")
    /\ stage' = [x \in DOMAIN stage |-> IF stage[x] = "queued" THEN "done" ELSE stage[x]]
    /\ input' = <<>>
    /\ UNCHANGED <<counter, outputVars, contextVars, workerVars, call,
                   mainVars>>

\* What Main does once it has begun, and what it may begin.
MainStep ==
    \/ Complete \/ Updated
    \/ TestCounter \/ WaitExit \/ Waited \/ TimedWaitEnd
    \/ FinalizeNotify
    \/ \E w \in Workers : Release(w)
    \/ CancelNotify \/ Join \/ DeleteContext

MainCall ==
    \/ SpawnWorkers \/ Update
    \/ WaitForAll \/ Wait \/ TimedWait
    \/ Finalize \/ CancelWorkers \/ Destroy

-------------------------------------------------------------------------------
Calls(th) == \/ \E t \in Task : Perform(th, t)
             \/ \E f \in Func : OnMainThread(th, f)

Next ==
    \/ \E th \in Threads : Calls(th) \/ Caller(th)
    \/ \E w \in Workers : Worker(w) \/ Spurious(w)
    \/ MainStep \/ MainCall \/ WaitSpurious

Spec == Init /\ [][Next]_vars

-------------------------------------------------------------------------------
WorkerLabel == {"none", "start", "loop", "pop", "empty", "block", "waiting", "awake",
                "execute", "report", "signal", "uncount", "done"}
MainLabel == {"idle", "update", "testCounter", "waitExit", "waiting", "notified", "timed",
              "finalize", "release", "join", "delete", "dead"}
Stage == {"new", "counted", "queued", "taken", "executed", "refused", "output", "done"}

\* Every variable holds what its declaration allows.
TypeOK ==
    /\ input \in Seq(InputEntry) /\ counter \in Nat
    /\ output \in Seq(Task) /\ callbacks \in Seq(Func) /\ outputCounter \in Nat
    /\ context \in BOOLEAN /\ finalized \in BOOLEAN /\ spawns \in Nat
    /\ pc \in [Workers \cup {Main} -> WorkerLabel \cup MainLabel]
    /\ held \in [Workers -> Task \cup {NULL}]
    /\ refs \in [Workers -> {0, 1}] /\ shouldQuit \in [Workers -> BOOLEAN]
    /\ call \in [Threads -> Call]
    /\ stack \in Seq(Task \cup Func)
    /\ after \in {"idle", "testCounter", "delete"}
    /\ woken \in BOOLEAN
    /\ stage \in [Task \cup Func -> Stage]

\* Threads with a task they have counted and not yet put into the input queue.
Submitting == {th \in Threads : call[th].at = "push"}

\* _tasksCounter counts the work that is left: tasks on their way into the input
\* queue, in it, or with a worker that has not counted them off.  waitForAll
\* returns on a zero, so a zero must mean that nothing is left, whatever tasks
\* submit in turn.  (The destructor empties the input queue and leaves it be.)
CounterExact ==
    pc[Main] # "dead" =>
        counter = Cardinality(Submitting) + Len(input) + Cardinality(Busy)

\* A worker runs only while its context exists: cancel joins before _context is
\* deleted, and workers and the tasks they execute use it without asking.
WorkersHaveContext ==
    \A w \in Workers : pc[w] \notin {"none", "done"} => context

\* Nothing is left in the output queues unnoticed: the wakeup callback has run,
\* or will, since Main last took them over (onMainThread announces after the
\* unlock, update takes over at any time).
OutputAnnounced ==
    output \o callbacks # <<>> =>
        \/ woken
        \/ \E th \in Threads : call[th].at = "signal"
        \/ \E w \in Workers : pc[w] = "signal" /\ held[w] \notin Silent

\* When cancelWorkers deletes the context, every task that a worker executed has
\* been completed; only what a completion posted itself may be left.
CancelCompletesAll ==
    pc[Main] = "delete" =>
        \A t \in Task : /\ stage[t] \notin {"taken", "executed"}
                        /\ stage[t] = "output" => t \in Refusing

\* What workers report reaches the owner: in time while they run, and at the latest
\* when cancelWorkers has joined them.
ReportsReachMain == OutputAnnounced /\ CancelCompletesAll

\* The tasks that workers execute, those that wait to be completed in the order of
\* their reports, and those that are over.
Executing == {w \in Workers : pc[w] \in {"execute", "report"}}
Running == {held[w] : w \in Executing}
Reported == Leading(stack, Task) \o output
Completed == {t \in Task : stage[t] = "done"}

\* TaskQueue implements its promise.
Promise == INSTANCE TaskQueueSpec WITH
    ready <- input, running <- Running, reported <- Reported, completed <- Completed
ImplementsPromise == Promise!Spec

===============================================================================
