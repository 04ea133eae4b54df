---------------------------- MODULE TaskQueueLocal ----------------------------
(***************************************************************************)
(* thread::TaskQueue spawned with Flags::LocalQueue: each worker has a     *)
(* queue of its own, which perform(map) fills, and looks there first.      *)
(* Everything else is as in module TaskQueue.                              *)
(***************************************************************************)
EXTENDS TaskQueue

VARIABLES
    local,     \* each worker's LocalQueue::queue
    target,    \* the worker whose queue a thread's perform(map) fills
    crashed    \* the process is gone

localVars == <<local, target, crashed>>
allVars == <<vars, localVars>>

LocalInit ==
    /\ Init
    /\ local = [w \in Workers |-> <<>>]
    /\ target = [th \in Threads |-> NULL]
    /\ crashed = FALSE

-------------------------------------------------------------------------------
\* perform(map): entry by entry and, at the end, a notification for all.

PerformMap(th) ==
    /\ MayCall(th) /\ context
    /\ call' = [call EXCEPT ![th].at = "map"]
    /\ UNCHANGED <<inputVars, outputVars, contextVars, pc, workerVars, mainVars,
                   stage, localVars>>

MapTask(th, w, t) ==
    /\ call[th].at = "map" /\ stage[t] = "new" /\ t \notin Refusing
    /\ counter' = counter + 1
    /\ call' = [call EXCEPT ![th] = [at |-> "local", item |-> t]]
    /\ target' = [target EXCEPT ![th] = w]
    /\ stage' = [stage EXCEPT ![t] = "counted"]
    /\ UNCHANGED <<input, outputVars, contextVars, pc, workerVars, mainVars, local,
                   crashed>>

\* A task that refuses is posted, notifyWait and wakeup included.
MapRefused(th, t) ==
    /\ call[th].at = "map" /\ stage[t] = "new" /\ t \in Refusing
    /\ Emit(t) /\ NotifyWait /\ woken' = TRUE
    /\ UNCHANGED <<inputVars, contextVars, workerVars, call, stack, after, localVars>>

\* Worker::perform, under the local queue's mutex.
MapPush(th) ==
    LET t == call[th].item
        w == target[th]
    IN  /\ call[th].at = "local" /\ pc[w] # "localBlock"
        /\ \E k \in 1..Len(local[w]) + 1 :
            /\ IsSlot(local[w], Prio[t], FALSE, k)
            /\ local' = [local EXCEPT ![w] =
                            InsertedAt(@, k, [prio |-> Prio[t], task |-> t])]
        /\ call' = [call EXCEPT ![th] = [at |-> "map", item |-> NULL]]
        /\ target' = [target EXCEPT ![th] = NULL]
        /\ stage' = [stage EXCEPT ![t] = "local"]
        /\ UNCHANGED <<inputVars, outputVars, contextVars, pc, workerVars, mainVars,
                       crashed>>

MapNotify(th) ==
    /\ call[th].at = "map"
    /\ NotifyAll
    /\ call' = [call EXCEPT ![th] = NoCall]
    /\ UNCHANGED <<inputVars, outputVars, contextVars, workerVars, mainVars, stage,
                   localVars>>

MapCall(th) == MapPush(th) \/ MapNotify(th)

-------------------------------------------------------------------------------
\* The worker looks into its own queue first.  The lambda's parameter hides the
\* variable task, so that the task is moved onto itself: its last reference goes
\* away and worker() goes on with none.
LocalPop(w) ==
    /\ pc[w] = "pop" /\ Goto(w, "popShared")
    /\ \/ local[w] = <<>> /\ UNCHANGED <<local, stage>>
       \/ /\ local[w] # <<>>
          /\ local' = [local EXCEPT ![w] = Tail(@)]
          /\ stage' = [stage EXCEPT ![Head(local[w]).task] = "dropped"]
    /\ UNCHANGED <<inputVars, outputVars, contextVars, workerVars, call, mainVars,
                   target, crashed>>

\* No task in the shared queue either: under the local queue's mutex that queue
\* is looked at again, and then the worker waits.
LocalLock(w) ==
    /\ pc[w] = "empty"
    /\ Goto(w, IF local[w] # <<>> THEN "loop"
               ELSE IF finalized THEN "null" ELSE "localBlock")
    /\ UNCHANGED <<inputVars, outputVars, contextVars, workerVars, call, mainVars,
                   stage, localVars>>

LocalBlock(w) ==
    /\ pc[w] = "localBlock" /\ Goto(w, "waiting")
    /\ UNCHANGED <<inputVars, outputVars, contextVars, workerVars, call, mainVars,
                   stage, localVars>>

\* After the wait this branch does not return: worker() executes a null task.
LocalWake(w) ==
    /\ pc[w] = "awake" /\ Goto(w, "null")
    /\ UNCHANGED <<inputVars, outputVars, contextVars, workerVars, call, mainVars,
                   stage, localVars>>

ExecuteNull(w) ==
    /\ pc[w] = "null"
    /\ crashed' = TRUE
    /\ UNCHANGED <<vars, local, target>>

LocalWorker(w) ==
    \/ LocalPop(w) \/ LocalLock(w) \/ LocalBlock(w) \/ LocalWake(w) \/ ExecuteNull(w)
    \/ /\ \/ ThreadInit(w) \/ TestQuit(w) \/ PopTask(w, "popShared")
          \/ Executed(w) \/ Report(w) \/ ReportSignal(w) \/ Uncount(w)
          \/ Spurious(w)
       /\ UNCHANGED localVars

\* The local queues go with the workers, whatever is left in them.
LocalNext ==
    /\ ~crashed
    /\ \/ \E th \in Threads : \/ PerformMap(th)
                              \/ \E w \in Workers, t \in Task : MapTask(th, w, t)
                              \/ \E t \in Task : MapRefused(th, t)
                              \/ MapCall(th)
                              \/ (Calls(th) \/ Caller(th)) /\ UNCHANGED localVars
       \/ \E w \in Workers : LocalWorker(w)
       \/ /\ MainStep \/ MainCall \/ WaitSpurious
          /\ local' = IF context' THEN local ELSE [w \in Workers |-> <<>>]
          /\ UNCHANGED <<target, crashed>>

LocalSpec == LocalInit /\ [][LocalNext]_allVars

-------------------------------------------------------------------------------
\* A task submitted for a worker is executed by it, not dropped on the way
\* (Flags::LocalQueue: "allow to submit task for specific thread").
LocalTaskKept == \A t \in Task : stage[t] # "dropped"

===============================================================================
