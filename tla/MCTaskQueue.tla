------------------------------ MODULE MCTaskQueue ------------------------------
(***************************************************************************)
(* The properties of TaskQueue, the fairness its liveness rests on, and    *)
(* the instances TLC checks.                                               *)
(***************************************************************************)
EXTENDS TaskQueue, TLC

\* Threads make progress, a task's functions return, a timed wait times out, and
\* a thread that asks for _inputMutexQueue again and again gets it.  No thread has
\* to call anything, and nothing wakes up spuriously.
Fairness ==
    /\ \A w \in Workers : SF_vars(Worker(w))
    /\ \A th \in Threads : SF_vars(Caller(th))
    /\ WF_vars(MainStep)

FairSpec == Spec /\ Fairness

\* performAll, and its like: everything but what the tasks themselves submit is
\* performed before the workers start.
Prefilled == context => \A th \in Producers \cup {Main} :
                            call'[th].at = "push" => call[th].at = "push"
PrefilledSpec == Init /\ [][Next /\ Prefilled]_vars /\ Fairness

\* waitForAll returns.
WaitForAllReturns == pc[Main] = "testCounter" ~> pc[Main] = "idle"

\* A task that was accepted is executed, unless the workers are cancelled first.
AcceptedRuns ==
    \A t \in Task : stage[t] = "queued" ~> stage[t] # "queued" \/ ~context \/ Cancelling

\* cancelWorkers returns.
CancelReturns == pc[Main] = "join" ~> pc[Main] = "delete"

-------------------------------------------------------------------------------
CONSTANTS a, b, c

\* b is more urgent than the others.
MCPrio == [t \in Task |-> IF t = b THEN -1 ELSE 0]

===============================================================================
