--------------------------- MODULE MCEventTaskQueue ---------------------------
(***************************************************************************)
(* The properties of EventTaskQueue, the fairness its liveness rests on,   *)
(* and the instance TLC checks.                                            *)
(***************************************************************************)
EXTENDS EventTaskQueue, TLC

\* Threads make progress and a task's functions return; no thread has to call
\* anything.
FairSpec ==
    /\ Spec
    /\ \A w \in Workers : WF_vars(Worker(w))
    /\ \A th \in Threads : WF_vars(Caller(th))
    /\ WF_vars(MainStep)

\* A task that was accepted is executed, unless the workers are cancelled first
\* or there are none.
AcceptedRuns ==
    \A t \in Task : stage[t] = "queued" ~> stage[t] # "queued" \/ pipe \/ Registered = {}

\* cancelWorkers returns.
CancelReturns == pc[Main] = "join" ~> pc[Main] = "idle"

-------------------------------------------------------------------------------
CONSTANTS a, b, c

\* b is more urgent than the others.
MCPrio == [t \in Task |-> IF t = b THEN -1 ELSE 0]

===============================================================================
