----------------------------- MODULE TaskQueueSpec -----------------------------
(***************************************************************************)
(* What thread::TaskQueue promises about a task, whichever threads run it: *)
(* an accepted task is ready at the place its priority gives it, a worker  *)
(* takes the most urgent one, each is executed and completed once, and     *)
(* tasks are completed in the order in which they were reported.  A task   *)
(* that refuses to be prepared is reported and never executed.  Module     *)
(* TaskQueue implements this specification.                                *)
(***************************************************************************)
EXTENDS PriorityList

CONSTANTS Task, Prio, Refusing, Silent

VARIABLES
    ready,      \* the tasks to execute, as entries of a priority list
    running,    \* the tasks that workers execute
    reported,   \* the tasks to complete, in the order of their reports
    completed   \* the tasks that are over

vars == <<ready, running, reported, completed>>

Init == ready = <<>> /\ running = {} /\ reported = <<>> /\ completed = {}

\* The tasks the queue knows about.
Known == {ready[i].task : i \in DOMAIN ready} \cup running
            \cup {reported[i] : i \in DOMAIN reported} \cup completed

Accept(t, first) ==
    /\ t \notin Known \cup Refusing
    /\ \E k \in 1..Len(ready) + 1 :
        /\ IsSlot(ready, Prio[t], first, k)
        /\ ready' = InsertedAt(ready, k, [prio |-> Prio[t], task |-> t])
    /\ UNCHANGED <<running, reported, completed>>

Refuse(t) ==
    /\ t \in Refusing \ Known
    /\ reported' = Append(reported, t)
    /\ UNCHANGED <<ready, running, completed>>

Take ==
    /\ ready # <<>>
    /\ running' = running \cup {Head(ready).task}
    /\ ready' = Tail(ready)
    /\ UNCHANGED <<reported, completed>>

\* A task with no complete callback is over once it has been executed.
Report(t) ==
    /\ t \in running
    /\ running' = running \ {t}
    /\ IF t \in Silent
       THEN completed' = completed \cup {t} /\ UNCHANGED reported
       ELSE reported' = Append(reported, t) /\ UNCHANGED completed
    /\ UNCHANGED ready

Complete ==
    /\ reported # <<>>
    /\ completed' = completed \cup {Head(reported)}
    /\ reported' = Tail(reported)
    /\ UNCHANGED <<ready, running>>

\* The queue is destroyed: tasks that no worker took complete as failed.
Abandon ==
    /\ completed' = completed \cup {ready[i].task : i \in DOMAIN ready}
    /\ ready' = <<>>
    /\ UNCHANGED <<running, reported>>

Next ==
    \/ \E t \in Task : Refuse(t) \/ Report(t)
    \/ \E t \in Task, first \in BOOLEAN : Accept(t, first)
    \/ Take \/ Complete \/ Abandon

Spec == Init /\ [][Next]_vars

===============================================================================
