---------------------------- MODULE MCTaskQueueLocal ----------------------------
(***************************************************************************)
(* The instances of TaskQueueLocal that TLC checks.                        *)
(***************************************************************************)
EXTENDS TaskQueueLocal

CONSTANTS a, b, c

MCPrio == [t \in Task |-> IF t = b THEN -1 ELSE 0]

===============================================================================
