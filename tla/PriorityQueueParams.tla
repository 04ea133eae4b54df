-------------------------- MODULE PriorityQueueParams --------------------------
(***************************************************************************)
(* What memory::PriorityQueue and its promise are parameterised by.        *)
(***************************************************************************)
EXTENDS PriorityList

CONSTANTS Priority,    \* the priorities used (PriorityType, an int32_t)
          MaxPushes    \* bound: pushes in a behaviour

ASSUME SpecAssumption == Priority \subseteq Int /\ MaxPushes \in Nat

===============================================================================
