--------------------------------- MODULE MCPool ---------------------------------
(***************************************************************************)
(* The instances of Pool that TLC checks: pages of two units, so that a    *)
(* few requests of different sizes fill buckets, rings and the list of     *)
(* large nodes.  A behaviour is one of two parts: several threads,         *)
(* requests of all sizes and few cleanups, or one thread with more         *)
(* cleanups that work on one another.                                      *)
(***************************************************************************)
EXTENDS Pool, TLC

CONSTANTS Alone, More    \* sets of one thread and of several cleanups

VARIABLE part

Lists == INSTANCE Pool WITH
    Threads <- Alone, Cleanups <- More, Sizes <- {7}, Maxima <- {3}

MCInit == (part = "memory" /\ Init) \/ (part = "lists" /\ Lists!Init)

MCNext ==
    /\ UNCHANGED part
    /\ (part = "memory" /\ Next) \/ (part = "lists" /\ Lists!Next)

MCSpec == MCInit /\ [][MCNext]_<<part, vars>>

\* malloc's addresses are interchangeable, and so are pools, and threads where there are two.
Symmetry == Permutations(Nodes) \cup Permutations(Threads) \cup Permutations(Pools \ {Global})

===============================================================================
