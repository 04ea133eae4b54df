-------------------------------- MODULE MapSpec --------------------------------
(***************************************************************************)
(* What an associative container promises its caller: each map holds the   *)
(* entries that the calls made so far have left in it, whatever structure  *)
(* keeps them.                                                             *)
(***************************************************************************)
EXTENDS TLC

CONSTANTS Maps, Key, Value

VARIABLE map    \* for each map the function from its keys to their values

Empty == [k \in {} |-> k]

Init == map = [m \in Maps |-> Empty]

Without(f, k) == [j \in DOMAIN f \ {k} |-> f[j]]

Put(m, k, v) == map' = [map EXCEPT ![m] = (k :> v) @@ @]

Add(m, k, v) == map' = [map EXCEPT ![m] = @ @@ (k :> v)]

Remove(m, k) == map' = [map EXCEPT ![m] = Without(@, k)]

Clear(m) == map' = [map EXCEPT ![m] = Empty]

Copy(m, other) == map' = [map EXCEPT ![m] = map[other]]

Move(m, other) == map' = [map EXCEPT ![m] = map[other], ![other] = Empty]

\* apr_hash_overlay: the entries of both, the overlay's where both have the key.
Merge(m, base, overlay) == map' = [map EXCEPT ![m] = map[overlay] @@ map[base]]
================================================================================
