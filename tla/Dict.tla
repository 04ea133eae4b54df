---------------------------------- MODULE Dict ----------------------------------
(***************************************************************************)
(* dict, a map kept as a vector of pairs sorted by key.  The vector's own  *)
(* working is in MemStorage; std::lower_bound and its kin find positions   *)
(* by halving a sorted vector.                                             *)
(*                                                                         *)
(* A hint is a position that the caller takes to be the key's.  One at the *)
(* key itself is left out: the test looks for a key that is not smaller    *)
(* behind the new one, and would put the key there twice.                  *)
(***************************************************************************)
EXTENDS Integers, Sequences, SequencesExt, FiniteSets

CONSTANTS Dicts, Keys, Values, NULL     \* keys are numbers

VARIABLES
    data,    \* the pairs of each dict
    map      \* history: what the calls have promised (MapSpec)

vars == <<data, map>>

Promise == INSTANCE MapSpec WITH Maps <- Dicts, Key <- Keys, Value <- Values

Init == Promise!Init /\ data = [d \in Dicts |-> <<>>]

LowerBound(d, k) == 1 + Cardinality({i \in DOMAIN data[d] : data[d][i].key < k})
UpperBound(d, k) == 1 + Cardinality({i \in DOMAIN data[d] : data[d][i].key <= k})
End(d) == Len(data[d]) + 1

\* do_find: NULL stands for end()
Find(d, k) ==
    LET it == LowerBound(d, k) IN IF it # End(d) /\ data[d][it].key = k THEN it ELSE NULL

\* Mutant: the key at the hint is not looked at.
HintFitsBefore(d, hint, k) == hint # 1 /\ data[d][hint - 1].key < k

HintFits(d, hint, k) ==
    /\ hint # 1 /\ data[d][hint - 1].key < k
    /\ hint = End(d) \/ ~(data[d][hint].key < k)

Hints(d, k) == {NULL} \cup {i \in 1 .. End(d) : i = End(d) \/ data[d][i].key # k}

\* The position of a key that is not in the dict: the hint, if it is right, or what is found.
Position(d, hint, k) == IF hint # NULL /\ HintFits(d, hint, k) THEN hint ELSE LowerBound(d, k)

\* A hint that fits is taken without looking whether the dict has the key.
Taken(d, hint, k) == (hint # NULL /\ HintFits(d, hint, k)) \/ Find(d, k) = NULL

EmplaceAt(d, hint, k, v) == data' = [data EXCEPT ![d] = InsertAt(@, Position(d, hint, k), [key |-> k, value |-> v])]

TryEmplace(d, hint, k, v) ==
    /\ IF Taken(d, hint, k) THEN EmplaceAt(d, hint, k, v) ELSE UNCHANGED data
    /\ Promise!Add(d, k, v)

\* emplace and insert, with a hint or without, and insert_or_assign
Emplace(d, hint, k, v) ==
    /\ IF Taken(d, hint, k) THEN EmplaceAt(d, hint, k, v)
       ELSE data' = [data EXCEPT ![d][Find(d, k)].value = v]
    /\ Promise!Put(d, k, v)

\* do_erase, and erase of the position that was found
Erase(d, k) ==
    /\ data' = [data EXCEPT ![d] = SubSeq(@, 1, LowerBound(d, k) - 1) \o SubSeq(@, UpperBound(d, k), Len(@))]
    /\ Promise!Remove(d, k)

\* erase of a range, from the first key that is not less than one to the first that is greater
\* than another
EraseRange(d, low, high) ==
    /\ low <= high
    /\ data' = [data EXCEPT ![d] = SubSeq(@, 1, LowerBound(d, low) - 1) \o SubSeq(@, UpperBound(d, high), Len(@))]
    /\ map' = [map EXCEPT ![d] = [k \in DOMAIN map[d] \ low .. high |-> map[d][k]]]

Clear(d) == data' = [data EXCEPT ![d] = <<>>] /\ Promise!Clear(d)

CopyAssign(d, other) ==
    /\ d # other
    /\ data' = [data EXCEPT ![d] = data[other]]
    /\ Promise!Copy(d, other)

MoveAssign(d, other) ==
    /\ d # other
    /\ data' = [data EXCEPT ![d] = data[other], ![other] = <<>>]
    /\ Promise!Move(d, other)

Next ==
    \E d \in Dicts :
        \/ \E k \in Keys, v \in Values : \E hint \in Hints(d, k) :
               TryEmplace(d, hint, k, v) \/ Emplace(d, hint, k, v)
        \/ \E k \in Keys : Erase(d, k)
        \/ \E low, high \in Keys : EraseRange(d, low, high)
        \/ Clear(d)
        \/ \E other \in Dicts : CopyAssign(d, other) \/ MoveAssign(d, other)

Spec == Init /\ [][Next]_vars

--------------------------------------------------------------------------------
(* Properties *)

TypeOK ==
    \A d \in Dicts : \A i \in DOMAIN data[d] : data[d][i].key \in Keys /\ data[d][i].value \in Values

\* A dict is sorted, holds each key once and with the value of the last call that gave it one,
\* whatever hints were given, and finds what it holds.
SortedMap ==
    \A d \in Dicts :
        /\ \A i, j \in DOMAIN data[d] : i < j => data[d][i].key < data[d][j].key
        /\ {data[d][i].key : i \in DOMAIN data[d]} = DOMAIN map[d]
        /\ \A k \in Keys : IF k \in DOMAIN map[d] THEN data[d][Find(d, k)].value = map[d][k] ELSE Find(d, k) = NULL
================================================================================
