-------------------------------- MODULE RefCount --------------------------------
(***************************************************************************)
(* Ref and Rc: objects with a count of references, and the smart pointers  *)
(* that keep it.  Each access to an object's counter or to the tables of   *)
(* the leak tracker is a step of its own; a pointer variable is used by    *)
(* one thread at a time, as the callers must see to, an object by all that *)
(* hold it.  Some objects have an Rc as a member, so that deleting one may *)
(* release others.                                                         *)
(***************************************************************************)
EXTENDS Naturals, FiniteSets, Sequences

CONSTANTS
    Threads,
    Objects,     \* the addresses of objects: an address is used again after a deletion
    Locals,      \* the Rc variables that are not in an object
    Owners,      \* those that have an Rc as a member
    Tracked,     \* the objects for which isRetainTrackerEnabled() is true
    MaxId,       \* bound: numbers that getNextRefId gives out
    NULL

\* A variable that belongs to an object is named by the object, any other by none.
RefAssumption ==
    /\ IsFiniteSet(Threads) /\ IsFiniteSet(Objects) /\ IsFiniteSet(Locals)
    /\ Owners \subseteq Objects /\ Locals \cap Objects = {} /\ NULL \notin Objects
    /\ MaxId \in Nat

VARIABLES
    live,        \* the objects that are allocated
    count,       \* _counter of each object
    tracked,     \* s_retainStdMap: the numbers recorded for each address
    rc,          \* the Rc variables: _ptr and _id; that of an object has its name
    todo,        \* what each thread has left to do of its operation
    id,          \* the local id of each thread's doSwap
    uses,        \* the variables that each thread's operation uses
    swapped      \* history: two different references have been swapped

vars == <<live, count, tracked, rc, todo, id, uses, swapped>>

Slots == Locals \cup Owners
Id == 0 .. MaxId
None == [ptr |-> NULL, id |-> 0]

Init ==
    /\ live = {} /\ count = [o \in Objects |-> 0] /\ tracked = [o \in Objects |-> {}]
    /\ rc = [s \in Slots |-> None] /\ todo = [t \in Threads |-> <<>>]
    /\ id = [t \in Threads |-> 0] /\ uses = [t \in Threads |-> {}] /\ swapped = FALSE

--------------------------------------------------------------------------------
(* What an operation does, as the steps it takes one after the other *)

Retain(o) == IF o = NULL THEN <<>> ELSE <<[do |-> "increment", obj |-> o], [do |-> "track", obj |-> o]>>

Release(ref) ==
    IF ref.ptr = NULL THEN <<>>
    ELSE <<[do |-> "untrack", obj |-> ref.ptr, id |-> ref.id], [do |-> "decrement", obj |-> ref.ptr]>>

Store(s, o) == <<[do |-> "store", slot |-> s, ptr |-> o]>>
Take(s, src) == <<[do |-> "take", slot |-> s, src |-> src]>>

ReleaseFirst(s, src) == Release(rc[s]) \o Retain(rc[src].ptr) \o Store(s, rc[src].ptr)

\* doSwap, with which the copy constructor agrees on a variable that is null.
CopySteps(s, src) == Retain(rc[src].ptr) \o Release(rc[s]) \o Store(s, rc[src].ptr)

MoveSteps(s, src) == Release(rc[s]) \o Take(s, src)
ResetSteps(s) == Release(rc[s]) \o Store(s, NULL)

\* delete this: the members' destructors, then the memory.
DeleteSteps(o) == (IF o \in Owners THEN ResetSteps(o) ELSE <<>>) \o <<[do |-> "free", obj |-> o]>>

--------------------------------------------------------------------------------
(* The operations *)

\* A thread uses s: a local, or the member of an object that the local h keeps alive.  Nobody
\* else uses either at the time.
Free(s) == \A t \in Threads : s \notin uses[t]
Reaches(h, s) == h \in Locals /\ Free(h) /\ Free(s) /\ (s = h \/ rc[h].ptr = s)

Begin(t, steps, slots) ==
    /\ todo[t] = <<>>
    /\ todo' = [todo EXCEPT ![t] = steps] /\ uses' = [uses EXCEPT ![t] = slots]
    /\ id' = [id EXCEPT ![t] = 0]
    /\ UNCHANGED <<live, count, tracked, rc, swapped>>

\* create and alloc: the new object's count is 1 without a retain.  (If init refuses, the
\* object is deleted again before anybody sees it.)
Create(t, s, o) ==
    /\ todo[t] = <<>> /\ s \in Locals /\ Free(s) /\ rc[s].ptr = NULL /\ o \notin live
    /\ live' = live \cup {o} /\ count' = [count EXCEPT ![o] = 1]
    /\ rc' = [rc EXCEPT ![s] = [ptr |-> o, id |-> 0]]
    /\ UNCHANGED <<tracked, todo, id, uses, swapped>>

Copy(t, s, src) ==
    \E h, k \in Locals :
        Reaches(h, s) /\ Reaches(k, src) /\ Begin(t, CopySteps(s, src), {h, s, k, src})

\* The move assignment releases before it reads the source: the source may not be a member of
\* the object that the target keeps alive.
Move(t, s, src) ==
    \E h, k \in Locals :
        /\ Reaches(h, s) /\ Reaches(k, src)
        /\ k = s => src = s
        /\ Begin(t, MoveSteps(s, src), {h, s, k, src})

\* operator=(nullptr) and the destructor.
Reset(t, s) == \E h \in Locals : Reaches(h, s) /\ Begin(t, ResetSteps(s), {h, s})

\* swap exchanges the pointers and leaves the numbers.
Swap(t, s, src) ==
    /\ todo[t] = <<>> /\ ~swapped /\ rc[s].ptr # rc[src].ptr
    /\ \E h, k \in Locals : Reaches(h, s) /\ Reaches(k, src)
    /\ rc' = [rc EXCEPT ![s].ptr = rc[src].ptr, ![src].ptr = rc[s].ptr]
    /\ swapped' = TRUE
    /\ UNCHANGED <<live, count, tracked, todo, id, uses>>

--------------------------------------------------------------------------------
(* The steps of a thread's operation *)

\* The rest of the operation; with its last step the thread lets go of the variables and of
\* the local id, to which retainBacktrace has returned given.
Continue(t, steps, given) ==
    LET ends == steps = <<>>
    IN  /\ todo' = [todo EXCEPT ![t] = steps]
        /\ uses' = IF ends THEN [uses EXCEPT ![t] = {}] ELSE uses
        /\ id' = [id EXCEPT ![t] = IF ends THEN 0 ELSE given]
        /\ UNCHANGED swapped

Does(t, what) == todo[t] # <<>> /\ Head(todo[t]).do = what
Obj(t) == Head(todo[t]).obj

Increment(t) ==
    /\ Does(t, "increment")
    /\ count' = [count EXCEPT ![Obj(t)] = @ + 1]
    /\ Continue(t, Tail(todo[t]), id[t]) /\ UNCHANGED <<live, tracked, rc>>

\* getNextRefId never gives a number twice; here it gives one that is nowhere in use.
InUse == UNION {tracked[o] : o \in Objects} \cup {rc[s].id : s \in Slots} \cup {id[t] : t \in Threads}
IsFresh(i) == i \notin InUse \cup {0} /\ \A j \in 1 .. i - 1 : j \in InUse

\* retainBacktrace, under the tracker's mutex.
Track(t) ==
    /\ Does(t, "track")
    /\ IF Obj(t) \in Tracked
       THEN \E i \in Id : /\ IsFresh(i)
                          /\ tracked' = [tracked EXCEPT ![Obj(t)] = @ \cup {i}]
                          /\ Continue(t, Tail(todo[t]), i)
       ELSE Continue(t, Tail(todo[t]), id[t]) /\ UNCHANGED tracked
    /\ UNCHANGED <<live, count, rc>>

\* releaseBacktrace, for which the object is asked whether it is tracked.
Untrack(t) ==
    /\ Does(t, "untrack")
    /\ tracked' = IF Obj(t) \in Tracked THEN [tracked EXCEPT ![Obj(t)] = @ \ {Head(todo[t]).id}] ELSE tracked
    /\ Continue(t, Tail(todo[t]), id[t]) /\ UNCHANGED <<live, count, rc>>

\* fetch_sub: who takes the last reference deletes the object.
Decrement(t) ==
    /\ Does(t, "decrement")
    /\ count' = [count EXCEPT ![Obj(t)] = @ - 1]
    /\ Continue(t, IF count[Obj(t)] = 1 THEN DeleteSteps(Obj(t)) \o Tail(todo[t]) ELSE Tail(todo[t]), id[t])
    /\ UNCHANGED <<live, tracked, rc>>

Stored(t) ==
    /\ Does(t, "store")
    /\ LET step == Head(todo[t])
       IN rc' = [rc EXCEPT ![step.slot] =
                   IF step.ptr = NULL THEN None ELSE [ptr |-> step.ptr, id |-> id[t]]]
    /\ Continue(t, Tail(todo[t]), id[t]) /\ UNCHANGED <<live, count, tracked>>

Taken(t) ==
    /\ Does(t, "take")
    /\ LET step == Head(todo[t]) IN rc' = [rc EXCEPT ![step.slot] = rc[step.src], ![step.src] = None]
    /\ Continue(t, Tail(todo[t]), id[t]) /\ UNCHANGED <<live, count, tracked>>

Freed(t) ==
    /\ Does(t, "free")
    /\ live' = live \ {Obj(t)}
    /\ Continue(t, Tail(todo[t]), id[t]) /\ UNCHANGED <<count, tracked, rc>>

Step(t) ==
    Increment(t) \/ Track(t) \/ Untrack(t) \/ Decrement(t) \/ Stored(t) \/ Taken(t) \/ Freed(t)

Next ==
    \E t \in Threads :
        \/ Step(t)
        \/ \E s \in Slots :
             \/ \E o \in Objects : Create(t, s, o)
             \/ Reset(t, s)
             \/ \E src \in Slots : Copy(t, s, src) \/ Move(t, s, src) \/ Swap(t, s, src)

Spec == Init /\ [][Next]_vars

--------------------------------------------------------------------------------
(* Properties *)

TypeOK ==
    /\ live \subseteq Objects /\ count \in [Objects -> Nat] /\ tracked \in [Objects -> SUBSET Id]
    /\ rc \in [Slots -> [ptr : Objects \cup {NULL}, id : Id]]
    /\ id \in [Threads -> Id] /\ uses \in [Threads -> SUBSET Slots] /\ swapped \in BOOLEAN

\* How often this is still to be done to o, by all threads.
Pending(what, o) ==
    Cardinality(UNION {{t} \X {i \in DOMAIN todo[t] : todo[t][i].do = what /\ todo[t][i].obj = o} : t \in Threads})

\* The object that a variable holds once the operation that writes to it is done.
After(s) ==
    LET writes(t) == {i \in DOMAIN todo[t] : todo[t][i].do \in {"store", "take"}}
        moved == {t \in Threads : \E i \in writes(t) : todo[t][i].do = "take" /\ todo[t][i].src = s}
        into == {t \in Threads : \E i \in writes(t) : todo[t][i].slot = s}
    IN  IF moved # {} THEN NULL
        ELSE IF into = {} THEN rc[s].ptr
        ELSE LET t == CHOOSE t \in into : TRUE
                 step == todo[t][CHOOSE i \in writes(t) : todo[t][i].slot = s]
             IN  IF step.do = "store" THEN step.ptr ELSE rc[step.src].ptr

\* An object's count is the number of variables that will hold it when what has been begun is
\* done: no reference is lost or counted twice between a retain and the variable it is for.
CountExact ==
    \A o \in live :
        count[o] + Pending("increment", o) = Cardinality({s \in Slots : After(s) = o}) + Pending("decrement", o)

\* No thread touches an object that has been deleted, and no variable is left with one;
\* an object is deleted once, by one thread.
NoDangling ==
    /\ \A t \in Threads : todo[t] # <<>> =>
         LET step == Head(todo[t]) IN
           /\ step.do \in {"increment", "track", "untrack", "decrement", "free"} => step.obj \in live
           /\ step.do \in {"store", "take"} => step.slot \in Locals \cup live
           /\ step.do = "take" => step.src \in Locals \cup live
    /\ \A s \in Locals \cup {o \in live \cap Owners : count[o] > 0} :
         Free(s) /\ rc[s].ptr # NULL => rc[s].ptr \in live /\ count[rc[s].ptr] > 0
    /\ \A o \in live : count[o] = 0 => Pending("free", o) = 1

\* While nothing is under way and no references were swapped, the tracker records those that
\* exist, but for the one of each object's creation.
TrackerExact ==
    (\A t \in Threads : todo[t] = <<>>) /\ ~swapped =>
        \A o \in Objects : tracked[o] = {rc[s].id : s \in {r \in Slots : rc[r].ptr = o}} \ {0}
================================================================================
