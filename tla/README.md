# A specification of libstappler-common

libstappler-common is the base library of the Stappler SDK: memory pools and the
containers that live in them, strings and encodings, reference counting, and a
set of modules (threads, data formats, geometry, bitmaps, network and others).
This directory holds TLA+ modules that model the parts in which something can go
wrong that a test hardly reaches, the configurations with which TLC checks them on
small instances, and theorems that TLAPS proves for every instance.

Paths in this text are relative to the repository; `SPThreadTaskQueue.cc:645` is a
line of it. `PROJECT.json` lists, for every definition, the lines it models.

- [The system](#the-system): components, their state, how they interact
- [What is hard](#what-is-hard)
- [Modules](#modules): which module models what, and how
- [Runs](#runs): what TLC checks, with which bounds and fairness
- [Disagreements](#disagreements) between the code and what it says of itself
- [Proofs](#proofs): what is proved, from what, along which argument
- [Not modelled](#not-modelled)
- [Plan](#plan)

## The system

### Components of the core

**PriorityQueue** (`common/memory/SPMemPriorityQueue.h`). A queue of values with
an `int32_t` priority, the smallest first. State: a linked list of filled nodes
and a linked list of free ones, each behind a lock of its own (two mutexes, a
custom lock, or none); eight preallocated nodes; storage blocks of 64 nodes that
are allocated when the free list is empty and deleted when their last used node
is freed. Operations: `push` (with `insertFirst` the value goes in front of its
equals), `pop_direct`, `pop_prefix`, `clear`, `foreach`, the destructor. `push`
takes a free node under one lock, fills it under none and links it under the
other; a pop does the same backwards.
*Correct when* no node is in two places, blocks outlive their used nodes, values
leave in the promised order, and an emptied queue is back at its preallocated
nodes.

**TaskQueue** (`modules/threads/SPThreadTaskQueue.{h,cc}`). A pool of worker
threads. State: an input PriorityQueue of tasks, an atomic count of tasks that are
left, an output queue of tasks and one of functions under a mutex with an atomic
count, and a `WorkerContext` (flags, workers, two condition variables) that exists
while workers run. Operations: `perform` counts, queues and announces a task, or
posts it to the output if its `prepare` fails; `perform(map)` fills the queues of
particular workers; `onMainThread` posts a function; workers pop, execute,
report, announce, and count off; `update` takes the output over and completes
what is in it; `waitForAll` and two forms of `wait`; `finalize`,
`spawnWorkers`, `cancelWorkers`, `performAll`, `lock` and `unlock`, the destructor.
*Correct when* an accepted task is executed once and completed once, in order; the
counter is zero only when nothing is left; workers never use a context that is
gone; every wait ends when what it waits for has happened.

**EventTaskQueue** (`modules/threads/SPEventTaskQueue.{h,cc}`).
The same service on eventfds, an epoll per worker, a pipe for the end and a
reference-counted `Data`. `perform` writes a token per task; a worker reads all
tokens, uses one and writes the rest back.
*Correct when*, in addition, no queued task is without a token, no token lies
unnoticed, and `Data` is freed once, by the last who uses it.

**Memory pools** (`common/memory/pool`). `Allocator` keeps freed nodes of memory
in buckets by size, at most `max` pages of them, under a mutex. `Pool` bump-allocates
from a ring of such nodes, and has children and lists of cleanups and pre-cleanups.
Pools form a tree below a global pool that threads create and delete by `initialize`
and `terminate`. `AllocManager` uses blocks that containers give back again, by size;
`HashTable` is a table of chains with a free list, after that of APR.
*Correct when* every node is in one place, `last` and `current` of the allocator
agree with its buckets, what depends on a pool's memory (its children, its
cleanups) goes before the memory does, no two blocks overlap, and the table finds what
was put into it.

**Containers** (`common/memory`). A red-black tree with map and set on it, which takes
nodes from the allocator in batches; a sorted vector as a dictionary; string and vector
on a storage with a small, a large and a borrowed ("weak") form.
*Correct when* they hold what their calls have left, in order, construct and destroy
each element once, and give back each block as they got it.

**Ref, Rc** (`common/utils/SPRef.{h,cc}`). An atomic reference count and a pointer
that retains; a leak tracker with a map of backtraces under a mutex.
*Correct when* the count is the number of holders at every point at which somebody may
drop the last one.

**tess** (`modules/tess`). A sweep-line tessellator: a queue of vertexes, sorted once and
a heap after that, with handles; a mesh of half-edges that contours build and the sweep
splits; supplies of vertexes and edges.
*Correct when* the least vertex comes first, rings are closed and agree, and what is
released is named by nothing.

**network** (`modules/network`). `MultiHandle` performs transfers side by side by CURL and
reports each to a callback that may add others or end all; `Handle` performs one, on an
easy handle that its thread or pool keeps.
*Correct when* each transfer that is added is reported once and what it opened is closed
once.

**data** (`modules/data`). `Value`, a tree, and its forms CBOR, JSON, Serenity and
urlencoded. **Strings and encodings** (`common/string`), **io** and **buffers**
(`common/io`, `common/utils/SPBuffer.h`), **time** (`common/utils/SPTime.cc`),
**paths** (`modules/filesystem/SPFilepath.cc`): functions on bytes.
*Correct when* reading inverts writing, sizes computed in advance are those written, and
paths mean the same before and after.

**Others**: the stack of current pools and the bridge to APR, URL, validation, HTML, log;
modules crypto (JWT), bitmap, filesystem, geom, idn, zip.

### How they interact

- The threads module calls PriorityQueue from every thread. `setQueueLocking` makes
  the input queue lock its list by the mutex of the workers' condition variable.
- Task functions run on workers, completions and posted functions on the owner's
  thread, and all of them may call `perform` and `onMainThread` in turn.
- Workers hold references to the queue (TaskQueue) or to its `Data`
  (EventTaskQueue) until they end; tasks are held by `Rc` wherever they are.
- Every thread initialises the pools and works in pools of its own, below the
  global pool; those share an Allocator, whose mutex also guards the lists of
  children. A cleanup function runs in the middle of `clear` or `~Pool` and may
  allocate, register or kill cleanups, and create or destroy other pools.
- Containers in pool memory ask the pool stack which pool to use, and give blocks back to
  the pool's `AllocManager`; `Value`'s arrays and dictionaries are vectors and sorted
  vectors of Values, into which the JSON decoder keeps pointers while it reads.
- `io::read` passes a producer's bytes block by block through a buffer to a consumer.

## What is hard

`PROJECT.json` lists the hazards by line, with the properties that watch them. In
short: calls that look like one operation and are three steps under different locks
(perform; report; push and pop); condition variables used without a predicate and
notified without their mutex; an edge-triggered, exclusive eventfd whose
tokens change hands; objects deleted while others may still hold pointers into them
(storage blocks, the worker context, `Data`, members of an object whose count falls to
zero); counters that must agree with lists they are not updated with (`_tasksCounter`,
`used`, `last`, `current`, the spare nodes of a tree); cleanup callbacks that re-enter a
pool while it is being taken apart, and the order in which a pool, its children and its
cleanups go; transfers whose callbacks add transfers; one union for three forms of a
string; and limits of numbers, of dates and of encodings at which another branch begins.

## Modules

| Module | Models |
| --- | --- |
| `PriorityList` | the order of a PriorityQueue, as operators on sequences |
| `PriorityQueueParams`, `PriorityQueueSpec` | what PriorityQueue promises: one step per call |
| `PriorityQueue`, `MCPriorityQueue` | its nodes, links, blocks and two locks, and what they keep; instances, and two properties the code does not have |
| `PriorityList_proof`, `PriorityQueueSpec_proof`, `PriorityQueue_proof` | theorems about the order, about what is promised, and about the nodes |
| `TaskQueueSpec` | what either task queue promises about a task |
| `TaskQueue`, `MCTaskQueue` | the queue on condition variables; properties, fairness, instances |
| `TaskQueueLocal`, `MCTaskQueueLocal` | the same with `Flags::LocalQueue` |
| `TaskQueue_proof` | theorems about TaskQueue: its own state; what it promises |
| `EventTaskQueue`, `MCEventTaskQueue` | the queue on eventfds and epoll; properties, fairness, instance |
| `EventTaskQueue_proof` | theorems about it, in the same order |
| `PoolAllocator` | the buckets of `Allocator` |
| `Pool`, `MCPool` | the tree of pools over it, and what it keeps; instances |
| `PoolNodes_proof`, `Pool_proof` | theorems about both: buckets, pages and the nodes of pools; the tree, the calls and the lists |
| `PoolBlocks` | `AllocManager`: the freed blocks of a pool |
| `PoolHash` | `HashTable` of the pools |
| `MapSpec` | what a map promises, whatever keeps it |
| `Rbtree` | the red-black tree and its links |
| `TreeNodes`, `TreeCopies` | the batches its nodes come from; the same with copies and moves |
| `Dict` | the sorted vector as a map |
| `MemStorage` | the storage under string and vector |
| `RefCount` | `Ref`, `Rc` and the leak tracker |
| `RefCount_proof` | theorems about it: counts, deletion, the tracker |
| `TessQueue`, `TessMesh` | the tessellator's queue of vertexes; its contours and mesh |
| `NetworkHandles` | transfers, one and several |
| `Cbor`, `Json` | `Value` and two of its forms |
| `Encodings` | base64, base16, percent encoding, UTF-8, UTF-16 |
| `Buffers` | buffers, and `io::read` through them |
| `Calendar` | days, and the forms of dates |
| `Paths` | paths as text |
| `MCLibrary` | instances of the components from `PoolBlocks` on |

`PriorityQueue` implements `PriorityQueueSpec`. The task queues do not repeat the
nodes of their input queue: they hold it as a list with `PriorityList`'s order, which
is what `PriorityQueueSpec` allows. Both task queues implement `TaskQueueSpec`. `Rbtree`,
`PoolHash` and `Dict` say what they hold by `MapSpec`.

What runs under one mutex is one step of a model, and so is one access of an
atomic, one notification, one system call. Definitions whose comment begins with
`Mutant:` are altered forms of the definition that follows; with one of them in its
place a property of the module must fail.

### PriorityQueue

A node is a pair of its block (`NULL` for the preallocated array) and its place.
`mem` holds the links, the counters `used`, the live blocks and the two ends of the
free list. A block's address is used again after the block is deleted, and its nodes'
old links stay, so that a pointer into a deleted block finds what it would find in
memory. `push` is `PushAllocate` (allocateNode and the construction of the value) and
`PushLink` (pushNode); a pop is `PopDetach` and `PopFree`. `Clear` is one step, as
it holds both locks, and requires that no thread is inside an operation (it
unlocks the mutexes before it locks them, so its callers must ensure that). The
destructor is a walk of its own, `Destroy` and `DestroyNode`.

`Chain(next, n)` is the list of nodes that the links run through from `n`: a recursive
function of the number of links followed, which stops at `NULL` or after one more node than
there are. It gives `QueueChain` and `FreeChain`, and `freeNode`'s removal loop
(`DropBlock`), in which each node that is kept is linked to the next one that is
(`NextKept`). `AllFreed` is what `clear`'s loop does to the memory.

*Refinement.* `queue <- Entries(QueueChain)`: the abstract queue is what the links
from `_queue.first` run through. `PushLink`, `PopDetach` and `Clear` are the abstract
steps, the others stutter.

### TaskQueue

`pc[w]` says where a worker is in `worker()` and in the loop around it, `pc[Main]`
where the owner is. `call[th]` is what a thread's `perform` or `onMainThread` still has
to do, so that a task on a worker, or a completion on the owner, can call in turn.
`stage[x]` follows each task and function.

| Code | Actions |
| --- | --- |
| `perform` | `Perform` (prepare, the counter), `Push`, `Notify`; a refused task: `Post`, `Signal` |
| `onMainThread` | `OnMainThread`, `Post`, `Signal` |
| `Worker::worker` | `ThreadInit`, `TestQuit`, `PopTask`, `LockInput`, `Block`, `Spurious`, `Wake`, `Executed`, `Report`, `ReportSignal`, `Uncount` |
| `update` | `Update` (or another caller's `TakeOutput`), `Complete`, `Updated` |
| `waitForAll` | `WaitForAll`, `TestCounter`, `WaitExit` |
| `wait()`, `wait(interval)` | `Wait`, `WaitSpurious`, `Waited`; `TimedWait`, `TimedWaitEnd` |
| `finalize` | `Finalize`, `FinalizeNotify` |
| `spawnWorkers`, `cancelWorkers` | `SpawnWorkers`; `CancelWorkers`, `Release`, `CancelNotify`, `Join`, `DeleteContext` |
| destructor | `Destroy` |

A wait is two steps, `Block` (the thread is among those a notification finds) and
`Wake` (it has the mutex again). A notification finds only threads that wait. The
notification of the exit condition has no counterpart: `waitExit` is a timed wait,
which may end at any moment anyway. Producers make no calls while the owner
cancels: `_context` is a plain pointer that `perform` reads and `cancelWorkers`
deletes, so the program that uses the queue must exclude it.

*Refinement.* `ready` is the input queue, `running` the tasks of workers that
execute or report, `reported` the tasks that `update` has taken over and, behind them,
those in the output queue, `completed` the tasks whose stage is "done".

`TaskQueueLocal` adds each worker's own queue and `perform(map)`. In this mode
`worker()` can reach a call on a null task (`ExecuteNull`); the model stops there,
since nothing defines what follows.

### EventTaskQueue

`tokens` is the value of the workers' eventfd, `edge[w]` says whether it is on the
ready list of worker `w`'s epoll. A write puts it on the list of at least one worker
that waits in epoll_wait, or of all registered ones if none waits, and perhaps on
more (EPOLLEXCLUSIVE promises no more than this). `epoll_wait` takes it off and
reports it if it can be read by then. `perform` is `Perform`, `Push`, `WriteToken`; a
worker's round is `PollEvents` or `PollNothing`, `Read`, `Pop`, `Forward`, `Executed`,
`Report`, `Uncount`, `WakeMain`; `cancelWorkers` is `CancelWorkers` and `Join`;
the owner's `wait` is `Wait`, `Woken`, `MainEpoll`, `Timeout`. `refs` is the count
of `Data`. `waitForAll` returns at once in the code and has no action.

### Pool and PoolAllocator

Lengths are in units, pages of `Boundary` units. `Alloc(size, n)` is
`Allocator::alloc` returning node `n`: from a bucket, from the list of large nodes, or
from malloc; the choice of a bucket and the update of `last` and `current` are those
of the code. `Free` takes a list of nodes, as the code does, in its order. A pool is
its ring of nodes from the active one (`ring`), the node it lies in (`self`), its
children and three lists of cleanup structures, which are places in its own
memory.

`frames[t]` is the stack of a thread's calls of `clear` and `~Pool`: a cleanup function
that runs (`calling`) may do what the thread could do, and a call it makes is a new
frame. What the functions must not do is a rule in the guards, since the code would
break and does not say so: clear or destroy a pool that is being cleared or
destroyed, or one above it; register a pre-cleanup once they have run, or create
a child once the children are gone. `make_child` is `MakeChild` (the node) and
`LinkChild` (the place in the parent's list). malloc is called outside
the mutex and adds to nothing shared but `allocated`, so `alloc` is one step.

`MCPool` checks two parts in one run: several threads with requests of all sizes and one
cleanup ("memory"), and one thread with three cleanups that work on one another ("lists").

### The containers and what lies under them

*PoolBlocks.* Blocks are runs of addresses. `Alloc` takes the smallest freed block that
will do, unless it is more than twice the request, `Free` records one, in a record that is
itself used again or taken from the pool; `Clear` forgets all of it while owners may still
give theirs back (`late`).

*PoolHash.* The entries with their `next`, the array of buckets, the free list, and a
HashIndex: `Begin`, `Visit`, `End`, between which `Unset` may remove what was visited.

*Rbtree, TreeNodes, TreeCopies.* The links are functions of nodes; a node is named by its
key and a number, as two trees may hold one key. `InsertOrAssign`, `TryEmplace`, `Erase`,
`Clear`, `CopyAssign`, `MoveAssign` are the calls, each with the search, the linking and
the rebalancing that it does. Where nodes come from does not depend on how they are
linked, so that `TreeNodes` keeps only how many of which block are used, in the chain of
spare nodes or given back. `TreeCopies` adds what copies do to the header's counts.

*Dict.* A sequence of pairs. The vector's own working is in `MemStorage`.

*MemStorage.* A storage is a record of its form and of its cells, each empty or holding an
element; an operation constructs, moves and destroys cell by cell, as the code does, so that
an element that is written over, lost or destroyed twice shows.

*RefCount.* `todo[t]` is what a thread still has to do, as a sequence of steps: an access to
a counter, to the tracker, the deletion of an object and the release of its members. A
pointer variable is used by one thread at a time, an object by all that hold it.

### The modules

*TessQueue.* `init` sorts with an explicit stack of ranges: `StartSort`, `SortStep` and
`SortSmall`. After it inserted vertexes go to the heap, whose nodes and handles refer to
each other. *TessMesh.* Half-edges in pairs, with the next one around the face and around
the origin;
`PushVertex` and `CloseContour` of several cursors; `ConnectEdges` and `SplitEdge`, at
whatever place, since where the sweep finds work is geometry.

*NetworkHandles.* What CURL does is a choice: which transfers end and how. `perform` of a
MultiHandle is `Start`, `MultiPerform`, `ReadInfo` for each message, `Continue`, `Refuse`
and `EndInfo`; `PerformReuse` and `PerformOnce` are a Handle's.

*Cbor, Json.* Bytes and characters as sequences; encoders and the decoders that read them.
JSON's decoder is a machine with a stack of paths to open containers (`ParseFirst`,
`ParseArray`, `ParseDict`); CBOR's is recursive, as in the code. *Encodings, Buffers, Calendar, Paths.* The functions
as operators, on a text (or day) that grows by one step; `Buffers` keeps beside a buffer
the text that it should hold, starts a StackBuffer with any bytes, as its constructor does not
initialise them, and `io::read` is `StartRead`, `ReadBlock`, `WriteBlock`,
`EndRead`.

## Runs

A run is one `.cfg`. All of them allow the system to stop (`CHECK_DEADLOCK FALSE`):
the owner may never call anything again, a destroyed queue has no next step, and
the bounds end a behaviour.

| Run | Instance | Distinct states | Shows |
| --- | --- | --- | --- |
| `pq` | 2 threads, priorities 0 and 1, 5 pushes, 1 preallocated node, blocks of 2 | 475,669 | nodes, blocks and values are right under any interleaving; implements `PriorityQueueSpec` |
| `tq_safety` | 2 workers, the owner, three tasks (one urgent and without a completion, one refused), one function | 963,515 | the counter, the context's lifetime, the announcement of reports, the last update; implements `TaskQueueSpec` |
| `tq_prefilled` | 2 workers, 2 tasks performed before the workers start | 64,261 | `waitForAll` returns and every task runs |
| `etq` | as `tq_safety`, on eventfds | 325,536 | tokens, references, liveness; implements `TaskQueueSpec` |
| `pool` | the global pool and 2 more, 4 nodes; 2 threads, 1 cleanup and two sizes, or 1 thread and 3 cleanups | 500,829 | nodes, buckets, rings, the tree; cleanups: their structures, their order, none forgotten |
| `library` | 26 instances, see below | 378,761 | the containers, pools' blocks and tables, tess, network, data, encodings, time and paths |
| `pq_capacity`, `pq_destroy`, `tq_lost_cancel`, `tql_dropped`, `tree_copies`, `tess_contour` | small | | each refutes one property, see [Disagreements](#disagreements) |

The components of `library` do not interact, and each behaviour of the run is one of one of
them: `part` says of which, and `v1` to `v8` are its variables.

| Part | Component | Instance | States |
| --- | --- | --- | --- |
| wide | `Rbtree` | one tree of ten keys, hints in trees of up to four | 14,077 |
| pair | `Rbtree` | two trees of three keys, one of which has two values | 1,725 |
| nodes | `TreeNodes` | one tree, room for four nodes | 14,400 |
| grows, merges | `PoolHash` | a table of four keys that grows twice; two tables of two keys that are copied and merged, one of them iterated | 10,848; 15,872 |
| sort, short, heap | `TessQueue` | four vertexes to sort, two of them in one place, and a partition of every range; the same with the code's limit of ten, so that they are insertion-sorted; a heap of six | 28,857; 1,653; 46,582 |
| contours | `TessMesh` | four pushes by two cursors | 4,298 |
| sweep, crossing | `TessMesh` | contours of three with splits between corners, of four with crossings in a corner or between | 24,905; 1,482 |
| blocks | `PoolBlocks` | four sizes, nine units of memory | 41,069 |
| values, numbers | `Cbor` | trees of four nodes and nine kinds of leaf; every limit of the encoding of numbers and lengths | 2,709; 193 |
| encoded | `Encodings` | up to four bytes, up to three characters | 1,365 |
| strings, vector, vectors | `MemStorage` | two strings; a vector of objects that grows; two that are moved | 2,824; 605; 8,039 |
| refs, leaks | `RefCount` | two objects of which one may own the other or itself, two threads; one tracked object | 25,258; 19,625 |
| transfers | `NetworkHandles` | three transfers of two handles, and one alone | 49,592 |
| json | `Json` | leaves of every kind, containers of three levels, two layouts | 5,758 |
| buffers | `Buffers` | three bytes growing past six, or not growing and uninitialised; four sources | 51,915 |
| dates | `Calendar` | every day of 1972, 2000 and 2100, two times of day, two local times, four written offsets | 1,101 |
| paths | `Paths` | every path of seven characters over `/`, `.` and `a` | 3,280 |
| dict | `Dict` | two dictionaries of three keys and two values | 729 |

### Why the bounds are enough

*pq.* With one preallocated node and blocks of two, the second value in the queue
needs a block and the fourth another one; five pushes also suffice to fill a block,
empty the queue and use the block's address a second time. Two priorities and both values
of `insertFirst` reach the four ways in which pushNode links. The code's 8 and 64 differ in
size only.

*tq_safety, etq.* Two workers compete for tasks, notifications and tokens. The
three tasks cover a completion, no completion and a refused prepare; any of them, and
the function, may be submitted by the owner, by another task or by a completion.
Calls of other threads take the same steps as those of a task on a worker, so no
Producer is in these runs; the theorems have any number of them.

*pool.* Pages have two units, the smallest node four. Size 4 needs three pages,
size 7 four, which is beyond the three buckets and goes to the list of large nodes. Four
nodes suffice for a ring of three beside another pool. `Maxima` has both the
unlimited allocator and one that gives nodes back. Two pools below the global
one make siblings, or a parent and its child. With three cleanups one can register the
second and kill the third, or register it once more, while its pool is being cleared, and
both lists can be in use at once; what the allocator keeps matters less there, hence one
size and one maximum.

*library.* Fewer than ten keys never give a tree of black height three, and removal would
not rebalance on two levels. The hash tables begin
with two buckets (`InitialMax` 1), so that four keys make one grow twice. Nine units let a block be freed, reused by a
smaller request and freed again. CBOR's numbers lie on both sides of each limit, of float
formats too. Four bytes are one more than a group of base64; the characters lie on both
sides of each length in UTF-8 and UTF-16. Three transfers let a callback add one while
another waits and a third ends. Two threads with a variable each, and members that are
variables too, reach every order of retain and release. Seven characters hold `a/../..` and
what surrounds it.

`MaxSpawns` bounds `spawnWorkers` in TaskQueue, `MaxPushes` the pushes of
PriorityQueue, `MaxAdds` and `MaxSingle` the transfers, `MaxId` the tracker's numbers,
`Space` memory, `MaxNodes`, `MaxBytes`, `MaxChars`, `MaxSize` and `MaxLength` data. A task
is performed once in a behaviour, as a task object is.

Symmetry is used in `pq` and `pool`, where addresses and threads are interchangeable, and
which check safety only. (In `pq` the refinement is a property of initial states and
steps, without fairness.)

### What is assumed of the scheduler

*TaskQueue* (`FairSpec`): a worker, and a thread inside `perform` or `onMainThread`,
that asks for a mutex over and over gets it in the end (strong fairness: a mutex is
free again and again, not for good); the owner goes on with a call it has begun
(weak fairness), which includes that timed waits time out. Nobody is obliged to call
anything, a task's functions return, and nothing wakes up spuriously: that may happen,
but a program cannot count on it. `PrefilledSpec` restricts this to behaviours in which
nothing but a task submits a task once workers exist, the use the code makes of the
queue in `performAll`.

*EventTaskQueue* (`FairSpec`): weak fairness for the same. No thread has
to win a mutex against others for ever, as no mutex is held across steps, and an event
on an epoll's ready list stays there until `epoll_wait` takes it.

The other runs assume nothing: their properties are about states and steps.

### What the properties say

*PriorityQueue.* `RemovalOrder`: by priority, equals in the order of their pushes, those
with `insertFirst` in front and the newest of them foremost. `MemorySound` is what two
locks and two lists must preserve together: `NodesNotShared`, `BlocksOutliveNodes` (with
the exact count `used`), `DrainedIsInitial`, `ValuesInUsedNodes`.

*TaskQueue.* `CounterExact` relates the counter to the calls under way, the queue and
the workers' hands. `WorkersHaveContext` is the lifetime of `_context`.
`ReportsReachMain`: what lies in the output queues has been announced since the
owner last took them over, or is about to be (`OutputAnnounced`); and at the end of
`cancelWorkers` no executed task waits for its completion (`CancelCompletesAll`).
`AcceptedRuns`, `WaitForAllReturns` and `CancelReturns` are the promises of progress;
`tq_prefilled` shows two of them where they hold, `tq_lost_cancel` where one does not.

*EventTaskQueue.* `TokensSuffice` is why `AcceptedRuns` holds: there is a token for each
queued task, in the eventfd or in hands that will write it (`TokensCoverTasks`), and
where there are tokens some worker is about to look (`TokensNoticed`). `RefsExact` is the
lifetime of `Data`.

*Pool.* `NodesConserved`: buckets, rings and hands partition what malloc has
returned. `SummariesExact`: the allocator's two summaries of its buckets (`LastExact`,
`KeptBounded`), and why trying one node of a ring is as good as trying all (`RingSorted`).
`CleanupsSound`: lists of cleanups never refer to memory the pool has given back, and none
is forgotten. `CleanupOrder`: when cleanups run, the children are gone. `TreeSound`: the
tree is one in whatever order threads and cleanup functions take it apart, and nothing is
left after the last `terminate`.

*Containers.* `TreeSound`: red-black trees stay balanced and their links agree, iteration in
both directions meets what the calls have left, a hint leads where the search would, the
nodes in use or spare are those the allocator has given, and a dict is sorted whatever the
hints. `ReleasedAsAcquired`: batches go back whole. `TableSound`: a table finds what was
left in it, an entry is in a chain or free, and an iteration that removes entries meets each
entry once. `StorageSound`: strings and vectors hold what the calls have left, each object
is constructed and destroyed once, and each block has one owner. `BlocksSound`: a pool's
blocks, freed blocks and records do not overlap, and the smallest that will do is used.

*Modules.* `RefsSound`: the count is that of the holders in any interleaving, and nobody
touches a deleted object. `TessSound`: the least vertex comes first, handles lead to their
vertexes, rings are closed and agree, vertexes and edges are in use or free, once.
`TransfersSound`: each transfer is performed, finalized and reported once, and what it holds
of CURL goes with it. `ValuesKept`, `JsonSound`, `EncodingsInvert`, `DatesSound`: what is
read is what was written, in any form the formats allow (`AnyForm`), and in the sizes
computed beforehand; dates with the offsets that fromHttp reads, see [Seen and not run](#seen-and-not-run).
`BuffersSound`: a buffer keeps what was put into it, gives nothing that its memory held before,
and passes all on.
`PathsSound`: a reconstructed path leads where the path did.

## Disagreements

Each of these runs lets TLC find a behaviour of the model that breaks what a comment or
a test of the repository says; `PROJECT.json` quotes the lines under `findings`.

- `pq_capacity`, `FreeCapacityExact`. `freeNode` (`SPMemPriorityQueue.h:383`) appends a
  block's last used node to the free list and then takes the block's nodes off
  it, but not off `_free.last`. The next node freed is linked behind a deleted node and is
  lost: `free_capacity()` and what is queued no longer make up `capacity()`, as
  `PriorityQueueTest.cpp:94` expects.
- `pq_destroy`, `DisposedOnce`. The destructor frees a node and then reads its link.
  The walk goes on into the free list, and destroys values that were never built.
- `tq_lost_cancel`, `CancelReturns`. `cancel` clears a worker's flag and notifies
  without the mutex. A worker that has read its flag and does not wait yet misses
  both; a worker whose `threadInit` has not run yet sets the flag again. `cancel`
  then joins a thread that never ends. In the same way a task that is pushed and announced
  between a worker's `popTask` and its wait stays in the queue until another notification.
- `tql_dropped`, `LocalTaskKept`. With `Flags::LocalQueue` a worker moves the task it has
  popped onto itself (`SPThreadTaskQueue.cc:629`: the lambda's parameter hides
  the variable). The task is lost and its count stays.
- `tree_copies`, `NodesBacked`. Copying or moving a tree overwrites the counts of spare
  nodes and batches in its header, while it keeps its own chain of spare nodes
  (`SPMemRbtree.h:947`): the chain's nodes are then given back as one batch that they are not.
- `tess_contour`, `VertexEdges`. `removeDegenerateEdges` releases a vertex and leaves a
  half-edge of the remaining one with the released one's index (`SPTess.cc:971`).

### Seen and not run

What the models leave out because the code is plainly not what its caller expects there, or
because no line of the repository says what should happen.

- *PriorityQueue*: `empty()` returns the opposite, and its lock is a temporary; `clear`
  unlocks before it locks (`:174`).
- *Task queues*: `wait()` has no predicate; completions run under the lock in the
  destructor (`SPThreadTaskQueue.cc:288`); the index of `perform(map)` is not checked
  (`:346`); queue and workers refer to each other (`:572`). `poll` looks at `errno` although
  `epoll_wait` has not failed (`SPEventTaskQueue.cc:592`): a task that leaves EINTR there
  loses the events just reported.
- *Pools*: the stack of current pools has 32 places (`SPMemPoolInterface.cc:74`).
- *Containers*: `upper_bound`, `erase(first, last)`, `swap` and `count` of the tree
  (`SPMemRbtree.h:993`, `:386`, `:454`, `:1008`); a hint equal to the key puts it twice into a
  dict (`SPMemDict.h:312`), and `insert_or_assign` with a hint does not compile. Storages: a
  small one that was emptied and then assigned a long text; `resize(0)` in the small form,
  which leaves the bytes; a weak one that is shortened or reserves less than it has; an
  argument inside the storage itself; `Extra` missing where a grown block is released; a
  long string that was cleared and assigned a short one; moves between pools.
- *Rc*: `swap` leaves the tracker's numbers behind (`SPRef.h:168`); the move assignment
  releases before it reads its source (`:140`).
- *tess*: a queue of no vertexes.
- *network*: `addMailTo` never adds to an empty list; `CURLOPT_NOPROGRESS` inverted; an error
  of the multi interface leaks everything; a callback that refuses leaks one easy handle;
  the result of `prepare` is ignored by MultiHandle, and its failure skips `finalize` of a
  single Handle; a handle that is used again keeps its results; a thread's easy handle is
  never released.
- *data*: CBOR loses an empty string, array or map at the end (`SPDataDecodeCbor.h:163`), and
  decodes keys that are containers into the value itself; an infinite number differs from
  its copy; `setValue(x, 0)` on an empty array. JSON writes infinity as `inf` and reads its
  `n` as null; `+1` is not advanced over; doubles without a fraction come back as integers; a
  comment in an array is read as a value; a repeated key with null keeps its old value.
  urlencoded: escapes in keys split them, one byte behind the text is read
  (`SPDataUrlencoded.cc:150`), `maxVarSize` is compared in two ways.
- *Strings*: `toUtf16` does not return for U+0000; HTML entities are compared by prefix.
- *io*: a producer over a stream gives less than it has; `putc` into less than three bytes,
  `io::read` with none; a buffer that was moved from.
- *time*: an offset written with a colon is dropped (`SPTime.cc:455`) although the comments
  list one, `2011-04-28T06:34:00+09:00` (`:333`, `:479`, `:497`); one of four digits with a zero in
  front is read as an octal number (`:462`: readInteger's base is 0, `SPStringView.h:196`), `+0300`
  as 2:32 and `+0900` as 0. `DatesSound` claims neither: `Gmt` and `ReadInteger` do what the code
  does, and `Zones` are those of ten hours or more; month 00 is accepted; the local offset is that of the present; reading a
  fraction truncates, so that about one microsecond in eighty differs.
- *paths*: `reconstructPath` makes `//` and `/` of `/` and `a/../`; `canonical` tests its
  prefixes the wrong way round; `replace` cuts inside a component; `lastComponent("/a", 1)`
  keeps the slash; `isAboveRoot` stops at a single dot or a double slash.

## Proofs

Checked by TLAPS for all values of the constants that satisfy the named assumptions.
Obligations: `PriorityList_proof` 198, `PriorityQueueSpec_proof` 248, `PriorityQueue_proof` 3516,
`TaskQueue_proof` 2468, `EventTaskQueue_proof` 2771, `PoolNodes_proof` 3643, `Pool_proof` 3980,
`RefCount_proof` 4484.

Every property that `pq` and `pool` check and every safety property that `tq_safety` and `etq`
check is a theorem, the refinements included, and so are the three parts of `RefsSound` that
`library` checks.

**PriorityList_proof.** Lemmas that the others cite: what an insertion into a list keeps
(`InsertedAtType`, `InsertedAtEntries`), what the leading elements of a list are after
one is taken or added (`LeadingPrefix`, `LeadingNothing`, `LeadingTail`, `LeadingConcat`,
`ConcatEnds`, `HeadIsFirst`), and the size of a set that one thread joins or leaves (`AddOne`,
`RemoveOne`).

**PriorityQueueSpec_proof**, from `SpecAssumption` (priorities are integers).

- `TypeCorrect`: `Spec => []TypeOK`.
- `RemovalOrderHolds`: `Spec => []RemovalOrder`. `IInv` adds to it that every id in the queue
  is at most `pushes`: a new entry's id is then larger than all others, which decides its
  order among equals. That the entries in front of a slot stay ahead of the new one
  and those behind do not is `IsSlot`; that entries keep their order around it is
  `InsertedAtProperties`.

**PriorityQueue_proof**, from `SpecAssumption` and `PQAssumption` (threads and blocks are
finitely many, blocks have two nodes or more, there is a preallocated one, and `NULL` is none
of the things it stands in for).

- `TypeCorrect`: `Spec => []TypeOK`.
- `MemorySoundHolds`: `Spec => []MemorySound`, all four parts of it.
- `PromiseHolds`: `Spec => ImplementsPromise`. `PushLink`, `PopDetach` and `Clear` are
  `Push`, `Pop` and `Clear` of `PriorityQueueSpec`, and the other steps change nothing of the
  queue.
- `RemovalOrderHolds`: `Spec => []RemovalOrder`, from `PromiseHolds` and the theorem of that
  name in `PriorityQueueSpec_proof`, which is instantiated with the refinement mapping.

None of these is inductive, and `Chain` is recursive, so one cannot argue about it
directly. The invariant says instead that there are *some* lists: `IInv` is `Sound(q, f)` for
some `q` and `f`, where

- `QueueSound(q)`: the links from `_queue.first` to `_queue.last` run through `q` (`IsChain`),
  and `q` is sorted by priority; `pushNode` compares with the last entry before it walks;
- `HandsSound(q)`: each working thread holds a node, no two the same, and none of `q`;
- `ValuesSound(q)`: values are in the nodes in use, `InUse(q)`, which are those of `q` and those
  in threads' hands, and there is room for the pushes under way;
- `MemSound(mem, InUse(q), f)`: the free list runs through `f`; its nodes are not in use, they
  and those in use exist; `used` counts the nodes in use of each block and is positive;
  and each preallocated node is in use or in `f`. About `_free.last` it says no more than
  the code keeps: if it is a node in use or one of the list then it is the end of the list,
  and if it is null the list is empty. Otherwise it names a node that the list has
  lost, as in the defect that `pq_capacity` shows, and what is linked behind that is lost
  too; so nothing is said of where a block's free nodes are.

`ChainIs` shows that `Chain` finds the list of `IsChain`: `Chain`'s function is the one
that runs through the list and then stays at `NULL`, by induction on the place (`LeastFailure`,
from the library's well-founded order of the natural numbers, as the library's induction
theorems take an operator), and the list is no longer than there are nodes (`ChainLength`).
Then each operation is a lemma on lists: `AllocateListed`, `AllocateBlockSound` (with
`CountTaken`), `FreePreallocated`, `ReturnedDivided` and `DropSound` (with `CountReturned`; that the
kept places of a list can be listed in their order is `AscendingExists`), `AllFreedSound`, and
`LinkPlace`, which shows that pushNode's four ways all put a node where it belongs.
The steps (`PushAllocateStep`, `PushLinkStep`, `PopDetachStep`, `PopFreeStep`, `ClearStep`)
combine them.

**TaskQueue_proof**, from `TQAssumption` (threads are finitely many, their roles
and the values are distinct).

- `TypeCorrect`: `Spec => []TypeOK`.
- `CounterExactHolds`: the counter is the number of tasks that are on their way into the
  input queue, in it, or with a worker.
- `WorkersHaveContextHolds`: no worker runs after `_context` is deleted.
- `ZeroMeansIdleHolds`: what `waitForAll` concludes from a zero. It follows from
  `CounterExact`, as a sum of three natural numbers is zero only if each is.

The inductive invariant `IInv` is `TypeOK` with

- `CallsCarry`: a call about to push has a task, a call about to post has an item; without it
  the types of the queues are not kept;
- `BusyHold`: a busy worker holds a task, for the same reason;
- `WorkersHaveContext`, which needs
- `AllJoined`: at `DeleteContext`, and in the update before it, every worker is done; and
- `DeadAlone`: a destroyed queue has no context. A worker that counts a task off has
  one, so the queue is not destroyed, `CounterExact` speaks of it, and the counter is
  at least one: it stays a natural number;
- `CounterExact`.

The proof goes action by action (`CallsKeepInv`, `WorkerKeepsInv`, `MainKeepsInv`), with a
lemma for each way in which `pc` moves (`GotoMoves`, `WokenMoves`, `NotifyWaitMoves`)
and one for the sets whose sizes `CounterExact` adds up (`Finite`, `AddOne`,
`RemoveOne`).

The second part of the module is what the queue promises.

- `PromiseHolds`: `Spec => ImplementsPromise`. Each step of the queue is a step of
  `TaskQueueSpec` or changes nothing that it knows of.
- `ReportsReachMainHolds`: `Spec => []ReportsReachMain`.

The invariant `Placed` says that a task is in one place and that its stage names the place:
with one call (`CallsPlaced`), in the input queue once (`InputPlaced`), in one worker's
hands (`HandsPlaced`), in the output queue or with the owner once (`OutputPlaced`).
`TasksLead` is what makes `reported` a list: the owner takes tasks over before functions, and
so the leading tasks of its stack, followed by the output queue, are the reported tasks in
their order. `StackEmptied` says that this stack is empty outside `update`; `LastUpdate`
that the update at the end of `cancelWorkers` leaves only refused tasks behind, since
all workers are done by then. With `Placed` each action maps to one of `Accept`, `Refuse`,
`Take`, `Report`, `Complete`, `Abandon`, or to none (`QuietStep`). `TaskQueueSpec` asks in each of
these that the task was not in a later place, which is what is hard about it: it follows
from the uniqueness in `Placed` (`NotKnown`).

**EventTaskQueue_proof**, from `EQAssumption`.

- `TypeCorrect`, `CounterExactHolds`, `RefsExactHolds`, `OutputAnnouncedHolds`,
  `TokensNoticedHolds`.

Its `IInv` has `CallsCarry` as above; `HandsMatch`, which ties `held` and `value` to the step
at which a worker is (a worker's label says whether it has a task that is not yet counted
off, so that counter and hands move by one together); `CounterExact`; `RefsExact`; and
`TokensNoticed` with `CancelKnown`: a worker learns of the end from the pipe only, so that
no worker unregisters its epoll while tokens have yet to be noticed, unless the pipe has
been written, and then nothing is promised.

In its second part:

- `PromiseHolds`: `Spec => ImplementsPromise`, with the same `Placed`, as the two queues make
  the same promise.
- `TokensSufficeHolds`: `Spec => []TokensSuffice`. The invariant `Covered` adds to
  `TokensCoverTasks` that a worker has tokens only between reading them and writing them back
  (`TokensHeld`). The tokens in the workers' hands are counted as a set of pairs of a worker
  and a number up to its share, whose size changes as one worker's share does (`ReadChanges`).

**PoolNodes_proof, Pool_proof**, from `AllocatorAssumption` and
`PoolAssumption` (nodes, pools and threads are finitely many, there is a thread, a node of two
pages has room for a pool, and `NULL` is none of them). Sizes, maxima and cleanups are any.

- `TypeCorrect`: `Spec => []TypeOK`. That `palloc` takes nothing beyond a node's end is part
  of it.
- `NodesConservedHolds`: `Spec => []NodesConserved`.
- `SummariesExactHolds`: `Spec => []SummariesExact`.
- `TreeSoundHolds`: `Spec => []TreeSound`.
- `CleanupsSoundHolds`: `Spec => []CleanupsSound`.
- `CleanupOrderHolds`: `Spec => CleanupOrder`, a property of steps.

All six follow from one invariant, `PoolInvariant` (`PoolAlways`), since none of its parts can
do without the others: what is freed must be nobody's (nodes), which holds because a pool that
frees its memory has no children left (tree), which holds because of the step its call has
reached (calls), by which its lists are empty (lists).

- `NodesSound`: `AllocatorSound` is the allocator's own part, that buckets hold nodes of
  their size, each once (`BucketsSound`), and that `last` and `current` are exact (`LastIs`,
  `RoomIs`). `RingsApart`, `HandsApart` and `NoneLost` put each node in one place, `RoomSound`
  and `OrderSound` are about what has been taken of it, and `SelfSound` says that an existing
  pool lies in a node of its ring.
- `CallsSound`: on a thread's stack (`Stacked`) the calls work on different pools, no inner one
  on a pool above that of an outer one, and only the innermost may have unlinked its pool. A call
  that is past its pre-cleanups finds that list empty; past the children, no children
  (`FrameOK`). Who makes a child is a user of the pool whose end has not got that far
  (`Maker`), so that the child does not arrive after the last look at the list.
- `TreeSoundly`: children name their parents and the other way round, unless the child is
  just unlinked; a pool other than the global one belongs to one thread, as does its parent unless
  that is the global one; and each is below the global pool, none below itself. That there is no
  cycle is what a list of children and a parent pointer do not show by themselves, and what
  ends the walk of `~Pool`.
- `ListsSound`: each registered cleanup is in one list of one pool; the structures of a pool,
  spare ones included, are apart and in what its nodes have handed out (`Within`).

The first half of `PoolNodes_proof` is about `alloc` and `free`: pages of a set of nodes are
counted as a set of pairs of a node and a page (`Sheets`), which grows and shrinks by a node's
pages (`PagesMore`, `PagesLess`). `AllocSound` and `FreeSound` are the two calls; the latter is
about a list of any length, of which `AllPutSound` shows that after any number of nodes
`PutSound` holds. The second half has lemmas on lists without repetition (`ListsInsert`,
`ListsRemove`, `ListsTurned`), the demotion of a ring's active node (`DemotedIs`,
`ActivatedSorted`), the three ways of `palloc` (`PallocActive`, `PallocNext`, `PallocNew`) and what
`clear` and `~Pool` give back (`ShrinkSound`). In `Pool_proof` `Above` is defined by the sets
that are closed upwards, so that what is above a pool is the least of them (`AboveLeast`); then each
operation has a lemma for the calls and the tree (`CallsRun`, `CallsUnlink`, ...), one for the lists
(`ListsRegister`, `ListsKill`, ...) and one that puts them together (`RunKeeps`, ...), and
`PoolStep` goes through the actions.

**RefCount_proof**, from `RefAssumption` (threads, objects and variables are finitely many; only
the variables that belong to objects have objects' names; `NULL` is no object). Each theorem
has it as a hypothesis, as `RefCount` is instantiated and not extended by the module that TLC
runs: `MCLibrary` has `LibraryAssumption` for its two instances.

- `TypeCorrect`: `RefAssumption /\ Spec => []TypeOK`.
- `CountExactHolds`: the same of `CountExact`.
- `NoDanglingHolds`: of `NoDangling`.
- `TrackerExactHolds`: of `TrackerExact`.

The three last are the parts of `RefsSound` that `library` checks. The difficulty is `todo`: a
release that takes the last reference puts the destructor's steps in front of what is left, and
these may take another last reference, so the stack of a thread is as deep as there are objects that
own one another. `Stack` says what any such stack looks like, whatever its depth: it ends with the
operation's own write; a retain comes first and its number next; each decrement is followed by a
write, behind nothing but a retain and the tracker; each write before the last is a member's in an
object that is freed next; no object is freed twice (`Place`). `Fits` is what may go in front of
a stack (`StackCons`), and `StackPop` what is left after a step.

`IInv` is then

- `CountsSound`: the count of an object is the size of three sets: variables that hold
  it and are not about to be written to (`Holding`), threads that are about to give a reference up
  (`Dropping`) and threads that have retained it for a variable (`Giving`). Each step
  moves one reference between them, or one in or out with the count;
- `UsesSound`: a thread's operation is on variables that nobody else uses, and each
  that is a member is kept, by a local that the operation does not write to (`Keeper`);
- `RetainOf`: what is about to be retained still has a reference, in the source or in what
  is to be released after it, so that no count goes from zero to one;
- `FreesSound`: the objects without references are those that one stack frees;
- `NumbersSound`: each number of the tracker is kept in one place (`Keeps`): a variable, a
  release to come, or the local id of a copy. Swaps break it, and with them `TrackerExact`.

There is a lemma for each kind of step (`IncrementKeeps`, `TrackKeeps`, `ReleaseKeeps`,
`DeleteKeeps`, `MemberStoredKeeps`, `ResultStoredKeeps`, `TakenKeeps`, `FreedKeeps`) and for each
operation that begins (`CreateKeeps`, `ResetKeeps`, `MoveKeeps`, `CopyKeeps`, `SwapKeeps`).
`DeleteKeeps` is where it matters that nobody is left: a decrement from one finds the object
held by no variable, its member written by no thread (`LastIs`). From `IInv` to
`CountExact` the pending steps are counted (`PendingIs`: each thread has at the most one decrement
and one increment of an object) and what a variable will hold is sorted by who writes to
it (`AfterCount`).

*Only model-checked.* The rest of `library`, whose components have recursive operators or compute
on data, and the liveness properties: TLAPS has no rule here for fairness and ENABLED, nor
for recursive operators. Induction over data is out of reach as the library's theorems state
it; where a loop had to be reasoned about (`clear` of a queue in `AllFreedSound`, `free` of a list of
nodes in `PutsExist` and `AllPutSound`) the proof looks at the least number of
steps for which the claim fails (`LeastFailure`). `Placed`, `Covered` and `PoolInvariant` were
checked by TLC on the instances of `tq_safety`, `etq` and `pool` before they were proved, and the
invariant of `RefCount_proof` on two threads, two objects and two or three locals.

## Not modelled

- **In PriorityQueue**: `foreach`, which changes nothing; exceptions of a value's constructor;
  `clear` while others use the queue.
- **In TaskQueue**: `performAsync`; `perform(function)`, which wraps the function in a task;
  `lock` and `unlock`; `waitExternal`'s count of what was completed; calls on the
  queue's functions while the owner cancels; the index check of `perform(map)`.
- **In EventTaskQueue**: signals and the signal descriptor, failures of system calls, the
  overflow of an eventfd (2^64 - 1 tokens).
- **In the pools**: user data, pools with an allocator of their own (whose mutex and buckets
  are nobody else's), the allocator over a mapped file, `set_max` on an allocator that keeps
  nodes, a second `initialize` after `terminate`, a malloc that fails, the stack of current
  pools.
- **In the containers**: swap and the removal of ranges and of equal nodes of trees; arguments
  that overlap a storage; weak storages that are shortened; hints at the key itself.
- **In RefCount**: a variable that two threads use at once; moving from a member of an object
  that the target keeps alive; the tracker after a swap. A behaviour has one swap at most.
- **In TessMesh**: `mergeVertexes` (`SPTess.cc:854`), which the sweep calls for two vertexes in
  one place and which relinks their edges in the order of their angles.
- **In NetworkHandles**: several threads; a transfer inside another on the kept easy handle;
  one Handle added twice at once; what is told to CURL, and what `finalize` reads of it.
- **In the formats**: JSON that the encoders did not write, infinity; fractions of a second,
  offsets of the seasons, offsets with a colon or a zero in front; buffers of less than three bytes; producers that give less than
  they are asked for; paths that lead nowhere.
- **The rest of the library**: see `components` in `PROJECT.json`, with the reason for each.
  bitmap, crypto, idn, zip configure foreign libraries; geom and the sweep of tess are
  floating-point arithmetic; HTML and logging are formatting. Of the repository's lines
  most are copies of other projects (simde, snowball, lz4 and others) and tables.

## Plan

Done: the queues, the pools, the containers, tess without its geometry, the transfers, and
the formats of data, time and paths; theorems for all safety properties of the priority queue,
of the two task queues, of the pools and of the reference counts.

Left, in the order of what matters most to programs that use the library:

1. *Theorems about* `Dict` (`SortedMap`) and `PoolBlocks`.
2. *Modules*: the stack of current pools; the dictionary of edges in tess; Serenity and
   urlencoded; URLs; `performAsync`.
