------------------------------- MODULE MCLibrary -------------------------------
(***************************************************************************)
(* The components of the common library and of the modules that do not run *)
(* the others, checked in one run: each behaviour is one of the component  *)
(* that part names, on the instance given here.  The variables v1 to v8    *)
(* are that component's own, in the order in which it declares them; the   *)
(* others hold nothing.                                                    *)
(***************************************************************************)
EXTENDS Integers, Sequences, SequencesExt

CONSTANTS NULL, t1, t2, one, two, c1, c2, o1, o2

VARIABLES part, v1, v2, v3, v4, v5, v6, v7, v8

vars == <<part, v1, v2, v3, v4, v5, v6, v7, v8>>

--------------------------------------------------------------------------------
(* The instances *)

\* One tree with keys enough for the removal to rebalance at two levels.
Wide == INSTANCE Rbtree WITH
    Trees <- {t1}, Keys <- 1 .. 10, Entries <- (1 .. 10) \X {one}, HintedSize <- 4, Copies <- {1},
    heap <- v1, size <- v2, map <- v3

\* Two trees, copied and moved to one another, with two values for one key.
Pair == INSTANCE Rbtree WITH
    Trees <- {t1, t2}, Keys <- 1 .. 3, Entries <- {<<1, one>>, <<2, one>>, <<2, two>>, <<3, one>>},
    HintedSize <- 3, Copies <- {1, 2}, heap <- v1, size <- v2, map <- v3

Nodes == INSTANCE TreeNodes WITH
    Trees <- {t1}, Space <- 4, MaxIndex <- 2,
    used <- v1, tmp <- v2, header <- v3, size <- v4, node <- v5, allocated <- v6

\* A table that grows twice, two keys of which meet in one bucket until then.
HashOf(k) == <<0, 4, 2, 3>>[k]

Grows == INSTANCE PoolHash WITH
    Tables <- {t1}, Keys <- 1 .. 4, Values <- {one}, Hash <- HashOf, InitialMax <- 1, Walked <- {t1},
    table <- v1, walk <- v2, map <- v3

\* Tables that are copied and merged.
Merges == INSTANCE PoolHash WITH
    Tables <- {t1, t2}, Keys <- 1 .. 2, Values <- {one, two}, Hash <- HashOf, InitialMax <- 1, Walked <- {t1},
    table <- v1, walk <- v2, map <- v3

\* Four vertexes to sort, two of them in one place, and a partition of every range.
SortPlace(x) == <<1, 3, 3, 2, 4, 4>>[x]

Sort == INSTANCE TessQueue WITH
    Initial <- 1 .. 4, Later <- 2, Place <- SortPlace, Slots <- {1, 2, 4}, Cutoff <- 0,
    phase <- v1, found <- v2, keys <- v3, order <- v4, size <- v5, stack <- v6, heap <- v7,
    handleOf <- v8

\* The same as the code sorts them: no more than eleven are not partitioned.
Short == INSTANCE TessQueue WITH
    Initial <- 1 .. 4, Later <- 0, Place <- SortPlace, Slots <- {4}, Cutoff <- 10,
    phase <- v1, found <- v2, keys <- v3, order <- v4, size <- v5, stack <- v6, heap <- v7,
    handleOf <- v8

\* A heap of six, in which the last node may be less than the parent of another.
HeapPlace(x) == <<3, 1, 5, 2, 6, 7, 3>>[x]

Heap == INSTANCE TessQueue WITH
    Initial <- {1}, Later <- 6, Place <- HeapPlace, Slots <- {1}, Cutoff <- 0,
    phase <- v1, found <- v2, keys <- v3, order <- v4, size <- v5, stack <- v6, heap <- v7,
    handleOf <- v8

\* Contours of two cursors, and the sweep over the contour of one: up to three corners with
\* edges to spare, and four corners, where edges cross in a corner or between.
Contours == INSTANCE TessMesh WITH
    Cursors <- {c1, c2}, Points <- {0, 4}, Crossings <- {}, Tolerance <- 1, Edges <- 6,
    MaxPushes <- 4, Reserved <- 6,
    mesh <- v1, cursor <- v2, sweeping <- v3, pushed <- v4

Sweep == INSTANCE TessMesh WITH
    Cursors <- {c1}, Points <- {0, 2, 4}, Crossings <- {0}, Tolerance <- 1, Edges <- 6,
    MaxPushes <- 3, Reserved <- 0,
    mesh <- v1, cursor <- v2, sweeping <- v3, pushed <- v4

Crossing == INSTANCE TessMesh WITH
    Cursors <- {c1}, Points <- {0, 4}, Crossings <- {0, 2}, Tolerance <- 1, Edges <- 6,
    MaxPushes <- 4, Reserved <- 0,
    mesh <- v1, cursor <- v2, sweeping <- v3, pushed <- v4

Blocks == INSTANCE PoolBlocks WITH
    Threshold <- 2, RecordSize <- 1, Sizes <- {1, 2, 3, 5}, Space <- 9,
    next <- v1, allocated <- v2, buffered <- v3, records <- v4, live <- v5, late <- v6

\* Values of every type, in trees of four.
Bytes8(low) == [i \in 1 .. 8 |-> IF i <= 8 - Len(low) THEN 0 ELSE low[i - 8 + Len(low)]]
Text(n) == [type |-> "CHARSTRING", bytes |-> [i \in 1 .. n |-> 97]]
Float(sign, exp, mant) == [type |-> "DOUBLE", single |-> <<sign, exp, mant>>]

TreeLeaves == {
    [type |-> "EMPTY"], [type |-> "BOOLEAN", holds |-> TRUE], [type |-> "INTEGER", bytes |-> Bytes8(<<24>>)],
    Float(0, 127, 2^22), Text(0), Text(2), [type |-> "BYTESTRING", bytes |-> <<>>],
    [type |-> "ARRAY", items |-> <<>>], [type |-> "DICTIONARY", pairs |-> [k \in {} |-> 0]]}

Documents == INSTANCE Cbor WITH
    Leaves <- TreeLeaves, Keys <- {<<>>, <<97>>}, MaxNodes <- 4, value <- v1

\* Numbers and lengths on both sides of each limit of their encoding.
Edges == {<<0>>, <<1>>, <<23>>, <<24>>, <<255>>, <<1, 0>>, <<255, 255>>, <<1, 0, 0>>,
          <<255, 255, 255, 255>>, <<1, 0, 0, 0, 0>>, <<127, 255, 255, 255, 255, 255, 255, 255>>}

Minus(bytes) == [i \in 1 .. 8 |-> 255 - bytes[i]]

NumberLeaves ==
    {[type |-> "INTEGER", bytes |-> Bytes8(b)] : b \in Edges}
    \cup {[type |-> "INTEGER", bytes |-> Minus(Bytes8(b))] : b \in Edges}
    \cup {Float(sign, exp, mant) : sign \in 0 .. 1, exp \in {0, 102, 103, 104, 112, 113, 142, 143, 254},
                                  mant \in {0, 1, 2^12, 2^13, 2^14, 2^22, 2^23 - 2^13, 2^23 - 2^14, 2^23 - 1}}
    \cup {Float(0, 255, 0), Float(1, 255, 0), Float(0, 255, 2^22)}
    \cup {[type |-> "DOUBLE", bytes |-> <<63, 185, 153, 153, 153, 153, 153, 154>>]}
    \cup {Text(n) : n \in {1, 23, 24, 255, 256}}

Numbers == INSTANCE Cbor WITH
    Leaves <- NumberLeaves, Keys <- {<<97>>}, MaxNodes <- 2, value <- v1

\* Leaves of every kind that JSON writes and reads differently, and trees of three levels.
JsonText(chars) == [type |-> "CHARSTRING", chars |-> chars]
JsonNumber(type, digits) == [type |-> type, text |-> digits]
JsonArrays(items, n) == {[type |-> "ARRAY", items |-> s] : s \in UNION {[1 .. m -> items] : m \in 0 .. n}}
JsonDicts(items, keys) == {[type |-> "DICTIONARY", pairs |-> f] : f \in UNION {[ks -> items] : ks \in SUBSET keys}}

JsonLeaves == {
    [type |-> "EMPTY"], [type |-> "BOOLEAN", holds |-> TRUE], [type |-> "BOOLEAN", holds |-> FALSE],
    JsonNumber("INTEGER", <<"0">>), JsonNumber("INTEGER", <<"-", "1", "2">>),
    JsonNumber("DOUBLE", <<"3">>), JsonNumber("DOUBLE", <<"-", "1", ".", "5">>),
    JsonNumber("DOUBLE", <<"2", ".", "5", "e", "-", "0", "7">>),
    JsonNumber("DOUBLE", <<"1", "e", "+", "2", "0">>), JsonNumber("DOUBLE", <<"n", "a", "n">>),
    JsonText(<<>>), JsonText(<<"\"", "\\", "]", "}">>),
    JsonText(<<"\n", "\t", "\r", "BS", "FF", "00", "1f", "a", "\"">>),
    [type |-> "BYTESTRING", base64 |-> <<"a", "_">>]}

JsonShapes ==
    {JsonNumber("INTEGER", <<"0">>), JsonText(<<"]", "\\">>)} \cup JsonArrays({}, 0) \cup JsonDicts({}, {})

JsonInner == JsonShapes \cup JsonArrays(JsonShapes, 1) \cup JsonDicts(JsonShapes, {<<"}">>})

JsonValues ==
    JsonLeaves \cup JsonArrays(JsonInner, 2)
    \cup {[type |-> "ARRAY", items |-> <<x, y>>] : x \in JsonLeaves, y \in {[type |-> "EMPTY"], JsonText(<<>>)}}
    \cup JsonDicts(JsonInner, {<<>>, <<":", "\"">>})

JsonTexts == INSTANCE Json WITH
    Values <- JsonValues,
    value <- v1, pretty <- v2, ret <- v3, r <- v4, stack <- v5, reading <- v6

\* Buffers of three bytes, texts that fill them, grow them and need more than twice the room,
\* and sources of no block, one, more, and a block and a bit.
FileBuffers == INSTANCE Buffers WITH
    Texts <- {<<1>>, <<2, 1>>, <<1, 2, 1, 2, 2, 1, 2>>},
    Sources <- {[i \in 1 .. n |-> 1 + (i % 2)] : n \in {0, 3, 4, 7}}, Sizes <- {3}, Junk <- {0, 3},
    MaxSize <- 6,
    kind <- v1, buf <- v2, text <- v3, io <- v4

\* Bytes of which one needs escaping in each way, and characters on both sides of each length.
Encoded == INSTANCE Encodings WITH
    Bytes <- {0, 37, 65, 128, 255}, MaxBytes <- 4,
    Chars <- {1, 127, 128, 2047, 2048, 55357, 65535, 128512}, MaxChars <- 3,
    bytes <- v1, text <- v2

\* Two strings, and vectors of objects: one that grows further, and two that are moved.
Strings == INSTANCE MemStorage WITH
    Storages <- {t1, t2}, Values <- {1, 2}, Soo <- TRUE, Small <- 2, Extra <- 1, MaxSize <- 3,
    MaxArgument <- 2, Slack <- 0, st <- v1, text <- v2

Vector == INSTANCE MemStorage WITH
    Storages <- {t1}, Values <- {1, 2}, Soo <- FALSE, Small <- 0, Extra <- 0, MaxSize <- 3,
    MaxArgument <- 2, Slack <- 1, st <- v1, text <- v2

Vectors == INSTANCE MemStorage WITH
    Storages <- {t1, t2}, Values <- {1}, Soo <- FALSE, Small <- 0, Extra <- 0, MaxSize <- 2,
    MaxArgument <- 2, Slack <- 0, st <- v1, text <- v2

\* Two objects, one of which may hold the other or itself, and two variables of two threads.
Refs == INSTANCE RefCount WITH
    Threads <- {t1, t2}, Objects <- {o1, o2}, Locals <- {one, two}, Owners <- {o1},
    Tracked <- {}, MaxId <- 0,
    live <- v1, count <- v2, tracked <- v3, rc <- v4, todo <- v5, id <- v6, uses <- v7,
    swapped <- v8

\* One tracked object.
Leaks == INSTANCE RefCount WITH
    Threads <- {t1, t2}, Objects <- {o1}, Locals <- {one, two}, Owners <- {},
    Tracked <- {o1}, MaxId <- 3,
    live <- v1, count <- v2, tracked <- v3, rc <- v4, todo <- v5, id <- v6, uses <- v7,
    swapped <- v8

\* What the theorems about RefCount are proved from.
ASSUME LibraryAssumption == Refs!RefAssumption /\ Leaks!RefAssumption

\* Three transfers of two handles side by side, of which one may come after another, and one
\* alone.
Transfers == INSTANCE NetworkHandles WITH
    Handles <- {o1, o2}, Easy <- 1 .. 5, Keepers <- {t1, t2}, Thread <- t1, MaxAdds <- 3,
    MaxSingle <- 1,
    pending <- v1, curl <- v2, opened <- v3, handles <- v4, cached <- v5, at <- v6, seen <- v7

\* Every day of 1972, a leap year, of 2000, which is one, and of 2100, which is none, and the
\* first of the year after; local times on the hour and half an hour behind one, and offsets
\* of ten hours or more on both sides of GMT, one of three quarters.
Dates == INSTANCE Calendar WITH
    Starts <- {[day |-> 730, year |-> 72], [day |-> 10957, year |-> 100], [day |-> 47482, year |-> 200]},
    Span <- 366, Clock <- {<<0, 0, 0>>, <<23, 59, 59>>}, Locals <- {180, -570},
    Zones <- {840, 765, -600, -690},
    day <- v1, date <- v2, left <- v3

\* Every path of seven characters.
FilePaths == INSTANCE Paths WITH
    Chars <- {"/", ".", "a"}, MaxLength <- 7, Others <- {<<"/">>, <<"a">>, <<"a", "/">>, <<"/", "a">>},
    path <- v1

Dicts == INSTANCE Dict WITH
    Dicts <- {t1, t2}, Keys <- 1 .. 3, Values <- {one, two}, data <- v1, map <- v2

--------------------------------------------------------------------------------
Init ==
    \/ part = "wide"     /\ Wide!Init     /\ v4 = NULL /\ v5 = NULL /\ v6 = NULL /\ v7 = NULL /\ v8 = NULL
    \/ part = "pair"     /\ Pair!Init     /\ v4 = NULL /\ v5 = NULL /\ v6 = NULL /\ v7 = NULL /\ v8 = NULL
    \/ part = "nodes"    /\ Nodes!Init    /\ v7 = NULL /\ v8 = NULL
    \/ part = "grows"    /\ Grows!Init    /\ v4 = NULL /\ v5 = NULL /\ v6 = NULL /\ v7 = NULL /\ v8 = NULL
    \/ part = "merges"   /\ Merges!Init   /\ v4 = NULL /\ v5 = NULL /\ v6 = NULL /\ v7 = NULL /\ v8 = NULL
    \/ part = "sort"     /\ Sort!Init
    \/ part = "short"    /\ Short!Init
    \/ part = "heap"     /\ Heap!Init
    \/ part = "contours" /\ Contours!Init /\ v5 = NULL /\ v6 = NULL /\ v7 = NULL /\ v8 = NULL
    \/ part = "sweep"    /\ Sweep!Init    /\ v5 = NULL /\ v6 = NULL /\ v7 = NULL /\ v8 = NULL
    \/ part = "crossing" /\ Crossing!Init /\ v5 = NULL /\ v6 = NULL /\ v7 = NULL /\ v8 = NULL
    \/ part = "blocks"   /\ Blocks!Init   /\ v7 = NULL /\ v8 = NULL
    \/ part = "values"   /\ Documents!Init   /\ v2 = NULL /\ v3 = NULL /\ v4 = NULL /\ v5 = NULL /\ v6 = NULL /\ v7 = NULL /\ v8 = NULL
    \/ part = "numbers"  /\ Numbers!Init  /\ v2 = NULL /\ v3 = NULL /\ v4 = NULL /\ v5 = NULL /\ v6 = NULL /\ v7 = NULL /\ v8 = NULL
    \/ part = "encoded"  /\ Encoded!Init  /\ v3 = NULL /\ v4 = NULL /\ v5 = NULL /\ v6 = NULL /\ v7 = NULL /\ v8 = NULL
    \/ part = "strings"  /\ Strings!Init  /\ v3 = NULL /\ v4 = NULL /\ v5 = NULL /\ v6 = NULL /\ v7 = NULL /\ v8 = NULL
    \/ part = "vector"   /\ Vector!Init   /\ v3 = NULL /\ v4 = NULL /\ v5 = NULL /\ v6 = NULL /\ v7 = NULL /\ v8 = NULL
    \/ part = "vectors"  /\ Vectors!Init  /\ v3 = NULL /\ v4 = NULL /\ v5 = NULL /\ v6 = NULL /\ v7 = NULL /\ v8 = NULL
    \/ part = "refs"     /\ Refs!Init
    \/ part = "leaks"    /\ Leaks!Init
    \/ part = "transfers" /\ Transfers!Init /\ v8 = NULL
    \/ part = "json"     /\ JsonTexts!Init /\ v7 = NULL /\ v8 = NULL
    \/ part = "buffers"  /\ FileBuffers!Init /\ v5 = NULL /\ v6 = NULL /\ v7 = NULL /\ v8 = NULL
    \/ part = "dates"    /\ Dates!Init /\ v4 = NULL /\ v5 = NULL /\ v6 = NULL /\ v7 = NULL /\ v8 = NULL
    \/ part = "paths"    /\ FilePaths!Init /\ v2 = NULL /\ v3 = NULL /\ v4 = NULL /\ v5 = NULL /\ v6 = NULL /\ v7 = NULL /\ v8 = NULL
    \/ part = "dict"     /\ Dicts!Init /\ v3 = NULL /\ v4 = NULL /\ v5 = NULL /\ v6 = NULL /\ v7 = NULL /\ v8 = NULL

Next ==
    /\ UNCHANGED part
    /\ \/ part = "wide"     /\ Wide!Next     /\ UNCHANGED <<v4, v5, v6, v7, v8>>
       \/ part = "pair"     /\ Pair!Next     /\ UNCHANGED <<v4, v5, v6, v7, v8>>
       \/ part = "nodes"    /\ Nodes!Next    /\ UNCHANGED <<v7, v8>>
       \/ part = "grows"    /\ Grows!Next    /\ UNCHANGED <<v4, v5, v6, v7, v8>>
       \/ part = "merges"   /\ Merges!Next   /\ UNCHANGED <<v4, v5, v6, v7, v8>>
       \/ part = "sort"     /\ Sort!Next
       \/ part = "short"    /\ Short!Next
       \/ part = "heap"     /\ Heap!Next
       \/ part = "contours" /\ Contours!Next /\ UNCHANGED <<v5, v6, v7, v8>>
       \/ part = "sweep"    /\ Sweep!Next    /\ UNCHANGED <<v5, v6, v7, v8>>
       \/ part = "crossing" /\ Crossing!Next /\ UNCHANGED <<v5, v6, v7, v8>>
       \/ part = "blocks"   /\ Blocks!Next   /\ UNCHANGED <<v7, v8>>
       \/ part = "values"   /\ Documents!Next   /\ UNCHANGED <<v2, v3, v4, v5, v6, v7, v8>>
       \/ part = "numbers"  /\ Numbers!Next  /\ UNCHANGED <<v2, v3, v4, v5, v6, v7, v8>>
       \/ part = "encoded"  /\ Encoded!Next  /\ UNCHANGED <<v3, v4, v5, v6, v7, v8>>
       \/ part = "strings"  /\ Strings!Next  /\ UNCHANGED <<v3, v4, v5, v6, v7, v8>>
       \/ part = "vector"   /\ Vector!Next   /\ UNCHANGED <<v3, v4, v5, v6, v7, v8>>
       \/ part = "vectors"  /\ Vectors!Next  /\ UNCHANGED <<v3, v4, v5, v6, v7, v8>>
       \/ part = "refs"     /\ Refs!Next
       \/ part = "leaks"    /\ Leaks!Next
       \/ part = "transfers" /\ Transfers!Next /\ UNCHANGED v8
       \/ part = "json"     /\ JsonTexts!Next /\ UNCHANGED <<v7, v8>>
       \/ part = "buffers"  /\ FileBuffers!Next /\ UNCHANGED <<v5, v6, v7, v8>>
       \/ part = "dates"    /\ Dates!Next /\ UNCHANGED <<v4, v5, v6, v7, v8>>
       \/ part = "paths"    /\ FilePaths!Next /\ UNCHANGED <<v2, v3, v4, v5, v6, v7, v8>>
       \/ part = "dict"     /\ Dicts!Next /\ UNCHANGED <<v3, v4, v5, v6, v7, v8>>

Spec == Init /\ [][Next]_vars

--------------------------------------------------------------------------------
(* Properties: those of each component, on its instances *)

TypeOK ==
    /\ part = "wide" => Wide!TypeOK
    /\ part = "pair" => Pair!TypeOK
    /\ part = "nodes" => Nodes!TypeOK
    /\ part = "grows" => Grows!TypeOK
    /\ part = "merges" => Merges!TypeOK
    /\ part = "sort" => Sort!TypeOK
    /\ part = "short" => Short!TypeOK
    /\ part = "heap" => Heap!TypeOK
    /\ part = "contours" => Contours!TypeOK
    /\ part = "sweep" => Sweep!TypeOK
    /\ part = "crossing" => Crossing!TypeOK
    /\ part = "blocks" => Blocks!TypeOK
    /\ part = "values" => Documents!TypeOK
    /\ part = "numbers" => Numbers!TypeOK
    /\ part = "encoded" => Encoded!TypeOK
    /\ part = "strings" => Strings!TypeOK
    /\ part = "vector" => Vector!TypeOK
    /\ part = "vectors" => Vectors!TypeOK
    /\ part = "refs" => Refs!TypeOK
    /\ part = "leaks" => Leaks!TypeOK
    /\ part = "transfers" => Transfers!TypeOK
    /\ part = "json" => JsonTexts!TypeOK
    /\ part = "buffers" => FileBuffers!TypeOK
    /\ part = "dates" => Dates!TypeOK
    /\ part = "paths" => FilePaths!TypeOK
    /\ part = "dict" => Dicts!TypeOK

\* Insertion and removal keep a red-black tree whose links agree; iteration, forwards and
\* backwards, meets the entries that the calls have left; and a hint leads to the position of
\* the search from the root.  The allocator's memory is what the tree uses or keeps, each node
\* once, and the header's count of spare nodes is that of the chain.  A dict is sorted and
\* finds what it holds, whatever hints were given.
TreeSound ==
    /\ part = "wide" => Wide!IteratesMap /\ Wide!Balanced /\ Wide!LinksAgree /\ Wide!HintsAgree
    /\ part = "pair" => Pair!IteratesMap /\ Pair!Balanced /\ Pair!LinksAgree /\ Pair!HintsAgree
    /\ part = "nodes" => Nodes!NodesBacked /\ Nodes!CapacityExact
    /\ part = "dict" => Dicts!SortedMap

\* Blocks of nodes go back as they came, and only from an empty tree.
ReleasedAsAcquired == [][part = "nodes" => Nodes!ReleasesWhole]_vars

\* A hash table finds what was left in it, through growing, copies and merges; an entry is
\* in a chain or on the free list, there are no more entries than buckets, and an iteration
\* that removes entries meets each entry of its start once.
TableSound ==
    /\ part = "grows" => /\ Grows!LookupIsMap /\ Grows!EntriesOnce
                         /\ Grows!LoadBounded /\ Grows!IterationComplete
    /\ part = "merges" => /\ Merges!LookupIsMap /\ Merges!EntriesOnce
                          /\ Merges!LoadBounded /\ Merges!IterationComplete

\* The sweep gets the least vertex of both halves of its queue; handles lead to their vertexes
\* through growth and exchanges, the free list is the rest of those given out, floatDown reads
\* no node beyond its array, and the sort's stack of ranges stays as small as init takes it to
\* be.  The rings of half-edges around vertexes and faces agree and are closed, half-edges
\* around one vertex have the same origin, each contour's face is what its cursor has pushed,
\* and vertexes and edges are in use or on their free list, once.
TessSound ==
    /\ part = "sort" => /\ Sort!MinimumIsLeast /\ Sort!HandlesFind /\ Sort!FreeHandlesExact
                        /\ Sort!ChildWithinMax /\ Sort!StackLogarithmic
    /\ part = "short" => Short!MinimumIsLeast /\ Short!HandlesFind /\ Short!FreeHandlesExact
    /\ part = "heap" => /\ Heap!MinimumIsLeast /\ Heap!HandlesFind /\ Heap!FreeHandlesExact
                        /\ Heap!ChildWithinMax /\ Heap!StackLogarithmic
    /\ part = "contours" => /\ Contours!RingsAgree /\ Contours!OriginsAgree
                            /\ Contours!ContourKept /\ Contours!MeshMemory
    /\ part = "sweep" => /\ Sweep!RingsAgree /\ Sweep!OriginsAgree
                         /\ Sweep!ContourKept /\ Sweep!MeshMemory
    /\ part = "crossing" => /\ Crossing!RingsAgree /\ Crossing!OriginsAgree
                            /\ Crossing!ContourKept /\ Crossing!MeshMemory

\* A pool's blocks, freed blocks and records do not overlap, and of the freed blocks that
\* would do the smallest is used again.
BlocksSound == part = "blocks" => Blocks!BlocksDisjoint /\ Blocks!BestFit

\* CBOR gives back the values that were written, in whatever form its standard allows, and a
\* double takes two bytes if two bytes can hold it.
ValuesKept ==
    /\ part = "values" => Documents!RoundTrip /\ Documents!AnyForm
    /\ part = "numbers" => Numbers!RoundTrip /\ Numbers!AnyForm /\ Numbers!OptimalSize

\* Encoded bytes and text are read back, and the sizes computed beforehand are right.
EncodingsInvert == part = "encoded" => Encoded!Base64Inverts /\ Encoded!Base16Inverts /\ Encoded!Utf8Inverts

\* Strings and vectors hold what their calls have left in them, and strings end with a zero;
\* objects are constructed and destroyed once, within the block, which one storage has.
StorageSound ==
    /\ part = "strings" => /\ Strings!ContentKept /\ Strings!Terminated
                           /\ Strings!ObjectsOnce /\ Strings!BlocksOnce
    /\ part = "vector" => Vector!ContentKept /\ Vector!ObjectsOnce
    /\ part = "vectors" => Vectors!ContentKept /\ Vectors!ObjectsOnce /\ Vectors!BlocksOnce

\* The count of references is that of the variables that hold the object, through every
\* interleaving; nobody touches a deleted object; and the leak tracker records what exists.
RefsSound ==
    /\ part = "refs" => Refs!CountExact /\ Refs!NoDangling
    /\ part = "leaks" => Leaks!CountExact /\ Leaks!NoDangling /\ Leaks!TrackerExact

\* JSON in either layout is read back as what was written, as far as JSON can say it, and the
\* decoder's pointers lead to the containers that are open.
JsonSound == part = "json" => JsonTexts!RoundTrip /\ JsonTexts!StackIsPath /\ JsonTexts!LayoutBalanced

\* A buffer keeps at each position what was put there last, gives nothing that its memory held
\* before, and passes on all that a producer has.
BuffersSound == part = "buffers" => FileBuffers!BytesKept /\ FileBuffers!Delivered

\* A date is read as the moment that was written, in the forms that fromHttp reads and with
\* offsets without a colon or a zero in front, and the dates it accepts are those of the
\* calendar.
DatesSound == part = "dates" => Dates!ReadsBack /\ Dates!DatesExist

\* A reconstructed path leads where the path did and is one that validatePath passes;
\* isAboveRoot is right about paths that leave their directory; merging joins the components;
\* and a path's parts put together are the path.
PathsSound ==
    part = "paths" => /\ FilePaths!Reconstructed /\ FilePaths!AboveRootExact
                      /\ FilePaths!MergedOnce /\ FilePaths!PartsWhole

\* Every handle that is added to a MultiHandle is performed, finalized and reported once, and
\* perform ends when none is left; CURL's easy handles, open files and lists have one owner
\* each and go with it.
TransfersSound == part = "transfers" => Transfers!EasyOwned /\ Transfers!ReportedOnce /\ Transfers!FilesClosed
================================================================================
