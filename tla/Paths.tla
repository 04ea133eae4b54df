--------------------------------- MODULE Paths ----------------------------------
(***************************************************************************)
(* filepath: paths as text.  Every function reads a path with a view that  *)
(* moves from slash to slash, or looks for the last slash or the first     *)
(* dot; the properties say what the path means, as the steps of a walk     *)
(* from directory to directory.                                            *)
(***************************************************************************)
EXTENDS Integers, Sequences, SequencesExt

CONSTANTS
    Chars,         \* what paths are made of, "/" and "." among them
    MaxLength,     \* bound: the length of a path
    Others         \* the paths that it is merged with

VARIABLE path

vars == <<path>>

Init == path = <<>>

AppendChar == Len(path) < MaxLength /\ \E c \in Chars : path' = Append(path, c)

Next == AppendChar

Spec == Init /\ [][Next]_vars

--------------------------------------------------------------------------------
Slash == <<"/">>
Here == <<".">>
Up == <<".", ".">>

StartsWith(p, c) == p # <<>> /\ Head(p) = c
EndsWith(p, c) == p # <<>> /\ Last(p) = c
Places(p, c) == {i \in DOMAIN p : p[i] = c}
Highest(S) == CHOOSE i \in S : \A j \in S : j <= i
Lowest(S) == CHOOSE i \in S : \A j \in S : i <= j

ReadUntil(p, c) == IF Places(p, c) = {} THEN p ELSE SubSeq(p, 1, Lowest(Places(p, c)) - 1)
Drop(p, n) == SubSeq(p, n + 1, Len(p))

RECURSIVE Components(_)

\* What the loops of isAboveRoot, validatePath and reconstructPath read: a slash at the end is
\* not followed by a component.
Components(p) ==
    IF p = <<>> THEN <<>>
    ELSE LET str == ReadUntil(p, "/") IN <<str>> \o Components(Drop(p, Len(str) + 1))

IsAbsolute(p) == p = <<>> \/ Head(p) = "/"

IsPlain(str) == str \notin {<<>>, Here, Up}

RECURSIVE AboveRoot(_, _)
AboveRoot(strs, components) ==
    CASE strs = <<>> -> FALSE
      [] strs # <<>> /\ Head(strs) = Up -> components = 0 \/ AboveRoot(Tail(strs), components - 1)
      [] strs # <<>> /\ Head(strs) \in {<<>>, Here} -> FALSE
      [] OTHER -> AboveRoot(Tail(strs), components + 1)

IsAboveRoot(p) == AboveRoot(Components(p), 0)

ValidatePath(p) ==
    \A str \in ToSet(Components(IF StartsWith(p, "/") THEN Tail(p) ELSE p)) : IsPlain(str)

\* Mutant: the last component goes even for a single dot.
PushOrPopDots(vec, str) ==
    CASE str \in {Up, Here} -> IF vec = <<>> THEN vec ELSE Front(vec)
      [] str = <<>> -> vec
      [] OTHER -> Append(vec, str)

PushOrPop(vec, str) ==
    CASE str = Up -> IF vec = <<>> THEN vec ELSE Front(vec)
      [] str \in {<<>>, Here} -> vec
      [] OTHER -> Append(vec, str)

\* The components joined by slashes: merge(vector)
Join(vec) == IF vec = <<>> THEN <<>> ELSE FoldLeft(LAMBDA text, str : text \o Slash \o str, Head(vec), Tail(vec))

ReconstructPath(p) ==
    (IF StartsWith(p, "/") THEN Slash ELSE <<>>)
        \o Join(FoldLeft(PushOrPop, <<>>, Components(p)))
        \o (IF EndsWith(p, "/") THEN Slash ELSE <<>>)

Merge(root, p) ==
    CASE p = <<>> -> root
      [] p # <<>> /\ Last(root) = "/" -> root \o (IF Head(p) = "/" THEN Tail(p) ELSE p)
      [] OTHER -> root \o (IF Head(p) = "/" THEN p ELSE Slash \o p)

\* split
RECURSIVE SplitFrom(_)
SplitFrom(s) ==
    LET start == IF StartsWith(s, "/") THEN Tail(s) ELSE s
        str == ReadUntil(start, "/")
        rest == Drop(start, Len(str))
    IN  <<str>> \o (IF StartsWith(rest, "/") THEN SplitFrom(rest) ELSE <<>>)

Replace(p, source, dest) ==
    IF SubSeq(p, 1, Len(source)) = source THEN Merge(dest, Drop(p, Len(source))) ELSE p

Root(p) ==
    IF Places(p, "/") = {} THEN <<>>
    ELSE LET pos == Highest(Places(p, "/")) IN IF pos = 1 THEN Slash ELSE SubSeq(p, 1, pos - 1)

LastComponent(p) == IF Places(p, "/") = {} THEN p ELSE Drop(p, Highest(Places(p, "/")))

FullExtension(p) ==
    LET cmp == LastComponent(p)
    IN  IF Places(cmp, ".") = {} THEN <<>> ELSE Drop(cmp, Lowest(Places(cmp, ".")))

LastExtension(p) ==
    LET cmp == LastComponent(p)
    IN  IF Places(cmp, ".") = {} THEN <<>> ELSE Drop(cmp, Highest(Places(cmp, ".")))

Name(p) == ReadUntil(LastComponent(p), ".")

ExtensionCount(p) ==
    LET cmp == LastComponent(p) IN Len(SelectSeq(cmp, LAMBDA c : c = "."))

--------------------------------------------------------------------------------
(* Properties *)

TypeOK == path \in Seq(Chars)

\* The directory that a walk along the components leads to, from the root: what the file system
\* makes of a path.
RECURSIVE Walk(_, _)
Walk(at, strs) ==
    IF strs = <<>> THEN at
    ELSE Walk(CASE Head(strs) = Up -> SubSeq(at, 1, Len(at) - 1)
                [] Head(strs) \in {<<>>, Here} -> at
                [] OTHER -> Append(at, Head(strs)), Tail(strs))

Leads(p) == Walk(<<>>, Components(p))

\* A reconstructed path leads where the path did, is one that validatePath passes, absolute or
\* not as it was, and not changed a second time.  A path that leads nowhere is left out: with a
\* slash at its end it becomes one or two slashes.
Reconstructed ==
    LET new == ReconstructPath(path)
    IN  /\ Leads(new) = Leads(path)
        /\ Leads(path) # <<>> => /\ ValidatePath(new) /\ IsAbsolute(new) = IsAbsolute(path)
                                 /\ ReconstructPath(new) = new
                                 /\ ValidatePath(path) => new = path

Heights(strs) == {Len(SelectSeq(SubSeq(strs, 1, i), IsPlain))
                    - Len(SelectSeq(SubSeq(strs, 1, i), LAMBDA str : str = Up)) : i \in DOMAIN strs}

\* isAboveRoot tells whether a path leaves the directory that it begins in, of paths without
\* empty components and single dots, and is never wrong in saying so.
AboveRootExact ==
    LET strs == Components(path)
        leaves == \E h \in Heights(strs) : h < 0
    IN  /\ IsAboveRoot(path) => leaves
        /\ ToSet(strs) \cap {<<>>, Here} = {} => IsAboveRoot(path) = leaves

Names(p) == SelectSeq(Components(p), LAMBDA str : str # <<>>)

\* Merging two paths joins their components and makes no double slash; split and replace undo it.
MergedOnce ==
    \A other \in Others :
        LET merged == Merge(other, path)
        IN  /\ Names(merged) = Names(other) \o Names(path)
            /\ ValidatePath(other) /\ ValidatePath(path) => ValidatePath(merged)
            /\ Names(Replace(merged, other, <<"b">>)) = <<<<"b">>>> \o Names(path)

\* A path is its root, its last component's name and its extensions, put together.
PartsWhole ==
    LET last == LastComponent(path)
        root == Root(path)
    IN  /\ path = root \o (IF Places(path, "/") \subseteq {1} THEN <<>> ELSE Slash) \o last
        /\ last = IF ExtensionCount(path) = 0 THEN Name(path) ELSE Name(path) \o Here \o FullExtension(path)
        /\ ExtensionCount(path) = 1 => LastExtension(path) = FullExtension(path)
        /\ Join(SplitFrom(path)) = IF StartsWith(path, "/") THEN Tail(path) ELSE path
================================================================================
