-------------------------------- MODULE Buffers --------------------------------
(***************************************************************************)
(* A buffer, BufferTemplate that grows or StackBuffer that does not, and   *)
(* io::read, which passes what a producer has through it to a consumer,    *)
(* block by block.  The text that the buffer should hold is kept beside    *)
(* its bytes.                                                              *)
(*                                                                         *)
(* BufferTemplate fills its memory with zeros.  StackBuffer's constructor  *)
(* does not write to its array, whose bytes are then any.                  *)
(*                                                                         *)
(* The growing buffer has room for a character of three bytes, as its      *)
(* default size has: putc doubles it once, whatever it needs.  A buffer of *)
(* no bytes is left out: io::read would not end with it.                   *)
(***************************************************************************)
EXTENDS Integers, Sequences, SequencesExt, FiniteSetsExt

CONSTANTS
    Texts,      \* what a call puts
    Sources,    \* what a producer has
    Sizes,      \* sizes of new buffers
    Junk,       \* bytes that memory may hold before it is written, in none of Texts and Sources
    MaxSize     \* bound: a buffer that has grown beyond is not filled further

VARIABLES
    kind,       \* "template" or "stack"
    buf,        \* bytes, and the positions _ptr (or _size) and _input in them
    text,       \* history: what each position has got, by the constructor, by clear or by a
                \* put; zeros at the end are left out
    io          \* the variables of io::read

vars == <<kind, buf, text, io>>

Zeros(n) == [i \in 1 .. n |-> 0]

Idle == [at |-> "idle", cap |-> 0, c |-> 0, ret |-> 0, rest |-> <<>>, out |-> <<>>, source |-> <<>>]

NewTemplate(n) ==
    /\ kind = "template"
    /\ buf = [bytes |-> Zeros(n), ptr |-> 0, input |-> 0] /\ text = <<>>

\* The array is not initialised: its bytes are what the stack held there.
NewStack(n) ==
    /\ kind = "stack"
    /\ \E found \in [1 .. n -> Junk] :
         buf = [bytes |-> found, ptr |-> 0, input |-> 0] /\ text = found

Init ==
    /\ \E n \in Sizes : NewTemplate(n) \/ NewStack(n)
    /\ io = Idle

--------------------------------------------------------------------------------
(* Bytes *)

\* s written into bytes from position ptr on, as far as there are bytes.
Copied(bytes, ptr, s) ==
    [i \in DOMAIN bytes |-> IF i - ptr \in DOMAIN s THEN s[i - ptr] ELSE bytes[i]]

\* What a file would hold: it ends where it was written last.
Overwritten(t, ptr, s) ==
    Copied(t \o Zeros(Max({0, ptr + Len(s) - Len(t)})), ptr, s)

\* A position beyond what was read or written moves the end of it.
Moved(b, ptr) == [b EXCEPT !.ptr = ptr, !.input = Max({ptr, b.input})]

Enlarged(b, by) == [b EXCEPT !.bytes = @ \o Zeros(by)]

\* overflow(), and overflow(required)
Overflow(b) == Enlarged(b, Len(b.bytes))

\* Mutant: the buffer is doubled, whatever is required.
OverflowTwice(b, required) == Overflow(b)

OverflowBy(b, required) ==
    IF required < Len(b.bytes) THEN Overflow(b) ELSE Enlarged(b, required)

--------------------------------------------------------------------------------
(* BufferTemplate *)

\* The loop of put.
RECURSIVE Fill(_, _)
Fill(b, s) ==
    LET n      == Min({Len(b.bytes) - b.ptr, Len(s)})
        copied == [b EXCEPT !.bytes = Copied(@, b.ptr, SubSeq(s, 1, n)), !.ptr = @ + n]
        others == SubSeq(s, n + 1, Len(s))
    IN  IF others = <<>> THEN copied ELSE Fill(OverflowBy(copied, Len(others)), others)

Template == kind = "template" /\ io.at = "idle" /\ Len(buf.bytes) <= MaxSize

Put(s) ==
    /\ Template
    /\ buf' = Moved(Fill(buf, s), buf.ptr + Len(s))
    /\ text' = Overwritten(text, buf.ptr, s)
    /\ UNCHANGED <<kind, io>>

\* putc, with a character of Len(s) bytes.
Putc(s) ==
    LET room == IF Len(buf.bytes) - buf.ptr < Len(s) THEN Overflow(buf) ELSE buf IN
    /\ Template /\ Len(s) \in 1 .. 3
    /\ buf' = Moved([room EXCEPT !.bytes = Copied(@, buf.ptr, s)], buf.ptr + Len(s))
    /\ text' = Overwritten(text, buf.ptr, s)
    /\ UNCHANGED <<kind, io>>

PopBytes(len) ==
    /\ Template
    /\ buf' = [buf EXCEPT !.ptr = @ - Min({len, @})]
    /\ UNCHANGED <<kind, text, io>>

Seek(pos) ==
    LET room == IF pos > Len(buf.bytes) THEN OverflowBy(buf, pos - Len(buf.bytes)) ELSE buf IN
    /\ Template
    /\ buf' = Moved(room, pos)
    /\ UNCHANGED <<kind, text, io>>

--------------------------------------------------------------------------------
(* StackBuffer *)

PutStack(s) ==
    LET n == Min({Len(s), Len(buf.bytes) - buf.ptr}) IN
    /\ kind = "stack" /\ io.at = "idle"
    /\ buf' = [buf EXCEPT !.bytes = Copied(@, buf.ptr, SubSeq(s, 1, n)), !.ptr = @ + n]
    /\ text' = Overwritten(text, buf.ptr, SubSeq(s, 1, n))
    /\ UNCHANGED <<kind, io>>

SoftClear ==
    /\ kind = "stack" /\ io.at = "idle"
    /\ buf' = [buf EXCEPT !.ptr = 0]
    /\ UNCHANGED <<kind, text, io>>

--------------------------------------------------------------------------------
(* Both *)

Cleared(b) ==
    [b EXCEPT !.ptr = 0, !.input = 0, !.bytes = IF kind = "stack" THEN Zeros(Len(@)) ELSE @]

ClearedText == IF kind = "stack" THEN <<>> ELSE text

Clear ==
    /\ io.at = "idle"
    /\ buf' = Cleared(buf) /\ text' = ClearedText
    /\ UNCHANGED <<kind, io>>

\* save, after n bytes were written at the position
Save(b, n) == IF kind = "stack" THEN [b EXCEPT !.ptr = @ + n] ELSE Moved(b, b.ptr + n)

--------------------------------------------------------------------------------
(* io::read(from, to, buf, f), and the others like it *)

StartRead(source) ==
    /\ io.at = "idle"
    /\ io' = [at |-> "read", cap |-> Len(buf.bytes), c |-> Len(buf.bytes), ret |-> 0, rest |-> source, out |-> <<>>,
              source |-> source]
    /\ UNCHANGED <<kind, buf, text>>

\* Producer::read: prepare, read and save.  The producer gives all it is asked for, until it
\* has no more.
ReadBlock ==
    LET size == Min({io.cap, Len(buf.bytes)})
        n    == Min({size, Len(io.rest)})
        s    == SubSeq(io.rest, 1, n)
        room == Cleared(buf)
    IN  /\ io.at = "read" /\ io.c = io.cap
        /\ buf' = Save([room EXCEPT !.bytes = Copied(@, 0, s)], n)
        /\ text' = Overwritten(ClearedText, 0, s)
        /\ io' = [io EXCEPT !.c = n, !.ret = @ + n, !.rest = SubSeq(@, n + 1, Len(@)),
                            !.at = IF n > 0 THEN "write" ELSE "read"]
        /\ UNCHANGED kind

\* Consumer::write: data() and size()
WriteBlock ==
    /\ io.at = "write"
    /\ io' = [io EXCEPT !.at = "read", !.out = @ \o SubSeq(buf.bytes, 1, buf.ptr)]
    /\ UNCHANGED <<kind, buf, text>>

EndRead ==
    /\ io.at = "read" /\ io.c # io.cap
    /\ io' = Idle
    /\ UNCHANGED <<kind, buf, text>>

Next ==
    \/ \E s \in Texts : Put(s) \/ Putc(s) \/ PutStack(s)
    \/ \E n \in 0 .. MaxSize + 1 : PopBytes(n) \/ Seek(n)
    \/ SoftClear \/ Clear
    \/ \E source \in Sources : StartRead(source)
    \/ ReadBlock \/ WriteBlock \/ EndRead

Spec == Init /\ [][Next]_vars

--------------------------------------------------------------------------------
(* Properties *)

TypeOK ==
    /\ buf.ptr \in Nat /\ buf.input \in Nat /\ Len(text) \in Nat
    /\ io.at \in {"idle", "read", "write"}

\* The positions stay in the buffer, and at each is what was put there last, whatever the
\* buffer grew by in between.  Where nothing was put there are zeros in a BufferTemplate, and
\* in a StackBuffer zeros after a clear and what the memory held before one; the data that a
\* StackBuffer gives, the bytes up to its position, has none of the latter.
BytesKept ==
    /\ buf.ptr <= Len(buf.bytes)
    /\ kind = "template" => buf.ptr <= buf.input /\ buf.input <= Len(buf.bytes)
    /\ Len(text) <= Len(buf.bytes)
    /\ buf.bytes = text \o Zeros(Len(buf.bytes) - Len(text))
    /\ kind = "stack" => \A i \in 1 .. buf.ptr : buf.bytes[i] \notin Junk

\* The consumer gets what the producer had, in its order, each byte once, also if its length is
\* that of some blocks, and the length is returned.
Delivered ==
    LET held == IF io.at = "write" THEN SubSeq(buf.bytes, 1, buf.ptr) ELSE <<>>
    IN  /\ io.out \o held \o io.rest = io.source
        /\ io.at = "read" /\ io.c # io.cap => io.out = io.source
        /\ io.ret = Len(io.out) + Len(held)
================================================================================
