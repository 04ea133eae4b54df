---------------------------------- MODULE Cbor ----------------------------------
(***************************************************************************)
(* data::Value, the tree that data formats are read into and written from, *)
(* and its encoding in CBOR: cbor::write and cbor::read.                   *)
(*                                                                         *)
(* An integer is its eight bytes, the most significant first.  A double    *)
(* that a float can hold is that float's sign, exponent and mantissa;      *)
(* another is its eight bytes.  Dictionaries are functions of their keys.  *)
(***************************************************************************)
EXTENDS Integers, Sequences, SequencesExt, FiniteSets, TLC

CONSTANTS
    Leaves,      \* what is set and added
    Keys,        \* keys of dictionaries, as their bytes
    MaxNodes     \* bound: values in a tree

VARIABLE value

vars == <<value>>

EMPTY == [type |-> "EMPTY"]
Boolean(b) == [type |-> "BOOLEAN", holds |-> b]
Integer(bytes) == [type |-> "INTEGER", bytes |-> bytes]
Single(sign, exp, mant) == [type |-> "DOUBLE", single |-> <<sign, exp, mant>>]
Double(bytes) == [type |-> "DOUBLE", bytes |-> bytes]
CharString(text) == [type |-> "CHARSTRING", bytes |-> text]
ByteString(bytes) == [type |-> "BYTESTRING", bytes |-> bytes]
Array(items) == [type |-> "ARRAY", items |-> items]
Dictionary(pairs) == [type |-> "DICTIONARY", pairs |-> pairs]

NoPairs == [k \in {} |-> EMPTY]
Zeros(n) == [i \in 1 .. n |-> 0]
NaN == Single(0, 255, 2^22)

--------------------------------------------------------------------------------
(* Value: calls on the root and on what getValue finds below it *)

RECURSIVE Paths(_), Get(_, _), Replace(_, _, _), Nodes(_)

\* The keys and indexes that lead to a value.
Paths(v) ==
    {<<>>} \cup
    CASE v.type = "ARRAY" -> UNION {{<<i>> \o p : p \in Paths(v.items[i])} : i \in DOMAIN v.items}
      [] v.type = "DICTIONARY" -> UNION {{<<k>> \o p : p \in Paths(v.pairs[k])} : k \in DOMAIN v.pairs}
      [] OTHER -> {}

Child(v, k) == IF v.type = "ARRAY" THEN v.items[k] ELSE v.pairs[k]

Get(v, path) == IF path = <<>> THEN v ELSE Get(Child(v, Head(path)), Tail(path))

Replace(v, path, new) ==
    IF path = <<>> THEN new
    ELSE LET k == Head(path)
             below == Replace(Child(v, k), Tail(path), new)
         IN IF v.type = "ARRAY" THEN [v EXCEPT !.items[k] = below] ELSE [v EXCEPT !.pairs[k] = below]

Nodes(v) ==
    1 + CASE v.type = "ARRAY" -> FoldLeft(LAMBDA n, x : n + Nodes(x), 0, v.items)
          [] v.type = "DICTIONARY" ->
                FoldLeft(LAMBDA n, k : n + Nodes(v.pairs[k]), 0, SetToSeq(DOMAIN v.pairs))
          [] OTHER -> 0

\* convertToArray(-1) and convertToDict: an empty value becomes the container asked for.
AsArray(v) == IF v.type = "EMPTY" THEN Array(<<>>) ELSE v
AsDict(v) == IF v.type = "EMPTY" THEN Dictionary(NoPairs) ELSE v

Become(path, new) ==
    /\ value' = Replace(value, path, new)
    /\ Nodes(value') <= MaxNodes

AddValue(path, x) ==
    LET v == AsArray(Get(value, path))
    IN v.type = "ARRAY" /\ Become(path, Array(Append(v.items, x)))

\* setValue at a key
SetKey(path, k, x) ==
    LET v == AsDict(Get(value, path))
    IN v.type = "DICTIONARY" /\ Become(path, Dictionary((k :> x) @@ v.pairs))

\* setValue at an index: within an array, or in an empty value, which becomes an array that
\* long.
SetIndex(path, i, x) ==
    LET v == Get(value, path)
        resized == [j \in 1 .. i |-> EMPTY]
    IN \/ /\ v.type = "ARRAY" /\ i \in DOMAIN v.items
          /\ Become(path, [v EXCEPT !.items[i] = x])
       \/ v.type = "EMPTY" /\ Become(path, Array([resized EXCEPT ![i] = x]))

\* The assignment of a value that may be a part of the one assigned to.
Assign(path, from) == Become(path, Get(value, from))

Erase(path, k) ==
    LET v == Get(value, path)
    IN \/ /\ v.type = "ARRAY" /\ k \in DOMAIN v.items
          /\ Become(path, Array(RemoveAt(v.items, k)))
       \/ /\ v.type = "DICTIONARY" /\ k \in DOMAIN v.pairs
          /\ Become(path, Dictionary([j \in DOMAIN v.pairs \ {k} |-> v.pairs[j]]))

Init == value \in Leaves

Next ==
    \E path \in Paths(value) :
        \/ \E x \in Leaves : \/ AddValue(path, x)
                             \/ \E k \in Keys : SetKey(path, k, x)
                             \/ \E i \in 1 .. MaxNodes : SetIndex(path, i, x)
        \/ \E from \in Paths(value) : Assign(path, from)
        \/ Get(value, path).type = "ARRAY" /\ \E i \in 1 .. MaxNodes : Erase(path, i)
        \/ Get(value, path).type = "DICTIONARY" /\ \E k \in Keys : Erase(path, k)

Spec == Init /\ [][Next]_vars

--------------------------------------------------------------------------------
(* Writing *)

Unsigned == 0    Negative == 1    Bytes == 2    Chars == 3
Items == 4       Pairs == 5       Tagged == 6   Simple == 7

UndefinedLength == 31

Initial(major, info) == <<32 * major + info>>

LowBytes(bytes, n) == SubSeq(bytes, Len(bytes) - n + 1, Len(bytes))
Fits(bytes, n) == \A i \in 1 .. 8 - n : bytes[i] = 0

\* The eight bytes of a length, which is less than 2^16 here.
Length(n) == Zeros(6) \o <<n \div 256, n % 256>>

\* The additional information says a number below 24, or how many bytes follow.
NumberInfo == (1 :> 24) @@ (2 :> 25) @@ (4 :> 26) @@ (8 :> 27)

WriteNumeric(bytes, n, major) == Initial(major, NumberInfo[n]) \o LowBytes(bytes, n)

\* Mutant: 24 is taken for a number that the first byte can hold.
WriteUnsignedPast(bytes, major) ==
    IF Fits(bytes, 1) /\ bytes[8] <= 24 THEN Initial(major, bytes[8])
    ELSE WriteNumeric(bytes, CHOOSE n \in {1, 2, 4, 8} :
                                 Fits(bytes, n) /\ \A m \in {1, 2, 4} : Fits(bytes, m) => n <= m, major)

\* _writeInt of an unsigned number
WriteUnsigned(bytes, major) ==
    IF Fits(bytes, 1) /\ bytes[8] < 24 THEN Initial(major, bytes[8])
    ELSE WriteNumeric(bytes, CHOOSE n \in {1, 2, 4, 8} :
                                 Fits(bytes, n) /\ \A m \in {1, 2, 4} : Fits(bytes, m) => n <= m, major)

\* -1 - n
Complement(bytes) == [i \in 1 .. 8 |-> 255 - bytes[i]]
IsNegative(bytes) == bytes[1] >= 128

WriteInteger(bytes) ==
    IF IsNegative(bytes) THEN WriteUnsigned(Complement(bytes), Negative) ELSE WriteUnsigned(bytes, Unsigned)

WriteFloat16(sign, exp, mant) ==
    Initial(Simple, 25) \o <<128 * sign + 4 * exp + mant \div 256, mant % 256>>
WriteFloat32(sign, exp, mant) ==
    Initial(Simple, 26) \o <<128 * sign + exp \div 2, 128 * (exp % 2) + mant \div 2^16, (mant \div 2^8) % 256, mant % 256>>
WriteFloat64(bytes) == Initial(Simple, 27) \o bytes

\* Mutant: the largest exponent that half a float has is left out.
WriteSingleNarrow(sign, exp, mant) ==
    LET low == 2^(126 - exp)
    IN CASE exp = 255 /\ mant # 0 -> WriteFloat16(0, 31, 512)
         [] exp = 255 /\ mant = 0 -> WriteFloat16(sign, 31, 0)
         [] exp = 0 /\ mant = 0 -> WriteFloat16(sign, 0, 0)
         [] mant % 2^13 = 0 /\ exp \in 113 .. 141 -> WriteFloat16(sign, exp - 112, mant \div 2^13)
         [] mant % 2^13 = 0 /\ exp \in 103 .. 112 /\ mant % low = 0 ->
                WriteFloat16(sign, 0, (mant + 2^23) \div low)
         [] OTHER -> WriteFloat32(sign, exp, mant)

\* _writeFloat of what a float can hold: in half of it where nothing is lost.
WriteSingle(sign, exp, mant) ==
    LET low == 2^(126 - exp)
    IN CASE exp = 255 /\ mant # 0 -> WriteFloat16(0, 31, 512)
         [] exp = 255 /\ mant = 0 -> WriteFloat16(sign, 31, 0)
         [] exp = 0 /\ mant = 0 -> WriteFloat16(sign, 0, 0)
         [] mant % 2^13 = 0 /\ exp \in 113 .. 142 -> WriteFloat16(sign, exp - 112, mant \div 2^13)
         [] mant % 2^13 = 0 /\ exp \in 103 .. 112 /\ mant % low = 0 ->
                WriteFloat16(sign, 0, (mant + 2^23) \div low)
         [] OTHER -> WriteFloat32(sign, exp, mant)

\* _writeString and _writeBytes
WriteText(bytes, major) == WriteUnsigned(Length(Len(bytes)), major) \o bytes

\* The order of a dictionary's keys
RECURSIVE Before(_, _)
Before(a, b) ==
    b # <<>> /\ \/ a = <<>>
                \/ a[1] < b[1]
                \/ a[1] = b[1] /\ Before(Tail(a), Tail(b))

RECURSIVE Encode(_)

Encode(v) ==
    CASE v.type = "EMPTY" -> Initial(Simple, 22)
      [] v.type = "BOOLEAN" -> Initial(Simple, IF v.holds THEN 21 ELSE 20)
      [] v.type = "INTEGER" -> WriteInteger(v.bytes)
      [] v.type = "DOUBLE" ->
            IF "single" \in DOMAIN v THEN WriteSingle(v.single[1], v.single[2], v.single[3])
            ELSE WriteFloat64(v.bytes)
      [] v.type = "CHARSTRING" -> WriteText(v.bytes, Chars)
      [] v.type = "BYTESTRING" -> WriteText(v.bytes, Bytes)
      [] v.type = "ARRAY" ->
            WriteUnsigned(Length(Len(v.items)), Items) \o
            FoldLeft(LAMBDA doc, x : doc \o Encode(x), <<>>, v.items)
      [] v.type = "DICTIONARY" ->
            WriteUnsigned(Length(Cardinality(DOMAIN v.pairs)), Pairs) \o
            FoldLeft(LAMBDA doc, k : doc \o WriteText(k, Chars) \o Encode(v.pairs[k]), <<>>,
                     SetToSortSeq(DOMAIN v.pairs, Before))

\* The mark of a CBOR document
Id == <<217, 217, 247>>

Write(v) == Id \o Encode(v)

--------------------------------------------------------------------------------
(* Reading.  What is read comes with the rest of the document. *)

\* BytesView's reads take nothing and give zero where there are too few bytes left.
Take(r, n) ==
    IF Len(r) >= n THEN [bytes |-> SubSeq(r, 1, n), rest |-> SubSeq(r, n + 1, Len(r))]
    ELSE [bytes |-> Zeros(n), rest |-> r]

\* A value's first byte
ReadHead(r) ==
    LET b == Take(r, 1) IN [major |-> b.bytes[1] \div 32, info |-> b.bytes[1] % 32, rest |-> b.rest]

\* What the loops over arrays and maps take to be the end, as a break in the document is.
Stop(r) == [major |-> Simple, info |-> UndefinedLength, rest |-> r]
IsBreak(h) == h.major = Simple /\ h.info = UndefinedLength
NextHead(size, r) == IF size > 0 THEN ReadHead(r) ELSE Stop(r)

\* _readIntValue: the number in eight bytes
ReadNumber(h) ==
    IF h.info < 24 THEN [bytes |-> Zeros(7) \o <<h.info>>, rest |-> h.rest]
    ELSE IF h.info \in 24 .. 27 THEN
        LET n == 2^(h.info - 24)
            got == Take(h.rest, n)
        IN [bytes |-> Zeros(8 - n) \o got.bytes, rest |-> got.rest]
    ELSE [bytes |-> Zeros(8), rest |-> h.rest]

\* A number as a size; an undefined length is more than any document has.
Huge == 2^30
SizeOf(bytes) == IF Fits(bytes, 3) THEN 2^16 * bytes[6] + 2^8 * bytes[7] + bytes[8] ELSE Huge

\* A string's bytes, as many as there are.
ReadBytes(h) ==
    LET size == ReadNumber(h)
        n == IF SizeOf(size.bytes) <= Len(size.rest) THEN SizeOf(size.bytes) ELSE Len(size.rest)
    IN Take(size.rest, n)

\* decodeUndefinedLength: chunks of the string's type until a break.
RECURSIVE Chunks(_, _, _)
Chunks(r, major, read) ==
    LET h == ReadHead(r)
        chunk == ReadBytes(h)
    IN IF h.major # major /\ ~IsBreak(h) THEN [bytes |-> read, rest |-> h.rest]
       ELSE IF h.info = UndefinedLength THEN [bytes |-> read \o chunk.bytes, rest |-> chunk.rest]
       ELSE Chunks(chunk.rest, major, read \o chunk.bytes)

ReadText(h) == IF h.info = UndefinedLength THEN Chunks(h.rest, h.major, <<>>) ELSE ReadBytes(h)

\* halffloat::decode
FromHalf(bytes) ==
    LET sign == bytes[1] \div 128
        exp == (bytes[1] \div 4) % 32
        mant == (bytes[1] % 4) * 256 + bytes[2]
        top == CHOOSE p \in 0 .. 9 : mant \div 2^p = 1
    IN CASE exp = 0 /\ mant = 0 -> Single(sign, 0, 0)
         [] exp = 0 /\ mant # 0 -> Single(sign, 103 + top, (mant - 2^top) * 2^(23 - top))
         [] exp \in 1 .. 30 -> Single(sign, exp + 112, mant * 2^13)
         [] exp = 31 -> IF mant = 0 THEN Single(sign, 255, 0) ELSE NaN

FromFloat(b) ==
    Single(b[1] \div 128, 2 * (b[1] % 128) + b[2] \div 128, (b[2] % 128) * 2^16 + b[3] * 2^8 + b[4])

\* decodeSimpleValue
DecodeSimple(h) ==
    LET With(n, Of(_)) == LET got == Take(h.rest, n) IN [value |-> Of(got.bytes), rest |-> got.rest]
        Small(b) == Integer(Zeros(7) \o b)
    IN CASE h.info = 24 -> With(1, Small)
         [] h.info = 25 -> With(2, FromHalf)
         [] h.info = 26 -> With(4, FromFloat)
         [] h.info = 27 -> With(8, Double)
         [] h.info \in {22, 23} -> [value |-> EMPTY, rest |-> h.rest]
         [] h.info \in {20, 21} -> [value |-> Boolean(h.info = 21), rest |-> h.rest]
         [] OTHER -> [value |-> Small(<<h.info>>), rest |-> h.rest]

RECURSIVE Decode(_), DecodeItems(_, _, _), DecodePairs(_, _, _)

\* decodeArray's loop: a number or simple value of one byte may be the last thing in the
\* document, anything else has bytes behind its first one.
DecodeItems(size, h, items) ==
    IF /\ h.rest # <<>> \/ (h.major \in {Unsigned, Negative, Simple} /\ h.info < 24)
       /\ size > 0 /\ ~IsBreak(h)
    THEN LET item == Decode(h)
         IN DecodeItems(size - 1, NextHead(size - 1, item.rest), Append(items, item.value))
    ELSE [value |-> Array(items), rest |-> h.rest]

\* decodeMap's loop, for keys that are strings as Value's are.  A pair whose key is empty is
\* skipped.
DecodePairs(size, h, pairs) ==
    LET key == ReadText(h)
        of == ReadHead(key.rest)
        item == Decode(of)
        with == IF key.bytes = <<>> THEN pairs ELSE (key.bytes :> item.value) @@ pairs
    IN IF h.rest = <<>> \/ size = 0 \/ IsBreak(h) THEN [value |-> Dictionary(pairs), rest |-> h.rest]
       ELSE IF key.rest = <<>> \/ IsBreak(of) THEN [value |-> Dictionary(pairs), rest |-> of.rest]
       ELSE DecodePairs(size - 1, NextHead(size - 1, item.rest), with)

Decode(h) ==
    LET number == ReadNumber(h)
        text == ReadText(h)
        size == IF h.info = UndefinedLength THEN Huge ELSE SizeOf(number.bytes)
        first == NextHead(size, number.rest)
    IN CASE h.major = Unsigned -> [value |-> Integer(number.bytes), rest |-> number.rest]
         [] h.major = Negative -> [value |-> Integer(Complement(number.bytes)), rest |-> number.rest]
         [] h.major = Bytes -> [value |-> ByteString(text.bytes), rest |-> text.rest]
         [] h.major = Chars -> [value |-> CharString(text.bytes), rest |-> text.rest]
         [] h.major = Items -> DecodeItems(size, first, <<>>)
         [] h.major = Pairs -> DecodePairs(size, first, NoPairs)
         [] h.major = Tagged -> IF number.rest = <<>> THEN [value |-> EMPTY, rest |-> <<>>]
                                ELSE Decode(ReadHead(number.rest))
         [] h.major = Simple -> DecodeSimple(h)

\* cbor::read
Read(doc) ==
    IF Len(doc) <= 3 \/ SubSeq(doc, 1, 3) # Id THEN EMPTY
    ELSE Decode(ReadHead(SubSeq(doc, 4, Len(doc)))).value

--------------------------------------------------------------------------------
(* Properties *)

\* What a document says does not depend on the form its writer has chosen.  A writer may give
\* every length and integer in eight bytes, write strings, arrays and maps up to a break
\* instead of with a length (strings in chunks of one byte), floats in four bytes, and put a tag
\* before a value.
Styles == [wide : BOOLEAN, open : BOOLEAN, tagged : BOOLEAN]

RECURSIVE Document(_, _)
Document(v, style) ==
    LET Head8(bytes, major) == Initial(major, 27) \o bytes
        Number(bytes, major) == IF style.wide THEN Head8(bytes, major) ELSE WriteUnsigned(bytes, major)
        Text(bytes, major) ==
            IF style.open
            THEN Initial(major, 31) \o
                 FoldLeft(LAMBDA doc, b : doc \o Number(Length(1), major) \o <<b>>, <<>>, bytes) \o Initial(7, 31)
            ELSE Number(Length(Len(bytes)), major) \o bytes
        Container(n, major, contents) ==
            IF style.open THEN Initial(major, 31) \o contents \o Initial(7, 31)
            ELSE Number(Length(n), major) \o contents
    IN (IF style.tagged THEN Number(Length(32), Tagged) ELSE <<>>) \o
       CASE v.type = "INTEGER" ->
                IF v.bytes[1] >= 128 THEN Number(Complement(v.bytes), Negative) ELSE Number(v.bytes, Unsigned)
         [] v.type = "DOUBLE" /\ "single" \in DOMAIN v /\ v # NaN ->
                WriteFloat32(v.single[1], v.single[2], v.single[3])
         [] v.type = "CHARSTRING" -> Text(v.bytes, Chars)
         [] v.type = "BYTESTRING" -> Text(v.bytes, Bytes)
         [] v.type = "ARRAY" ->
                Container(Len(v.items), Items,
                          FoldLeft(LAMBDA doc, x : doc \o Document(x, style), <<>>, v.items))
         [] v.type = "DICTIONARY" ->
                Container(Cardinality(DOMAIN v.pairs), Pairs,
                          FoldLeft(LAMBDA doc, k : doc \o Text(k, Chars) \o Document(v.pairs[k], style), <<>>,
                                   SetToSortSeq(DOMAIN v.pairs, Before)))
         [] OTHER -> Encode(v)

Bare(v) == \/ v.type \in {"CHARSTRING", "BYTESTRING"} /\ v.bytes = <<>>
           \/ v.type = "ARRAY" /\ v.items = <<>>
           \/ v.type = "DICTIONARY" /\ v.pairs = NoPairs

RECURSIVE EndsBare(_), HasEmptyKey(_)

\* The document ends in an element of an array that is one byte long and no number: the reader
\* takes the array to have ended before it.
EndsBare(v) ==
    \/ v.type = "ARRAY" /\ v.items # <<>> /\ (Bare(v.items[Len(v.items)]) \/ EndsBare(v.items[Len(v.items)]))
    \/ v.type = "DICTIONARY" /\
          \E k \in DOMAIN v.pairs : (\A j \in DOMAIN v.pairs : ~Before(k, j)) /\ EndsBare(v.pairs[k])

\* The reader skips pairs whose key is empty.
HasEmptyKey(v) ==
    \/ v.type = "ARRAY" /\ \E i \in DOMAIN v.items : HasEmptyKey(v.items[i])
    \/ v.type = "DICTIONARY" /\ \E k \in DOMAIN v.pairs : k = <<>> \/ HasEmptyKey(v.pairs[k])

\* What read makes of what write has written is the value, to the last bit of its numbers.
RoundTrip == ~EndsBare(value) /\ ~HasEmptyKey(value) => Read(Write(value)) = value

\* read takes a document in any form that its standard allows for the value.
AnyForm ==
    ~HasEmptyKey(value) =>
        \A style \in Styles : \/ ~style.wide /\ ~style.open /\ EndsBare(value)
                             \/ Read(Id \o Document(value, style)) = value

\* A double takes the least bytes that give it back: "calculate optimal size to store value"
\* says _writeFloat.
Halves(mant) ==
    {mant \div 2^13} \cup {(mant + 2^23) \div 2^n : n \in 13 .. 24}

OptimalSize ==
    value.type = "DOUBLE" /\ "single" \in DOMAIN value =>
        LET mant == value.single[3]
        IN (\E sign \in 0 .. 1, exp \in 0 .. 31, m \in {n \in Halves(mant) : n < 1024} :
               FromHalf(<<128 * sign + 4 * exp + m \div 256, m % 256>>) = value)
            <=> Len(Encode(value)) = 3

TypeOK ==
    LET Byte == 0 .. 255
        RECURSIVE IsValue(_)
        IsValue(v) ==
            \/ v = EMPTY \/ v = Boolean(TRUE) \/ v = Boolean(FALSE)
            \/ v.type = "INTEGER" /\ Len(v.bytes) = 8 /\ \A i \in 1 .. 8 : v.bytes[i] \in Byte
            \/ v.type = "DOUBLE" /\ (v = NaN \/ "bytes" \in DOMAIN v \/ v.single[2] \in Byte)
            \/ v.type \in {"CHARSTRING", "BYTESTRING"} /\ \A i \in DOMAIN v.bytes : v.bytes[i] \in Byte
            \/ v.type = "ARRAY" /\ \A i \in DOMAIN v.items : IsValue(v.items[i])
            \/ v.type = "DICTIONARY" /\ \A k \in DOMAIN v.pairs : k \in Keys /\ IsValue(v.pairs[k])
    IN IsValue(value)
================================================================================
