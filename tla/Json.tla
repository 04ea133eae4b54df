---------------------------------- MODULE Json ----------------------------------
(***************************************************************************)
(* Values written as JSON, for people (pretty) or not, and the decoder     *)
(* that reads them with a stack of open containers.  A text is a sequence  *)
(* of characters.  A number has the text that the stream makes of it; of   *)
(* the control characters that are escaped by number, a few stand for all, *)
(* named by their two digits.                                              *)
(***************************************************************************)
EXTENDS Integers, Sequences, FiniteSets, SequencesExt, FiniteSetsExt, Functions

CONSTANT Values     \* values to write

VARIABLES
    value,      \* the value that was written
    pretty,     \* how
    ret,        \* the value that parseJson reads into
    r,          \* what is left to read
    stack,      \* the containers that are open, as the paths to them in ret
    reading     \* parseJson runs

vars == <<value, pretty, ret, r, stack, reading>>

IsContainer(v) == v.type \in {"ARRAY", "DICTIONARY"}

--------------------------------------------------------------------------------
(* Value::encode: the calls of the encoder *)

RECURSIVE Events(_)
Events(v) ==
    LET Next(i, calls) == (IF i > 1 THEN <<[call |-> "onNextValue"]>> ELSE <<>>) \o calls
    IN  <<[call |-> "onValue", value |-> v]>>
        \o CASE v.type = "ARRAY" ->
                  <<[call |-> "onBeginArray", value |-> v]>>
                  \o FlattenSeq([i \in DOMAIN v.items |-> Next(i, Events(v.items[i]))])
                  \o <<[call |-> "onEndArray"]>>
             [] v.type = "DICTIONARY" ->
                  LET keys == SetToSeq(DOMAIN v.pairs)
                  IN  <<[call |-> "onBeginDict"]>>
                      \o FlattenSeq([i \in DOMAIN keys |->
                           Next(i, <<[call |-> "onKey", key |-> keys[i]]>> \o Events(v.pairs[keys[i]]))])
                      \o <<[call |-> "onEndDict"]>>
             [] OTHER -> <<[call |-> "write", value |-> v]>>

--------------------------------------------------------------------------------
(* The encoders *)

Letters == [c \in {"\n", "\r", "\t", "FF", "BS", "\\", "\""} |->
              CASE c = "\n" -> "n" [] c = "\r" -> "r" [] c = "\t" -> "t" [] c = "FF" -> "f"
                [] c = "BS" -> "b" [] OTHER -> c]

Digits == [c \in {"00", "01", "1f"} |->
             CASE c = "00" -> <<"0", "0">> [] c = "01" -> <<"0", "1">> [] OTHER -> <<"1", "f">>]

Escape(c) ==
    IF c \in DOMAIN Letters THEN <<"\\", Letters[c]>>
    ELSE IF c \in DOMAIN Digits THEN <<"\\", "u", "0", "0">> \o Digits[c]
    ELSE <<c>>

EncodeString(chars) == <<"\"">> \o FlattenSeq([i \in DOMAIN chars |-> Escape(chars[i])]) \o <<"\"">>

Base64 == <<"B", "A", "S", "E", "6", "4", ":">>

Written(v) ==
    CASE v.type = "EMPTY" -> <<"n", "u", "l", "l">>
      [] v.type = "BOOLEAN" -> IF v.holds THEN <<"t", "r", "u", "e">> ELSE <<"f", "a", "l", "s", "e">>
      [] v.type \in {"INTEGER", "DOUBLE"} -> v.text
      [] v.type = "CHARSTRING" -> EncodeString(v.chars)
      [] v.type = "BYTESTRING" -> <<"\"">> \o Base64 \o v.base64 \o <<"\"">>

\* RawEncoder
RawText(e) ==
    CASE e.call = "write" -> Written(e.value)
      [] e.call = "onBeginArray" -> <<"[">>
      [] e.call = "onEndArray" -> <<"]">>
      [] e.call = "onBeginDict" -> <<"{">>
      [] e.call = "onEndDict" -> <<"}">>
      [] e.call = "onKey" -> EncodeString(e.key) \o <<":">>
      [] e.call = "onNextValue" -> <<",">>
      [] OTHER -> <<>>

RawEncoder(v) ==
    LET calls == Events(v) IN FlattenSeq([i \in DOMAIN calls |-> RawText(calls[i])])

\* PrettyEncoder, without timeMarkers
NewLine(depth) == <<"\n">> \o [i \in 1 .. depth |-> "\t"]

IsObjectArray(v) == \A i \in DOMAIN v.items : v.items[i].type = "DICTIONARY"

OnValue(p, v) ==
    IF p.depth = 0 THEN p
    ELSE IF p.popComplex /\ IsContainer(v)
         THEN [p EXCEPT !.stream = @ \o <<" ">>, !.popComplex = FALSE]
         ELSE [p EXCEPT !.stream = IF p.offsetted THEN @ ELSE @ \o NewLine(p.depth),
                        !.offsetted = TRUE, !.popComplex = FALSE]

OnBeginArray(p, v) ==
    IF IsObjectArray(v)
    THEN [p EXCEPT !.stream = @ \o <<"[">>, !.bstack = Append(@, TRUE)]
    ELSE [p EXCEPT !.stream = @ \o <<"[">>, !.bstack = Append(@, FALSE), !.depth = @ + 1,
                   !.offsetted = FALSE]

OnEndArray(p) ==
    LET offset == p.bstack = <<>> \/ ~Last(p.bstack)
        depth  == IF offset THEN p.depth - 1 ELSE p.depth
    IN  [p EXCEPT !.depth = depth, !.popComplex = TRUE,
                  !.bstack = IF @ = <<>> THEN @ ELSE Front(@),
                  !.stream = @ \o (IF offset THEN NewLine(depth) ELSE <<>>) \o <<"]">>]

OnEndDict(p) ==
    [p EXCEPT !.depth = p.depth - 1, !.popComplex = TRUE,
              !.stream = @ \o NewLine(p.depth - 1) \o <<"}">>]

OnKey(p, key) ==
    [p EXCEPT !.offsetted = TRUE,
              !.stream = @ \o NewLine(p.depth) \o EncodeString(key) \o <<":", " ">>]

Pretty(p, e) ==
    CASE e.call = "onValue" -> OnValue(p, e.value)
      [] e.call = "write" -> [p EXCEPT !.stream = @ \o Written(e.value), !.offsetted = FALSE]
      [] e.call = "onBeginArray" -> OnBeginArray(p, e.value)
      [] e.call = "onEndArray" -> OnEndArray(p)
      [] e.call = "onBeginDict" -> [p EXCEPT !.stream = @ \o <<"{">>, !.depth = @ + 1]
      [] e.call = "onEndDict" -> OnEndDict(p)
      [] e.call = "onKey" -> OnKey(p, e.key)
      [] e.call = "onNextValue" -> [p EXCEPT !.stream = @ \o <<",">>]

PrettyEncoder(v) ==
    FoldLeft(Pretty, [stream |-> <<>>, depth |-> 0, popComplex |-> FALSE, offsetted |-> FALSE, bstack |-> <<>>],
             Events(v))

--------------------------------------------------------------------------------
(* Reading characters *)

Drop(s, n) == SubSeq(s, n + 1, Len(s))

Is(s, c) == s # <<>> /\ Head(s) = c

SkipUntil(s, chars) ==
    LET found == {i \in DOMAIN s : s[i] \in chars}
    IN  IF found = {} THEN <<>> ELSE Drop(s, Min(found) - 1)

SkipChars(s, chars) == SkipUntil(s, Range(s) \ chars)

Numbers == {"0", "1", "2", "3", "4", "5", "6", "7", "8", "9"}

\* decodeNumber: what is left behind the number.
Sign(s, signs) == IF s # <<>> /\ Head(s) \in signs THEN Tail(s) ELSE s

\* Mutant: an exponent without a sign.
AfterNumberUnsigned(s) ==
    LET whole    == SkipChars(Sign(s, {"-"}), Numbers)
        fraction == IF Is(whole, ".") THEN SkipChars(Tail(whole), Numbers) ELSE whole
    IN  IF fraction # <<>> /\ Head(fraction) \in {"E", "e"}
        THEN SkipChars(Tail(fraction), Numbers) ELSE fraction

AfterNumber(s) ==
    LET whole    == SkipChars(Sign(s, {"-"}), Numbers)
        fraction == IF Is(whole, ".") THEN SkipChars(Tail(whole), Numbers) ELSE whole
    IN  IF fraction # <<>> /\ Head(fraction) \in {"E", "e"}
        THEN SkipChars(Sign(Tail(fraction), {"+", "-"}), Numbers) ELSE fraction

IsFloat(text) == \E i \in DOMAIN text : text[i] \in {".", "E", "e"}

\* parseBufferString, behind the quote that opens it.
RECURSIVE Unescape(_)
Unescape(s) ==
    IF s = <<>> THEN [chars |-> <<>>, rest |-> <<>>]
    ELSE IF Head(s) = "\"" THEN [chars |-> <<>>, rest |-> Tail(s)]
    ELSE LET length == IF Head(s) # "\\" THEN 1 ELSE IF s[2] = "u" THEN 6 ELSE 2
             char   == CASE length = 1 -> Head(s)
                         [] length = 2 -> AntiFunction(Letters)[s[2]]
                         [] length = 6 -> AntiFunction(Digits)[<<s[5], s[6]>>]
             others == Unescape(Drop(s, length))
         IN  [others EXCEPT !.chars = <<char>> \o @]

ParseBufferString(s) == Unescape(IF Is(s, "\"") THEN Tail(s) ELSE s)

--------------------------------------------------------------------------------
(* The values that are read *)

EMPTY == [type |-> "EMPTY"]

Child(v, key) == IF v.type = "ARRAY" THEN v.items[key] ELSE v.pairs[key]

At(path) == FoldLeft(Child, ret, path)

\* v with the value at the end of the path replaced.
RECURSIVE Replace(_, _, _)
Replace(v, path, new) ==
    IF path = <<>> THEN new
    ELSE LET key == Head(path) IN
         IF v.type = "ARRAY"
         THEN [v EXCEPT !.items[key] = Replace(v.items[key], Tail(path), new)]
         ELSE [v EXCEPT !.pairs[key] = Replace(v.pairs[key], Tail(path), new)]

\* back
Back == At(Last(stack))

\* emplace_back(EMPTY)
Extended(array) == [array EXCEPT !.items = Append(@, EMPTY)]

\* emplace(key, EMPTY), which keeps the value of a key that is there.
Emplaced(dict, key) ==
    [dict EXCEPT !.pairs = [k \in DOMAIN @ \cup {key} |-> IF k \in DOMAIN @ THEN @[k] ELSE EMPTY]]

\* The character at which parseValue goes on if it cannot make anything of r[0].
Starts == {"\"", "t", "f", "n", "+", "-", "[", "{", "]", "}"} \cup Numbers

NAN == [type |-> "DOUBLE", text |-> <<"n", "a", "n">>]

\* parseValue: what the value at s becomes, and the rest.  A container is pushed.
ParseValue(v, s) ==
    CASE Head(s) = "\"" ->
           LET string == ParseBufferString(s)
           IN  [value |-> [type |-> "CHARSTRING", chars |-> string.chars], rest |-> string.rest]
      [] Head(s) = "t" -> [value |-> [type |-> "BOOLEAN", holds |-> TRUE], rest |-> Drop(s, 4)]
      [] Head(s) = "f" -> [value |-> [type |-> "BOOLEAN", holds |-> FALSE], rest |-> Drop(s, 5)]
      [] Head(s) \in Numbers \cup {"-"} ->
           LET text == SubSeq(s, 1, Len(s) - Len(AfterNumber(s)))
           IN  [value |-> [type |-> IF IsFloat(text) THEN "DOUBLE" ELSE "INTEGER", text |-> text],
                rest |-> AfterNumber(s)]
      [] Head(s) = "[" -> [value |-> [type |-> "ARRAY", items |-> <<>>], rest |-> Tail(s)]
      [] Head(s) = "{" -> [value |-> [type |-> "DICTIONARY", pairs |-> [k \in {} |-> EMPTY]], rest |-> Tail(s)]
      [] Head(s) = "n" ->
           IF IsPrefix(NAN.text, s) THEN [value |-> NAN, rest |-> Drop(s, 3)]
           ELSE [value |-> v, rest |-> Drop(s, 4)]
      [] OTHER -> [value |-> v, rest |-> SkipUntil(s, Starts)]

--------------------------------------------------------------------------------
(* json::write and json::read *)

Text(v, p) == IF p THEN PrettyEncoder(v).stream ELSE RawEncoder(v)

Space == {" ", "\n", "\r", "\t"}

\* A text that is "null" is not parsed.
Init ==
    /\ value \in Values /\ pretty \in BOOLEAN
    /\ ret = EMPTY /\ stack = <<>>
    /\ r = SkipChars(Text(value, pretty), Space)
    /\ reading = (value # EMPTY)

\* parseJson ends when nothing is left or no container is open.
Loop(rest, open) == reading' = (rest # <<>> /\ open # <<>>)

\* parseValue with the value at path, in a root that has it already.
Parse(root, path, s) ==
    LET old    == FoldLeft(Child, root, path)
        parsed == ParseValue(old, s)
        opened == Head(s) \in {"[", "{"}
    IN  /\ ret' = Replace(root, path, parsed.value)
        /\ r' = parsed.rest
        /\ stack' = IF opened THEN Append(stack, path) ELSE stack
        /\ Loop(parsed.rest, stack')
        /\ UNCHANGED <<value, pretty>>

\* pop
Pop(s) ==
    /\ r' = Tail(s)
    /\ stack' = Front(stack)
    /\ Loop(r', stack')
    /\ UNCHANGED <<value, pretty, ret>>

ParseFirst ==
    /\ reading /\ stack = <<>>
    /\ Parse(ret, <<>>, r)

ParseArray ==
    LET s    == SkipChars(r, Space \cup {","})
        path == Last(stack)
        next == Len(Back.items) + 1
    IN  /\ reading /\ stack # <<>> /\ Back.type = "ARRAY"
        /\ IF Is(s, "]") THEN Pop(s)
           ELSE Parse(Replace(ret, path, Extended(Back)), Append(path, next), s)

\* The key is moved into the dictionary.
ParseDict ==
    LET s    == SkipUntil(r, {"\"", "}"})
        path == Last(stack)
        key  == ParseBufferString(s)
    IN  /\ reading /\ stack # <<>> /\ Back.type = "DICTIONARY"
        /\ IF Is(s, "}") THEN Pop(s)
           ELSE Parse(Replace(ret, path, Emplaced(Back, key.chars)), Append(path, key.chars),
                      SkipChars(key.rest, Space \cup {":"}))

Next == ParseFirst \/ ParseArray \/ ParseDict

Spec == Init /\ [][Next]_vars
--------------------------------------------------------------------------------
(* Properties *)

RECURSIVE TypedAs(_)
TypedAs(v) ==
    CASE v.type = "ARRAY" -> \A i \in DOMAIN v.items : TypedAs(v.items[i])
      [] v.type = "DICTIONARY" -> \A k \in DOMAIN v.pairs : TypedAs(v.pairs[k])
      [] v.type = "BOOLEAN" -> v.holds \in BOOLEAN
      [] v.type = "CHARSTRING" -> v.chars \in Seq(STRING)
      [] v.type \in {"INTEGER", "DOUBLE"} -> v.text \in Seq(STRING)
      [] OTHER -> v.type = "EMPTY"

TypeOK == TypedAs(ret) /\ r \in Seq(STRING) /\ pretty \in BOOLEAN /\ reading \in BOOLEAN

\* What JSON makes of a value: bytes become text, a double without a fraction an integer.
RECURSIVE AsRead(_)
AsRead(v) ==
    CASE v.type = "ARRAY" -> [v EXCEPT !.items = [i \in DOMAIN @ |-> AsRead(@[i])]]
      [] v.type = "DICTIONARY" -> [v EXCEPT !.pairs = [k \in DOMAIN @ |-> AsRead(@[k])]]
      [] v.type = "BYTESTRING" -> [type |-> "CHARSTRING", chars |-> Base64 \o v.base64]
      [] v.type = "DOUBLE" /\ v # NAN /\ ~IsFloat(v.text) -> [type |-> "INTEGER", text |-> v.text]
      [] OTHER -> v

\* What was written, in either layout, is read back as a whole, and nothing is left.
RoundTrip == ~reading => ret = AsRead(value) /\ (value = EMPTY \/ (r = <<>> /\ stack = <<>>))

\* The pointers on the stack lead, one from another, to the containers that are still being
\* read: each is the last element of an array above it, whose elements have not moved since.
StackIsPath ==
    /\ stack # <<>> => Head(stack) = <<>>
    /\ \A i \in DOMAIN stack : IsContainer(At(stack[i]))
    /\ \A i \in 2 .. Len(stack) :
          LET above == At(stack[i - 1])
          IN  /\ Front(stack[i]) = stack[i - 1]
              /\ above.type = "ARRAY" => Last(stack[i]) = Len(above.items)

\* The pretty encoder comes back to where it began, and has a depth all the way.
LayoutBalanced ==
    ~reading => LET p == PrettyEncoder(value) IN p.depth = 0 /\ p.bstack = <<>>
================================================================================
