------------------------------- MODULE Encodings -------------------------------
(***************************************************************************)
(* The encodings of bytes and of text: base64, base64url, base16, percent  *)
(* encoding, UTF-8 and UTF-16.  A letter of base64's or base16's alphabet  *)
(* is the number it stands for: their tables for reading invert those for  *)
(* writing, and read both alphabets of base64 and both cases of base16.    *)
(***************************************************************************)
EXTENDS Integers, Sequences, SequencesExt

CONSTANTS
    Bytes,          \* bytes that are encoded
    Chars,          \* characters that text is made of, not 0: utf8Decode does not move on from
                    \* it, and toUtf16 does not return
    MaxBytes,       \* bound: length of the bytes
    MaxChars        \* bound: length of the text

VARIABLES bytes, text

vars == <<bytes, text>>

Init == bytes = <<>> /\ text = <<>>

AppendByte ==
    /\ text = <<>> /\ Len(bytes) < MaxBytes
    /\ \E b \in Bytes : bytes' = Append(bytes, b)
    /\ UNCHANGED text

AppendChar ==
    /\ bytes = <<>> /\ Len(text) < MaxChars
    /\ \E c \in Chars : text' = Append(text, c)
    /\ UNCHANGED bytes

Next == AppendByte \/ AppendChar

Spec == Init /\ [][Next]_vars

--------------------------------------------------------------------------------
(* base64 and base64url *)

Pad == 64
Other == 65

\* encodeSize and decodeSize
Base64Size(n) == 4 * ((n \div 3) + (IF n % 3 = 0 THEN 0 ELSE 1))
Base64DecodeSize(n) == 3 * ((n + 3) \div 4)

Sextets(a, b, c) == <<a \div 4, (16 * (a % 4)) + (b \div 16), (4 * (b % 16)) + (c \div 64), c % 64>>

\* Mutant: a last byte alone is written in one letter less.
Base64TailShort(tail) ==
    CASE Len(tail) = 0 -> <<>>
      [] Len(tail) = 1 -> SubSeq(Sextets(tail[1], 0, 0), 1, 1) \o <<Pad, Pad>>
      [] Len(tail) = 2 -> SubSeq(Sextets(tail[1], tail[2], 0), 1, 3) \o <<Pad>>

\* The one or two bytes behind the last whole group
Base64Tail(tail) ==
    CASE Len(tail) = 0 -> <<>>
      [] Len(tail) = 1 -> SubSeq(Sextets(tail[1], 0, 0), 1, 2) \o <<Pad, Pad>>
      [] Len(tail) = 2 -> SubSeq(Sextets(tail[1], tail[2], 0), 1, 3) \o <<Pad>>

Base64Encode(s) ==
    LET groups == Len(s) \div 3
    IN FlattenSeq([g \in 1 .. groups |-> Sextets(s[3 * g - 2], s[3 * g - 1], s[3 * g])])
           \o Base64Tail(SubSeq(s, 3 * groups + 1, Len(s)))

Base64urlEncode(s) == SelectSeq(Base64Encode(s), LAMBDA x : x # Pad)

\* make_decode accumulates four letters, passing over whatever is none.
Base64Decode(s) ==
    LET Octets(q) ==
            (IF Len(q) >= 2 THEN <<((4 * q[1]) % 256) + (q[2] \div 16)>> ELSE <<>>) \o
            (IF Len(q) >= 3 THEN <<((16 * q[2]) % 256) + (q[3] \div 4)>> ELSE <<>>) \o
            (IF Len(q) >= 4 THEN <<((64 * q[3]) % 256) + q[4]>> ELSE <<>>)
        letters == SelectSeq(s, LAMBDA x : x < 64)
        groups == (Len(letters) + 3) \div 4
    IN FlattenSeq([g \in 1 .. groups |->
                      Octets(SubSeq(letters, 4 * g - 3, IF 4 * g <= Len(letters) THEN 4 * g ELSE Len(letters)))])

--------------------------------------------------------------------------------
(* base16 and percent encoding *)

CharToHex(b) == <<b \div 16, b % 16>>
HexToChar(c, d) == 16 * c + d

Base16Encode(s) == FlattenSeq([i \in DOMAIN s |-> CharToHex(s[i])])
\* decode of what encode writes, an even number of digits
Base16Decode(s) == [i \in 1 .. Len(s) \div 2 |-> HexToChar(s[2 * i - 1], s[2 * i])]

\* encode into a buffer: as many whole bytes as it has space for.
Base16EncodeBuf(s, size) ==
    Base16Encode(SubSeq(s, 1, IF Len(s) <= size \div 2 THEN Len(s) ELSE size \div 2))

Percent == 37
Hex(n) == IF n < 10 THEN 48 + n ELSE 55 + n
FromHex(c) == IF c \in 48 .. 57 THEN c - 48 ELSE IF c \in 65 .. 70 THEN c - 55 ELSE c - 87
IsHex(c) == c \in 48 .. 57 \cup 65 .. 70 \cup 97 .. 102

\* isUrlencodeChar: letters, digits and four signs stand for themselves.
IsUrlencodeChar(c) == c \notin 97 .. 122 \cup 65 .. 90 \cup 48 .. 57 \cup {45, 95, 126, 46}

Urlencode(s) ==
    FlattenSeq([i \in DOMAIN s |->
        IF IsUrlencodeChar(s[i]) THEN <<Percent, Hex(s[i] \div 16), Hex(s[i] % 16)>> ELSE <<s[i]>>])

\* A percent sign that no two hexadecimal digits follow is kept, with what it stands before.
RECURSIVE Urldecode(_)
Urldecode(s) ==
    LET taken == IF s[1] # Percent THEN 1 ELSE IF Len(s) > 2 THEN 3 ELSE Len(s)
        read == IF taken = 3 /\ s[1] = Percent /\ IsHex(s[2]) /\ IsHex(s[3])
                THEN <<HexToChar(FromHex(s[2]), FromHex(s[3]))>> ELSE SubSeq(s, 1, taken)
    IN IF s = <<>> THEN <<>> ELSE read \o Urldecode(SubSeq(s, taken + 1, Len(s)))

--------------------------------------------------------------------------------
(* UTF-8 and UTF-16 *)

\* utf8EncodeLength, utf8Encode and getUtf8Length, for characters of UCS-2
Utf8EncodeLength(c) == IF c < 128 THEN 1 ELSE IF c < 2048 THEN 2 ELSE 3

Utf8Encode(c) ==
    CASE c < 128 -> <<c>>
      [] c >= 128 /\ c < 2048 -> <<192 + (c \div 64), 128 + (c % 64)>>
      [] OTHER -> <<224 + (c \div 4096), 128 + ((c \div 64) % 64), 128 + (c % 64)>>

ToUtf8(s) == FlattenSeq([i \in DOMAIN s |-> Utf8Encode(s[i])])
GetUtf8Length(s) == FoldLeft(LAMBDA n, c : n + Utf8EncodeLength(c), 0, s)

\* utf8_length_data: the length that a character's first byte announces
Utf8Length(b) ==
    CASE b = 0 -> 0
      [] b \in 1 .. 191 \/ b \in 254 .. 255 -> 1
      [] b \in 192 .. 223 -> 2
      [] b \in 224 .. 239 -> 3
      [] b \in 240 .. 247 -> 4
      [] b \in 248 .. 251 -> 5
      [] b \in 252 .. 253 -> 6

\* utf8_length_mask, as the number of values that the first byte's own bits have
Utf8Mask(b) == IF Utf8Length(b) <= 1 THEN 128 ELSE 2^(7 - Utf8Length(b))

IsContinuation(b) == b \in 128 .. 191

\* utf8Decode: a blank for what UCS-2 does not have, zero for what is no character.
Utf8Decode(s) ==
    LET n == Utf8Length(s[1])
        follows(i) == i <= Len(s) /\ IsContinuation(s[i])
        read == FoldLeft(LAMBDA c, b : ((64 * c) + (b % 64)) % 65536, s[1] % Utf8Mask(s[1]), SubSeq(s, 2, n))
    IN IF n > 3 THEN 32 ELSE IF \A i \in 2 .. n : follows(i) THEN read ELSE 0

RECURSIVE ToUtf16(_), GetUtf16Length(_), IsValidUtf8(_)

ToUtf16(s) ==
    IF s = <<>> THEN <<>> ELSE <<Utf8Decode(s)>> \o ToUtf16(SubSeq(s, 1 + Utf8Length(s[1]), Len(s)))

GetUtf16Length(s) ==
    IF s = <<>> \/ s[1] = 0 THEN 0 ELSE 1 + GetUtf16Length(SubSeq(s, 1 + Utf8Length(s[1]), Len(s)))

IsValidUtf8(s) ==
    LET n == Utf8Length(s[1])
    IN \/ s = <<>> \/ s[1] = 0
       \/ /\ s[1] < 128 \/ n > 1
          /\ \A i \in 2 .. n : i <= Len(s) /\ IsContinuation(s[i])
          /\ IsValidUtf8(SubSeq(s, n + 1, Len(s)))

--------------------------------------------------------------------------------
(* Properties *)

\* What decodes reads is what encode wrote, whatever is between the letters, and the sizes that
\* buffers are reserved by are right.
Base64Inverts ==
    LET spaced == FlattenSeq([i \in DOMAIN Base64Encode(bytes) |-> <<Base64Encode(bytes)[i], Other>>])
    IN /\ Base64Decode(Base64Encode(bytes)) = bytes
       /\ Base64Decode(Base64urlEncode(bytes)) = bytes
       /\ Base64Decode(spaced) = bytes
       /\ Len(Base64Encode(bytes)) = Base64Size(Len(bytes))
       /\ Len(bytes) \in Base64DecodeSize(Len(Base64Encode(bytes))) - 2 .. Base64DecodeSize(Len(Base64Encode(bytes)))

\* base16 gives back the bytes, those that fit where the buffer is small, and so does percent
\* encoding, which leaves no byte that a URL cannot have.
Base16Inverts ==
    /\ Base16Decode(Base16Encode(bytes)) = bytes
    /\ \A size \in 0 .. 2 * MaxBytes :
          /\ Len(Base16EncodeBuf(bytes, size)) <= size
          /\ IsPrefix(Base16Decode(Base16EncodeBuf(bytes, size)), bytes)
    /\ Urldecode(Urlencode(bytes)) = bytes
    /\ \A i \in DOMAIN Urlencode(bytes) : Urlencode(bytes)[i] = Percent \/ ~IsUrlencodeChar(Urlencode(bytes)[i])

\* UTF-8 as its standard has it, beyond UCS-2 as well.
Utf8(c) ==
    IF c < 65536 THEN Utf8Encode(c)
    ELSE <<240 + (c \div 2^18), 128 + ((c \div 2^12) % 64), 128 + ((c \div 64) % 64), 128 + (c % 64)>>

\* Text survives its way through UTF-8, a blank for each character beyond UCS-2, and the
\* lengths computed beforehand are those of the results.
Utf8Inverts ==
    LET written == FlattenSeq([i \in DOMAIN text |-> Utf8(text[i])])
        within == SelectSeq(text, LAMBDA c : c < 65536)
    IN /\ ToUtf16(written) = [i \in DOMAIN text |-> IF text[i] < 65536 THEN text[i] ELSE 32]
       /\ GetUtf16Length(written) = Len(text)
       /\ IsValidUtf8(written)
       /\ ToUtf16(ToUtf8(within)) = within
       /\ GetUtf8Length(within) = Len(ToUtf8(within))

TypeOK == bytes \in Seq(Bytes) /\ text \in Seq(Chars)
================================================================================
