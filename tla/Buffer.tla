------------------------------- MODULE Buffer -------------------------------
(***************************************************************************)
(* The Buffer class of scripts                                             *)
(* (src/src/modules/buffer/BufferModule.cpp): the index arithmetic of its  *)
(* methods over buffers of bytes.  Positions are the int32 values that     *)
(* JS_ToInt32 gives; sizes are unsigned and wrap at SizeMod, which stands  *)
(* for 2^64 and is above every size.  protoCore's byte buffers are         *)
(* external; a new one holds any bytes.                                    *)
(***************************************************************************)
EXTENDS Integers, SequencesExt

CONSTANTS
    Buf,       \* buffers the script holds
    Number,    \* numbers it passes as bytes
    Position,  \* int32 arguments
    MaxSize,   \* bound: bytes in a buffer
    SizeMod

VARIABLES
    bytes,      \* [Buf -> Seq(0..255)]
    bufferFate  \* "fine", or why memcpy was undefined: "beyond", "overlap"

vars == <<bytes, bufferFate>>

Byte == {n % 256 : n \in Number}
Contents == UNION {[1..n -> Byte] : n \in 0..MaxSize}

Start == bytes = [b \in Buf |-> <<>>] /\ bufferFate = "fine"

Least(a, b) == IF a < b THEN a ELSE b
Most(a, b) == IF a > b THEN a ELSE b

\* The bytes of s at the offsets from..to - 1, which start at 0.
Bytes(s, from, to) == SubSeq(s, from + 1, to)

(***************************************************************************)
(* Text.  A text is its bytes in UTF-8, as JS_ToCString gives them; a      *)
(* hexadecimal text is a sequence of digits, 16 for a character that       *)
(* strtoul does not take.                                                  *)
(***************************************************************************)
\* A C string ends at its first zero byte.
UntilZero(s) ==
    LET zeros == {i \in DOMAIN s : s[i] = 0} IN
    IF zeros = {} THEN s
    ELSE SubSeq(s, 1, (CHOOSE i \in zeros : \A j \in zeros : i <= j) - 1)

\* The bytes i..j of s are a character, one half of a surrogate pair included.
Character(s, i, j) ==
    /\ \A k \in i + 1 .. j : s[k] \in 128..191
    /\ \/ j = i /\ s[i] \in 0..127
       \/ j = i + 1 /\ s[i] \in 194..223
       \/ j = i + 2 /\ s[i] \in 224..239 /\ (s[i] = 224 => s[j - 1] >= 160)
       \/ /\ j = i + 3 /\ s[i] \in 240..244
          /\ s[i] = 240 => s[j - 2] >= 144
          /\ s[i] = 244 => s[j - 2] < 144

InCharacter(s, k) == \E i \in 1..k, j \in k..Len(s) : Character(s, i, j)

Replacement == <<239, 191, 189>>  \* U+FFFD

\* utf8: JS_NewString of a C string ends at a zero byte and replaces what is no
\* character.  How many bytes one U+FFFD stands for and whether it takes a
\* character next to them along is the engine's; here it stands for one byte.
utf8Text(s) ==
    LET c == UntilZero(s)
    IN FlattenSeq([k \in DOMAIN c |->
                     IF InCharacter(c, k) THEN <<c[k]>> ELSE Replacement])

fromUtf8(text) == UntilZero(text)

\* The characters of which scripts build texts here.
Letter == {<<0>>, <<66>>, <<195, 169>>}

hexText(s) ==
    [i \in 1..2 * Len(s) |->
        IF i % 2 = 1 THEN s[(i + 1) \div 2] \div 16 ELSE s[i \div 2] % 16]

\* Pairs of digits; strtoul stops at the first bad one, an odd one is left.
fromHex(text) ==
    [i \in 1..Len(text) \div 2 |->
        LET high == text[2 * i - 1]
            low == text[2 * i] IN
        IF high = 16 THEN 0 ELSE IF low = 16 THEN high ELSE 16 * high + low]

\* The range of toString: a negative start is 0, a negative end is empty.
TextRange(s, start, end) ==
    LET e == Least(end, Len(s)) IN Bytes(s, Least(Most(start, 0), e), e)

bufferToString(s, encoding, start, end) ==
    IF encoding = "hex" THEN hexText(TextRange(s, start, end))
    ELSE utf8Text(TextRange(s, start, end))

(***************************************************************************)
(* New buffers                                                             *)
(***************************************************************************)
Holds(b, s) ==
    /\ bufferFate = "fine" /\ Len(s) <= MaxSize
    /\ bytes' = [bytes EXCEPT ![b] = s]
    /\ UNCHANGED bufferFate

\* Buffer(size) and Buffer.from(size) do not clear the memory.
BufferConstructorSize(b, s) == Holds(b, s)

BufferConstructorArray(b, numbers) ==
    Holds(b, [i \in DOMAIN numbers |-> numbers[i] % 256])

BufferConstructorText(b, text) == Holds(b, fromUtf8(text))

BufferConstructorHex(b, text) == Holds(b, fromHex(text))

bufferAlloc(b, size, n) == Holds(b, [i \in 1..size |-> n % 256])

bufferConcat(b, c, d) == Holds(b, bytes[c] \o bytes[d])

\* A slip: a negative end is not counted from the end of the buffer.
SliceEndPlain(end, size) == end

SliceEnd(end, size) == IF end < 0 THEN end + size ELSE end

\* A copy of the range, not a view of it.
Slice(s, start, end) ==
    LET e == Least(SliceEnd(end, Len(s)), Len(s))
        from == Most(IF start < 0 THEN start + Len(s) ELSE start, 0)
    IN Bytes(s, Least(from, e), e)

bufferSlice(b, c, start, end) == Holds(b, Slice(bytes[c], start, end))

(***************************************************************************)
(* Methods                                                                 *)
(***************************************************************************)
\* copyLen: targetSize - targetStart is unsigned.
CopyLen(source, target, targetStart, sourceStart, sourceEnd) ==
    LET e == Least(sourceEnd, Len(source))
        from == Least(Least(sourceStart, Len(source)), e)
    IN IF targetStart < 0 \/ sourceStart < 0 \/ sourceEnd < 0 THEN 0
       ELSE Least(e - from, (Len(target) - targetStart) % SizeMod)

Copied(source, target, targetStart, sourceStart, n) ==
    [i \in DOMAIN target |->
        IF i \in targetStart + 1 .. targetStart + n
        THEN source[i - targetStart + sourceStart] ELSE target[i]]

\* What is wrong with the memcpy of copy: it leaves the target, or its ranges
\* share bytes of one buffer.
MemcpyFate(b, c, targetStart, sourceStart, n) ==
    IF n > 0 /\ targetStart + n > Len(bytes[c]) THEN "beyond"
    ELSE IF n > 0 /\ b = c /\ targetStart < sourceStart + n
                 /\ sourceStart < targetStart + n THEN "overlap"
    ELSE "fine"

bufferCopy(b, c, targetStart, sourceStart, sourceEnd) ==
    LET n == CopyLen(bytes[b], bytes[c], targetStart, sourceStart, sourceEnd) IN
    /\ bufferFate = "fine"
    /\ bufferFate' = MemcpyFate(b, c, targetStart, sourceStart, n)
    /\ bytes' = IF bufferFate' = "fine"
                THEN [bytes EXCEPT ![c] = Copied(bytes[b], @, targetStart,
                                                 sourceStart, n)]
                ELSE bytes

Fill(s, n, offset, end) ==
    LET e == Least(end, Len(s))
        from == Least(Most(offset, 0), e)
    IN [i \in DOMAIN s |-> IF i \in from + 1 .. e THEN n % 256 ELSE s[i]]

bufferFill(b, n, offset, end) == Holds(b, Fill(bytes[b], n, offset, end))

\* The bytes searched for; the first match at or after byteOffset, or -1.
bufferIndexOf(s, search, byteOffset) ==
    LET from == Most(IF byteOffset < 0 THEN byteOffset + Len(s) ELSE byteOffset, 0)
        match == {i \in from .. Len(s) - Len(search) :
                    \A j \in DOMAIN search : s[i + j] = search[j]}
    IN IF search = <<>> \/ from >= Len(s) \/ match = {} THEN -1
       ELSE CHOOSE i \in match : \A k \in match : i <= k

bufferIncludes(s, search) == bufferIndexOf(s, search, 0) >= 0

Next ==
    \E b, c \in Buf :
        \/ \E s \in Contents : BufferConstructorSize(b, s)
        \/ \E n, m \in Number : BufferConstructorArray(b, <<n, m>>)
        \/ \E x, y \in Letter : BufferConstructorText(b, x \o y)
        \/ \E h, l \in {0, 12, 16} : BufferConstructorHex(b, <<h, l, 1>>)
        \/ \E n \in Number, size \in 0..MaxSize : bufferAlloc(b, size, n)
        \/ bufferConcat(b, b, c)
        \/ \E start, end \in Position :
            \/ bufferSlice(b, c, start, end)
            \/ \E n \in Number : bufferFill(b, n, start, end)
            \/ \E targetStart \in Position :
                   bufferCopy(b, c, targetStart, start, end)

Spec == Start /\ [][Next]_vars

(***************************************************************************)
(* Properties                                                              *)
(***************************************************************************)
\* Every variable keeps its type: what a buffer holds are bytes.
TypeOK ==
    /\ \A b \in Buf : Len(bytes[b]) <= MaxSize
                      /\ \A i \in DOMAIN bytes[b] : bytes[b][i] \in 0..255
    /\ bufferFate \in {"fine", "beyond", "overlap"}

\* slice(start, end) is the bytes at the positions from start to end - 1, both
\* counted from the end if they are negative, whatever they are.
SliceIsTheRange ==
    \A b \in Buf, start, end \in Position :
        LET s == bytes[b]
            At(p) == IF p < 0 THEN p + Len(s) ELSE p
            range == {i \in 0 .. Len(s) - 1 : At(start) <= i /\ i < At(end)}
            slice == Slice(s, start, end) IN
        /\ \A i \in range : \E j \in DOMAIN slice :
               slice[j] = s[i + 1] /\ j - 1 = i - Most(At(start), 0)
        /\ \A j \in DOMAIN slice : Most(At(start), 0) + j - 1 \in range

\* copy() copies the longest range that fits in the target, and nothing else,
\* unless it starts behind the end of the target.
CopyFits ==
    \A b, c \in Buf, t, f, e \in Position :
        LET n == CopyLen(bytes[b], bytes[c], t, f, e) IN
        t \in 0 .. Len(bytes[c]) =>
            /\ n >= 0 /\ t + n <= Len(bytes[c])
            /\ n > 0 => f + n <= Len(bytes[b]) /\ f + n <= e
            /\ (n < e - f /\ f >= 0) =>
                   t + n = Len(bytes[c]) \/ f + n >= Len(bytes[b])

\* copy() writes behind the end of its target only if it was told to start
\* there and has something to copy.
BeyondNeedsLateStart ==
    bufferFate = "beyond" =>
        \E b, c \in Buf, t, f, e \in Position :
            t > Len(bytes[c]) /\ CopyLen(bytes[b], bytes[c], t, f, e) > 0

\* The text of a buffer in hexadecimal gives the buffer back.
HexComesBack ==
    \A b \in Buf : fromHex(bufferToString(bytes[b], "hex", 0, MaxSize)) = bytes[b]

\* Its text in utf8 gives a buffer back only if it holds characters and no zero
\* byte; it does so then, but for halves of surrogate pairs, which the engine may
\* join.
TextComesBack ==
    \A b \in Buf :
        LET s == bytes[b]
            back == fromUtf8(bufferToString(s, "utf8", 0, MaxSize))
            text == \A k \in DOMAIN s : s[k] # 0 /\ InCharacter(s, k)
            halves == \E k \in 1 .. Len(s) - 1 : s[k] = 237 /\ s[k + 1] >= 160 IN
        /\ back = s => text
        /\ text /\ ~halves => back = s

\* indexOf() of a part of the buffer finds it where it is or before, and what
\* it finds is that part; includes() agrees with it.
IndexOfFinds ==
    \A b \in Buf, start, end \in 0..MaxSize :
        LET s == bytes[b]
            part == Bytes(s, start, Least(end, Len(s)))
            at == bufferIndexOf(s, part, 0) IN
        part # <<>> =>
            /\ at \in 0..start
            /\ Bytes(s, at, at + Len(part)) = part
            /\ bufferIncludes(s, part)

\* The facts above.
Safety ==
    /\ SliceIsTheRange /\ CopyFits /\ BeyondNeedsLateStart
    /\ HexComesBack /\ TextComesBack /\ IndexOfFinds

=============================================================================
