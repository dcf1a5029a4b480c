-------------------------- MODULE UnicodeEncodings --------------------------
(***************************************************************************)
(* The two encodings that share the parser of src/UTFEncoding.swift: what  *)
(* src/UTF8.swift, src/UTF16.swift and src/UIntBuffer.swift compute.  A    *)
(* code unit is its value.  A test on bits is written as division and      *)
(* remainder by powers of two; sequences of units are in text order unless *)
(* they are read by a ReverseParser.                                       *)
(***************************************************************************)
EXTENDS Integers, Sequences

Encodings == {"UTF8", "UTF16"}
Directions == {"forward", "reverse"}

\* The code units of an encoding are the bytes or the 16-bit words.
MaxUnit(e) == IF e = "UTF8" THEN 255 ELSE 65535

Units(e) == 0 .. MaxUnit(e)

(***************************************************************************)
(* _UIntBuffer: "capacity" units in a 32-bit word and a count of those     *)
(* that are in use (the bit count is eight bits wide: 8 * capacity units). *)
(***************************************************************************)
Capacity(e) == IF e = "UTF8" THEN 4 ELSE 2

Storage(e) == [1 .. Capacity(e) -> Units(e)]

Buffer(e) == [units : Storage(e), count : 0 .. 8 * Capacity(e) - 1]

EmptyBuffer(e) == [units |-> [i \in 1 .. Capacity(e) |-> 0], count |-> 0]

\* append, for the first k units of s: the shift by the bit count wraps round
\* at the width of the word.
AppendAll(e, b, s, k) ==
    [units |-> [i \in 1 .. Capacity(e) |->
                  LET j == ((i - b.count - 1) % Capacity(e)) + 1
                  IN  IF j <= k THEN s[j] ELSE b.units[i]],
     count |-> (b.count + k) % (8 * Capacity(e))]

\* Mutant: the slots that become free keep what they held.
ShiftOutStale(e, b, n) ==
    [units |-> [i \in 1 .. Capacity(e) |->
                  IF i + n <= Capacity(e) THEN b.units[i + n] ELSE b.units[i]],
     count |-> (b.count - n) % (8 * Capacity(e))]

\* A shift to the right by n units fills up with zeros.
ShiftOut(e, b, n) ==
    [units |-> [i \in 1 .. Capacity(e) |->
                  IF i + n <= Capacity(e) THEN b.units[i + n] ELSE 0],
     count |-> (b.count - n) % (8 * Capacity(e))]

-----------------------------------------------------------------------------
(***************************************************************************)
(* Code units.                                                             *)
(***************************************************************************)

\* _isScalar: the unit is a scalar by itself (UTF8 says so of ASCII only).
IsScalar(e, u) == IF e = "UTF8" THEN u < 128 ELSE u \div 2048 # 27

IsLeadSurrogate(u) == u \div 1024 = 54
IsTrailSurrogate(u) == u \div 1024 = 55

Continues(u) == u \div 64 = 2

\* The leading byte and the byte behind it begin a sequence of that length:
\* the top 4 bits of the result are not zero, the top 5 bits are neither zero
\* nor those of a surrogate, the top 5 bits are in range.
Begins2(u, v) == u \div 32 = 6 /\ Continues(v) /\ (u % 32) \div 2 # 0
\* (Mutant: surrogates are let through.)
Begins3Surrogates(u, v) == u \div 16 = 14 /\ Continues(v)
                             /\ 2 * (u % 16) + ((v \div 32) % 2) # 0
Begins3(u, v) == u \div 16 = 14 /\ Continues(v)
                   /\ 2 * (u % 16) + ((v \div 32) % 2) \notin {0, 27}
Begins4(u, v) == u \div 8 = 30 /\ Continues(v)
                   /\ 4 * (u % 8) + ((v \div 16) % 4) \in 1 .. 16

-----------------------------------------------------------------------------
(***************************************************************************)
(* The parsers.  They look at the whole word, without the count: a slot    *)
(* that is not in use reads as a zero.                                     *)
(***************************************************************************)

\* The first n units of the word, in text order.
InOrder(d, u, n) == [i \in 1 .. n |-> IF d = "forward" THEN u[i] ELSE u[n + 1 - i]]

\* n units, more than one, that make up a scalar.
Complete(e, s, n) ==
    IF e = "UTF16"
    THEN n = 2 /\ IsLeadSurrogate(s[1]) /\ IsTrailSurrogate(s[2])
    ELSE \/ n = 2 /\ Begins2(s[1], s[2])
         \/ n = 3 /\ Begins3(s[1], s[2]) /\ Continues(s[3])
         \/ n = 4 /\ Begins4(s[1], s[2]) /\ Continues(s[3]) /\ Continues(s[4])

\* n units, more than one, that a longer scalar could start with.
Incomplete(e, s, n) ==
    /\ e = "UTF8"
    /\ \/ n = 2 /\ (Begins3(s[1], s[2]) \/ Begins4(s[1], s[2]))
       \/ n = 3 /\ Begins4(s[1], s[2]) /\ Continues(s[3])

\* Mutant: counts the units behind the first.
InvalidLengthBehind(e, d, u) ==
    IF Incomplete(e, InOrder(d, u, 3), 3) THEN 2
    ELSE IF Incomplete(e, InOrder(d, u, 2), 2) THEN 1 ELSE 0

\* _invalidLength: as much as could have been the start of a scalar, or one.
InvalidLength(e, d, u) ==
    IF Incomplete(e, InOrder(d, u, 3), 3) THEN 3
    ELSE IF Incomplete(e, InOrder(d, u, 2), 2) THEN 2 ELSE 1

\* _parseMultipleCodeUnits
ParseMultiple(e, d, u) ==
    LET Lengths == {n \in 2 .. Capacity(e) : Complete(e, InOrder(d, u, n), n)}
    IN  IF Lengths # {} THEN [valid |-> TRUE, length |-> CHOOSE n \in Lengths : TRUE]
        ELSE [valid |-> FALSE, length |-> InvalidLength(e, d, u)]

\* Mutant: the bytes are not swapped.
BufferedScalarUnswapped(e, d, u, n) == InOrder("forward", u, n)

\* _bufferedScalar: n units in text order.  UTF8.ReverseParser first swaps the
\* bytes of the word, so that the units behind the scalar are below its leading
\* byte, then adds one to every byte of the word by a single addition, which
\* carries out of a byte that is 255; the stored scalar keeps the carry.
BufferedScalar(e, d, u, n) ==
    LET carry[i \in 1 .. 5] == IF i = 5 THEN 0 ELSE (u[i] + 1 + carry[i + 1]) \div 256
    IN  IF e = "UTF8" /\ d = "reverse"
        THEN [i \in 1 .. n |-> (u[n + 1 - i] + carry[n + 2 - i]) % 256]
        ELSE InOrder(d, u, n)

-----------------------------------------------------------------------------
(***************************************************************************)
(* Scalar values.                                                          *)
(***************************************************************************)

\* UTF8.decode and the same masks and shifts in UTF16.transcode.
DecodeUTF8(s) ==
    CASE Len(s) = 1 -> s[1]
      [] Len(s) = 2 -> 64 * (s[1] % 32) + (s[2] % 64)
      [] Len(s) = 3 -> 4096 * (s[1] % 16) + 64 * (s[2] % 64) + (s[3] % 64)
      [] OTHER -> 262144 * (s[1] % 8) + 4096 * (s[2] % 64) + 64 * (s[3] % 64)
                    + (s[4] % 64)

DecodeUTF16(s) ==
    IF Len(s) = 1 THEN s[1] ELSE 65536 + 1024 * (s[1] % 1024) + (s[2] % 1024)

Decode(e, s) == IF e = "UTF8" THEN DecodeUTF8(s) ELSE DecodeUTF16(s)

EncodeUTF8(c) ==
    LET low(k) == 128 + ((c \div k) % 64)
    IN  CASE c < 128 -> <<c>>
          [] c >= 128 /\ c < 2048 -> <<192 + c \div 64, low(1)>>
          [] c >= 2048 /\ c < 65536 -> <<224 + c \div 4096, low(64), low(1)>>
          [] OTHER -> <<240 + c \div 262144, low(4096), low(64), low(1)>>

\* Mutant: the first supplementary value is not subtracted.
EncodeUTF16Unbiased(c) ==
    IF c < 65536 THEN <<c>>
    ELSE <<55296 + ((c \div 1024) % 1024), 56320 + (c % 1024)>>

EncodeUTF16(c) ==
    IF c < 65536 THEN <<c>>
    ELSE LET x == c - 65536
         IN  <<55296 + ((x \div 1024) % 1024), 56320 + (x % 1024)>>

Encode(e, c) == IF e = "UTF8" THEN EncodeUTF8(c) ELSE EncodeUTF16(c)

\* transcode: the bits go from one form to the other as decode and encode would
\* take them; from an encoding to itself the scalar stays as it is.
Transcode(out, e, s) == IF out = e THEN s ELSE Encode(out, Decode(e, s))

ReplacementScalar == 65533
EncodedReplacement(e) ==
    IF e = "UTF8" THEN <<239, 191, 189>> ELSE <<ReplacementScalar>>

\* utf16BitUnion < 0x80
IsASCIIText(s) == \A i \in DOMAIN s : s[i] < 128

=============================================================================
