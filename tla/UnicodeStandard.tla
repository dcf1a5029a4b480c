-------------------------- MODULE UnicodeStandard --------------------------
(***************************************************************************)
(* What a text in UTF-8 or UTF-16 means, independently of any parser: the  *)
(* well-formed sequences by the ranges of their units, the division of a   *)
(* text into scalars and maximal subparts of ill-formed sequences, and     *)
(* the value of a well-formed sequence.                                    *)
(***************************************************************************)
EXTENDS Integers, Sequences, FiniteSetsExt

Surrogates == 55296 .. 57343
LeadSurrogates == 55296 .. 56319
TrailSurrogates == 56320 .. 57343

\* How many bytes a leading byte announces; none for a byte that leads nothing.
Announced(u) ==
    CASE u \in 0 .. 127 -> 1
      [] u \in 194 .. 223 -> 2
      [] u \in 224 .. 239 -> 3
      [] u \in 240 .. 244 -> 4
      [] OTHER -> 0

\* The second byte is restricted after some leading bytes: no overlong form, no
\* surrogate, nothing beyond the last scalar.
SecondBytes(u) ==
    CASE u = 224 -> 160 .. 191
      [] u = 237 -> 128 .. 159
      [] u = 240 -> 144 .. 191
      [] u = 244 -> 128 .. 143
      [] OTHER -> 128 .. 191

Follows(s) ==
    \A i \in 2 .. Len(s) : s[i] \in (IF i = 2 THEN SecondBytes(s[1]) ELSE 128 .. 191)

WellFormed(enc, s) ==
    IF enc = "UTF8" THEN Len(s) = Announced(s[1]) /\ Follows(s)
    ELSE \/ Len(s) = 1 /\ s[1] \notin Surrogates
         \/ Len(s) = 2 /\ s[1] \in LeadSurrogates /\ s[2] \in TrailSurrogates

\* A beginning of something well-formed.
Truncated(enc, s) == enc = "UTF8" /\ Len(s) < Announced(s[1]) /\ Follows(s)

\* The element of the division that starts at i.
SegmentAt(enc, text, i) ==
    LET part(n) == SubSeq(text, i, i + n - 1)
        lengths == 1 .. Min({4, Len(text) - i + 1})
        wellFormed == {n \in lengths : WellFormed(enc, part(n))}
    IN  IF wellFormed # {}
        THEN LET n == Max(wellFormed) IN [valid |-> TRUE, length |-> n, scalar |-> part(n)]
        ELSE [valid |-> FALSE,
              length |-> Max({1} \cup {n \in lengths : Truncated(enc, part(n))}),
              scalar |-> <<>>]

Segments(enc, text) ==
    LET from[i \in 1 .. Len(text) + 1] ==
          IF i > Len(text) THEN <<>>
          ELSE LET s == SegmentAt(enc, text, i) IN <<s>> \o from[i + s.length]
    IN  from[1]

\* The value of a well-formed sequence: the smallest that its length can
\* express, and how far it is behind it.
Value(enc, s) ==
    IF enc = "UTF16"
    THEN IF Len(s) = 1 THEN s[1]
         ELSE 65536 + 1024 * (s[1] - 55296) + (s[2] - 56320)
    ELSE CASE Len(s) = 1 -> s[1]
           [] Len(s) = 2 -> 64 * (s[1] - 192) + (s[2] - 128)
           [] Len(s) = 3 -> 4096 * (s[1] - 224) + 64 * (s[2] - 128) + (s[3] - 128)
           [] OTHER -> 262144 * (s[1] - 240) + 4096 * (s[2] - 128)
                         + 64 * (s[3] - 128) + (s[4] - 128)

\* The values of a text, an ill-formed part counting as the replacement
\* character.
Values(enc, segments) ==
    [i \in DOMAIN segments |->
       IF segments[i].valid THEN Value(enc, segments[i].scalar) ELSE 65533]

=============================================================================
