----------------------- MODULE UnicodeEncodings_proofs -----------------------
(***************************************************************************)
(* The tests and conversions of UnicodeEncodings against UnicodeStandard,  *)
(* for every sequence of units: the masks accept exactly the sequences     *)
(* that the standard's ranges describe, decoding gives their value and     *)
(* encoding takes it back, and what a parse of the word says, in either    *)
(* direction, is the next element of the standard's division of the text.  *)
(***************************************************************************)
EXTENDS UnicodeEncodings, UnicodeStandard, SequenceTheorems, FiniteSetTheorems, Induction,
        TLAPS

Byte == 0 .. 255

\* The tests on the first two bytes are the ranges of the standard.
LEMMA FirstTwoBytes ==
    ASSUME NEW u \in Byte, NEW v \in Byte
    PROVE  /\ Continues(v) <=> v \in 128 .. 191
           /\ Begins2(u, v) <=> Announced(u) = 2 /\ v \in SecondBytes(u)
           /\ Begins3(u, v) <=> Announced(u) = 3 /\ v \in SecondBytes(u)
           /\ Begins4(u, v) <=> Announced(u) = 4 /\ v \in SecondBytes(u)
  <1>1. Continues(v) <=> v \in 128 .. 191
    BY DEF Continues, Byte
  <1>2. Begins2(u, v) <=> Announced(u) = 2 /\ v \in SecondBytes(u)
    <2>1. u \div 32 = 6 /\ (u % 32) \div 2 # 0 <=> u \in 194 .. 223
      BY DEF Byte
    <2>2. u \in 194 .. 223 => SecondBytes(u) = 128 .. 191
      BY DEF SecondBytes
    <2>3. Announced(u) = 2 <=> u \in 194 .. 223
      BY DEF Announced, Byte
    <2> QED
      BY <1>1, <2>1, <2>2, <2>3 DEF Begins2
  <1>3. Begins3(u, v) <=> Announced(u) = 3 /\ v \in SecondBytes(u)
    <2>1. u \div 16 = 14 <=> u \in 224 .. 239
      BY DEF Byte
    <2>2. Announced(u) = 3 <=> u \in 224 .. 239
      BY DEF Announced, Byte
    <2>3. ASSUME u \in 224 .. 239, v \in 128 .. 191
          PROVE  2 * (u % 16) + ((v \div 32) % 2) \notin {0, 27}
                   <=> v \in SecondBytes(u)
      <3>1. u % 16 = u - 224
        BY <2>3
      <3>2. (v < 160 /\ (v \div 32) % 2 = 0) \/ (v >= 160 /\ (v \div 32) % 2 = 1)
        BY <2>3
      <3> QED
        BY <2>3, <3>1, <3>2 DEF SecondBytes
    <2>4. u \in 224 .. 239 /\ v \in SecondBytes(u) => v \in 128 .. 191
      BY DEF SecondBytes
    <2> QED
      BY <1>1, <2>1, <2>2, <2>3, <2>4 DEF Begins3
  <1>4. Begins4(u, v) <=> Announced(u) = 4 /\ v \in SecondBytes(u)
    <2>1. u \div 8 = 30 <=> u \in 240 .. 247
      BY DEF Byte
    <2>2. Announced(u) = 4 <=> u \in 240 .. 244
      BY DEF Announced, Byte
    <2>3. ASSUME u \in 240 .. 247, v \in 128 .. 191
          PROVE  4 * (u % 8) + ((v \div 16) % 4) \in 1 .. 16
                   <=> u <= 244 /\ v \in SecondBytes(u)
      <3>1. u % 8 = u - 240
        BY <2>3
      <3>2. \/ v < 144 /\ (v \div 16) % 4 = 0
            \/ v >= 144 /\ (v \div 16) % 4 \in 1 .. 3
        BY <2>3
      <3> QED
        BY <2>3, <3>1, <3>2 DEF SecondBytes
    <2>4. u \in 240 .. 244 /\ v \in SecondBytes(u) => v \in 128 .. 191
      BY DEF SecondBytes
    <2> QED
      BY <1>1, <2>1, <2>2, <2>3, <2>4 DEF Begins4
  <1> QED
    BY <1>1, <1>2, <1>3, <1>4

LEMMA AnnouncedFacts ==
    ASSUME NEW u \in Byte
    PROVE  /\ Announced(u) = 1 => u \in Nat /\ u <= 127
           /\ Announced(u) = 2 <=> u \in 194 .. 223
           /\ Announced(u) = 3 <=> u \in 224 .. 239
           /\ Announced(u) = 4 <=> u \in 240 .. 244
           /\ Announced(u) \in {0, 1, 2, 3, 4}
  BY DEF Announced, Byte

LEMMA SecondByteFacts ==
    ASSUME NEW u \in Byte, NEW v \in SecondBytes(u)
    PROVE  /\ v \in 128 .. 191
           /\ u = 224 => v >= 160
           /\ u = 237 => v < 160
           /\ u = 240 => v >= 144
           /\ u = 244 => v < 144
  BY DEF SecondBytes, Byte

LEMMA Continuation == \A v \in Byte : Continues(v) <=> v \in 128 .. 191
  BY FirstTwoBytes

LEMMA FollowsFacts ==
    ASSUME NEW s \in Seq(Byte), Len(s) \in 2 .. 4
    PROVE  Follows(s) <=> /\ s[2] \in SecondBytes(s[1])
                          /\ Len(s) >= 3 => s[3] \in 128 .. 191
                          /\ Len(s) = 4 => s[4] \in 128 .. 191
  <1> HIDE DEF Byte
  <1>1. Follows(s) <=> \A i \in 2 .. Len(s) :
                         /\ i = 2 => s[2] \in SecondBytes(s[1])
                         /\ i # 2 => s[i] \in 128 .. 191
    BY DEF Follows
  <1>2. CASE Len(s) = 2
    <2>1. 2 .. Len(s) = {2}
      BY <1>2
    <2> QED
      BY <1>1, <1>2, <2>1
  <1>3. CASE Len(s) = 3
    <2>1. 2 .. Len(s) = {2, 3}
      BY <1>3
    <2> QED
      BY <1>1, <1>3, <2>1
  <1>4. CASE Len(s) = 4
    <2>1. 2 .. Len(s) = {2, 3, 4}
      BY <1>4
    <2> QED
      BY <1>1, <1>4, <2>1
  <1> QED
    BY <1>2, <1>3, <1>4

\* What the tests say of the units of a sequence, in the words of the standard.
LEMMA UnitFacts ==
    ASSUME NEW s \in Seq(Byte), Len(s) \in 2 .. 4
    PROVE  /\ Begins2(s[1], s[2]) <=> Announced(s[1]) = 2 /\ s[2] \in SecondBytes(s[1])
           /\ Begins3(s[1], s[2]) <=> Announced(s[1]) = 3 /\ s[2] \in SecondBytes(s[1])
           /\ Begins4(s[1], s[2]) <=> Announced(s[1]) = 4 /\ s[2] \in SecondBytes(s[1])
           /\ Len(s) >= 3 => (Continues(s[3]) <=> s[3] \in 128 .. 191)
           /\ Len(s) = 4 => (Continues(s[4]) <=> s[4] \in 128 .. 191)
  <1>1. /\ s[1] \in Byte /\ s[2] \in Byte
        /\ Len(s) >= 3 => s[3] \in Byte
        /\ Len(s) = 4 => s[4] \in Byte
    <2> HIDE DEF Byte
    <2> QED
      OBVIOUS
  <1> QED
    BY <1>1, FirstTwoBytes, Continuation

\* UTF-8, two bytes and more: the masks of _parseMultipleCodeUnits accept the
\* well-formed sequences and no others (UTF8.swift:164-193 and 239-268).
THEOREM WholeSequences ==
    ASSUME NEW s \in Seq(Byte), Len(s) \in 2 .. 4
    PROVE  Complete("UTF8", s, Len(s)) <=> WellFormed("UTF8", s)
  <1> HIDE DEF Byte
  <1>1. WellFormed("UTF8", s) <=> Len(s) = Announced(s[1]) /\ Follows(s)
    BY DEF WellFormed
  <1>2. Complete("UTF8", s, Len(s)) <=>
          \/ Len(s) = 2 /\ Begins2(s[1], s[2])
          \/ Len(s) = 3 /\ Begins3(s[1], s[2]) /\ Continues(s[3])
          \/ Len(s) = 4 /\ Begins4(s[1], s[2]) /\ Continues(s[3]) /\ Continues(s[4])
    BY DEF Complete
  <1>3. /\ Begins2(s[1], s[2]) <=> Announced(s[1]) = 2 /\ s[2] \in SecondBytes(s[1])
        /\ Begins3(s[1], s[2]) <=> Announced(s[1]) = 3 /\ s[2] \in SecondBytes(s[1])
        /\ Begins4(s[1], s[2]) <=> Announced(s[1]) = 4 /\ s[2] \in SecondBytes(s[1])
        /\ Len(s) >= 3 => (Continues(s[3]) <=> s[3] \in 128 .. 191)
        /\ Len(s) = 4 => (Continues(s[4]) <=> s[4] \in 128 .. 191)
    BY UnitFacts
  <1>4. Follows(s) <=> /\ s[2] \in SecondBytes(s[1])
                       /\ Len(s) >= 3 => s[3] \in 128 .. 191
                       /\ Len(s) = 4 => s[4] \in 128 .. 191
    BY FollowsFacts
  <1>5. CASE Len(s) = 2
    BY <1>1, <1>2, <1>3, <1>4, <1>5
  <1>6. CASE Len(s) = 3
    BY <1>1, <1>2, <1>3, <1>4, <1>6
  <1>7. CASE Len(s) = 4
    BY <1>1, <1>2, <1>3, <1>4, <1>7
  <1> QED
    BY <1>5, <1>6, <1>7

\* The masks of _invalidLength accept what a well-formed sequence can begin with
\* (UTF8.swift:197-223 and 272-292).
THEOREM TruncatedSequences ==
    ASSUME NEW s \in Seq(Byte), Len(s) \in 2 .. 3
    PROVE  Incomplete("UTF8", s, Len(s)) <=> Truncated("UTF8", s)
  <1> HIDE DEF Byte
  <1>1. Announced(s[1]) \in {0, 1, 2, 3, 4}
    <2>1. s[1] \in Byte
      OBVIOUS
    <2> QED
      BY <2>1, AnnouncedFacts
  <1>2. Truncated("UTF8", s) <=> Len(s) < Announced(s[1]) /\ Follows(s)
    BY DEF Truncated
  <1>3. Incomplete("UTF8", s, Len(s)) <=>
          \/ Len(s) = 2 /\ (Begins3(s[1], s[2]) \/ Begins4(s[1], s[2]))
          \/ Len(s) = 3 /\ Begins4(s[1], s[2]) /\ Continues(s[3])
    BY DEF Incomplete
  <1>4. /\ Begins3(s[1], s[2]) <=> Announced(s[1]) = 3 /\ s[2] \in SecondBytes(s[1])
        /\ Begins4(s[1], s[2]) <=> Announced(s[1]) = 4 /\ s[2] \in SecondBytes(s[1])
        /\ Len(s) >= 3 => (Continues(s[3]) <=> s[3] \in 128 .. 191)
    BY UnitFacts
  <1>5. Follows(s) <=> /\ s[2] \in SecondBytes(s[1])
                       /\ Len(s) >= 3 => s[3] \in 128 .. 191
                       /\ Len(s) = 4 => s[4] \in 128 .. 191
    BY FollowsFacts
  <1>6. CASE Len(s) = 2
    BY <1>1, <1>2, <1>3, <1>4, <1>5, <1>6
  <1>7. CASE Len(s) = 3
    BY <1>1, <1>2, <1>3, <1>4, <1>5, <1>7
  <1> QED
    BY <1>6, <1>7

-----------------------------------------------------------------------------
(***************************************************************************)
(* Values.                                                                 *)
(***************************************************************************)
LEMMA Length1 ==
    ASSUME NEW s, Len(s) = 1
    PROVE  /\ Value("UTF8", s) = s[1]
           /\ DecodeUTF8(s) = s[1]
  <1>1. Value("UTF8", s) = s[1]
    BY SMT DEF Value
  <1>2. DecodeUTF8(s) = s[1]
    BY SMT DEF DecodeUTF8
  <1> QED
    BY <1>1, <1>2

LEMMA Length2 ==
    ASSUME NEW s, Len(s) = 2
    PROVE  /\ Value("UTF8", s) = 64 * (s[1] - 192) + (s[2] - 128)
           /\ DecodeUTF8(s) = 64 * (s[1] % 32) + (s[2] % 64)
  <1>1. Value("UTF8", s) = 64 * (s[1] - 192) + (s[2] - 128)
    BY SMT DEF Value
  <1>2. DecodeUTF8(s) = 64 * (s[1] % 32) + (s[2] % 64)
    BY SMT DEF DecodeUTF8
  <1> QED
    BY <1>1, <1>2

LEMMA Length3 ==
    ASSUME NEW s, Len(s) = 3
    PROVE  /\ Value("UTF8", s) = 4096 * (s[1] - 224) + 64 * (s[2] - 128) + (s[3] - 128)
           /\ DecodeUTF8(s) = 4096 * (s[1] % 16) + 64 * (s[2] % 64) + (s[3] % 64)
  <1>1. Value("UTF8", s) = 4096 * (s[1] - 224) + 64 * (s[2] - 128) + (s[3] - 128)
    BY SMT DEF Value
  <1>2. DecodeUTF8(s) = 4096 * (s[1] % 16) + 64 * (s[2] % 64) + (s[3] % 64)
    BY SMT DEF DecodeUTF8
  <1> QED
    BY <1>1, <1>2

LEMMA Length4 ==
    ASSUME NEW s, Len(s) = 4
    PROVE  /\ Value("UTF8", s) = 262144 * (s[1] - 240) + 4096 * (s[2] - 128)
                                 + 64 * (s[3] - 128) + (s[4] - 128)
           /\ DecodeUTF8(s) = 262144 * (s[1] % 8) + 4096 * (s[2] % 64)
                                 + 64 * (s[3] % 64) + (s[4] % 64)
  <1>1. Value("UTF8", s) = 262144 * (s[1] - 240) + 4096 * (s[2] - 128)
                                 + 64 * (s[3] - 128) + (s[4] - 128)
    BY SMT DEF Value
  <1>2. DecodeUTF8(s) = 262144 * (s[1] % 8) + 4096 * (s[2] % 64)
                                 + 64 * (s[3] % 64) + (s[4] % 64)
    BY SMT DEF DecodeUTF8
  <1> QED
    BY <1>1, <1>2

\* A Unicode scalar value: Unicode.Scalar's initialiser asserts it.
ScalarValue(v) == v \in Nat /\ v <= 1114111 /\ ~ (v >= 55296 /\ v <= 57343)

\* Decoding and value by length: a continuation byte carries its six low bits,
\* a leading byte those below its announcement; the ranges of the lengths lie
\* next to each other and leave out the surrogates.
LEMMA Decodes2 ==
    ASSUME NEW s, Len(s) = 2, s[1] \in 194 .. 223, s[2] \in 128 .. 191
    PROVE  DecodeUTF8(s) = Value("UTF8", s) /\ ScalarValue(Value("UTF8", s))
  <1> DEFINE a == s[1]
             b == s[2]
             v == Value("UTF8", s)
  <1>1. a \in 194 .. 223 /\ b \in 128 .. 191
    OBVIOUS
  <1>2. v = 64 * (a - 192) + (b - 128) /\ DecodeUTF8(s) = 64 * (a % 32) + (b % 64)
    BY Length2
  <1> HIDE DEF a, b, v
  <1>3. a % 32 = a - 192 /\ b % 64 = b - 128
    BY <1>1, SMT
  <1>4. 64 * (a - 192) + (b - 128) >= 0 /\ 64 * (a - 192) + (b - 128) <= 2047
    BY <1>1, SMT
  <1>5. v \in Int /\ v >= 0 /\ v <= 2047
    BY <1>1, <1>2, <1>4, SMT
  <1>6. ScalarValue(v)
    BY <1>5, SMT DEF ScalarValue
  <1>7. DecodeUTF8(s) = v
    BY <1>2, <1>3
  <1> QED
    BY <1>6, <1>7 DEF v

LEMMA Decodes3 ==
    ASSUME NEW s, Len(s) = 3, s[1] \in 224 .. 239, s[2] \in 128 .. 191, s[3] \in 128 .. 191,
           s[1] = 237 => s[2] < 160
    PROVE  DecodeUTF8(s) = Value("UTF8", s) /\ ScalarValue(Value("UTF8", s))
  <1> DEFINE a == s[1]
             b == s[2]
             c == s[3]
             v == Value("UTF8", s)
  <1>1. a \in 224 .. 239 /\ b \in 128 .. 191 /\ c \in 128 .. 191 /\ (a = 237 => b < 160)
    OBVIOUS
  <1>2. /\ v = 4096 * (a - 224) + 64 * (b - 128) + (c - 128)
        /\ DecodeUTF8(s) = 4096 * (a % 16) + 64 * (b % 64) + (c % 64)
    BY Length3
  <1> HIDE DEF a, b, c, v
  <1>3. a % 16 = a - 224 /\ b % 64 = b - 128 /\ c % 64 = c - 128
    BY <1>1, SMT
  <1> DEFINE w == 4096 * (a - 224) + 64 * (b - 128) + (c - 128)
  <1>4. w >= 0 /\ w <= 65535 /\ ~ (w >= 55296 /\ w <= 57343)
    BY <1>1, SMT
  <1>5. w \in Int
    BY <1>1, SMT
  <1> HIDE DEF w
  <1>6. ScalarValue(w)
    BY <1>4, <1>5, SMT DEF ScalarValue
  <1>7. v = w /\ DecodeUTF8(s) = w
    BY <1>2, <1>3 DEF w
  <1> QED
    BY <1>6, <1>7 DEF v

LEMMA Decodes4 ==
    ASSUME NEW s, Len(s) = 4, s[1] \in 240 .. 244, s[2] \in 128 .. 191,
           s[3] \in 128 .. 191, s[4] \in 128 .. 191,
           s[1] = 240 => s[2] >= 144,
           s[1] = 244 => s[2] < 144
    PROVE  DecodeUTF8(s) = Value("UTF8", s) /\ ScalarValue(Value("UTF8", s))
  <1> DEFINE a == s[1]
             b == s[2]
             c == s[3]
             d == s[4]
             v == Value("UTF8", s)
  <1>1. /\ a \in 240 .. 244 /\ b \in 128 .. 191 /\ c \in 128 .. 191 /\ d \in 128 .. 191
        /\ a = 240 => b >= 144
        /\ a = 244 => b < 144
    OBVIOUS
  <1>2. /\ v = 262144 * (a - 240) + 4096 * (b - 128) + 64 * (c - 128) + (d - 128)
        /\ DecodeUTF8(s) = 262144 * (a % 8) + 4096 * (b % 64) + 64 * (c % 64) + (d % 64)
    BY Length4
  <1> HIDE DEF a, b, c, d, v
  <1>3. a % 8 = a - 240 /\ b % 64 = b - 128 /\ c % 64 = c - 128 /\ d % 64 = d - 128
    BY <1>1, SMT
  <1> DEFINE w == 262144 * (a - 240) + 4096 * (b - 128) + 64 * (c - 128) + (d - 128)
  <1>4. w > 57343 /\ w <= 1114111
    BY <1>1, SMT
  <1>5. w \in Int
    BY <1>1, SMT
  <1> HIDE DEF w
  <1>6. ScalarValue(w)
    BY <1>4, <1>5, SMT DEF ScalarValue
  <1>7. v = w /\ DecodeUTF8(s) = w
    BY <1>2, <1>3 DEF w
  <1> QED
    BY <1>6, <1>7 DEF v

\* What makes a sequence of each length well-formed.
LEMMA Parts ==
    ASSUME NEW s \in Seq(Byte)
    PROVE  /\ Len(s) = 1 /\ WellFormed("UTF8", s) => s[1] \in Nat /\ s[1] <= 127
           /\ Len(s) = 2 /\ WellFormed("UTF8", s) =>
                s[1] \in 194 .. 223 /\ s[2] \in 128 .. 191
           /\ Len(s) = 3 /\ WellFormed("UTF8", s) =>
                /\ s[1] \in 224 .. 239 /\ s[2] \in 128 .. 191 /\ s[3] \in 128 .. 191
                /\ s[1] = 224 => s[2] >= 160
                /\ s[1] = 237 => s[2] < 160
           /\ Len(s) = 4 /\ WellFormed("UTF8", s) =>
                /\ s[1] \in 240 .. 244 /\ s[2] \in 128 .. 191
                /\ s[3] \in 128 .. 191 /\ s[4] \in 128 .. 191
                /\ s[1] = 240 => s[2] >= 144
                /\ s[1] = 244 => s[2] < 144
  <1> HIDE DEF Byte
  <1>1. WellFormed("UTF8", s) => Len(s) = Announced(s[1]) /\ Follows(s)
    BY DEF WellFormed
  <1>2. ASSUME Len(s) \in 1 .. 4
        PROVE  s[1] \in Byte
    BY <1>2
  <1>3. ASSUME Len(s) \in 2 .. 4, s[2] \in SecondBytes(s[1])
        PROVE  /\ s[2] \in 128 .. 191
               /\ s[1] = 224 => s[2] >= 160
               /\ s[1] = 237 => s[2] < 160
               /\ s[1] = 240 => s[2] >= 144
               /\ s[1] = 244 => s[2] < 144
    <2>1. s[1] \in Byte
      BY <1>3
    <2> QED
      BY <1>3, <2>1, SecondByteFacts
  <1>4. ASSUME Len(s) = 1, WellFormed("UTF8", s)
        PROVE  s[1] \in Nat /\ s[1] <= 127
    <2>1. 1 = Announced(s[1]) /\ s[1] \in Byte
      BY <1>1, <1>2, <1>4
    <2> QED
      BY <2>1, AnnouncedFacts
  <1>5. ASSUME Len(s) = 2, WellFormed("UTF8", s)
        PROVE  s[1] \in 194 .. 223 /\ s[2] \in 128 .. 191
    <2>1. 2 = Announced(s[1]) /\ s[1] \in Byte
      BY <1>1, <1>2, <1>5
    <2>2. s[1] \in 194 .. 223
      BY <2>1, AnnouncedFacts
    <2>3. s[2] \in SecondBytes(s[1])
      BY <1>1, <1>5, FollowsFacts
    <2> QED
      BY <1>3, <1>5, <2>2, <2>3
  <1>6. ASSUME Len(s) = 3, WellFormed("UTF8", s)
        PROVE  /\ s[1] \in 224 .. 239 /\ s[2] \in 128 .. 191 /\ s[3] \in 128 .. 191
               /\ s[1] = 224 => s[2] >= 160
               /\ s[1] = 237 => s[2] < 160
    <2>1. 3 = Announced(s[1]) /\ s[1] \in Byte
      BY <1>1, <1>2, <1>6
    <2>2. s[1] \in 224 .. 239
      BY <2>1, AnnouncedFacts
    <2>3. s[2] \in SecondBytes(s[1]) /\ s[3] \in 128 .. 191
      <3>1. Len(s) \in 2 .. 4 /\ Len(s) >= 3 /\ Follows(s)
        BY <1>1, <1>6
      <3> QED
        BY <3>1, FollowsFacts
    <2> QED
      BY <1>3, <1>6, <2>2, <2>3
  <1>7. ASSUME Len(s) = 4, WellFormed("UTF8", s)
        PROVE  /\ s[1] \in 240 .. 244 /\ s[2] \in 128 .. 191
               /\ s[3] \in 128 .. 191 /\ s[4] \in 128 .. 191
               /\ s[1] = 240 => s[2] >= 144
               /\ s[1] = 244 => s[2] < 144
    <2>1. 4 = Announced(s[1]) /\ s[1] \in Byte
      BY <1>1, <1>2, <1>7
    <2>2. s[1] \in 240 .. 244
      BY <2>1, AnnouncedFacts
    <2>3. s[2] \in SecondBytes(s[1]) /\ s[3] \in 128 .. 191 /\ s[4] \in 128 .. 191
      <3>1. Len(s) \in 2 .. 4 /\ Len(s) >= 3 /\ Len(s) = 4 /\ Follows(s)
        BY <1>1, <1>7
      <3> QED
        BY <3>1, FollowsFacts
    <2> QED
      BY <1>3, <1>7, <2>2, <2>3
  <1> QED
    BY <1>4, <1>5, <1>6, <1>7

\* UTF-8: decode gives a well-formed sequence its value, and that value is a
\* scalar: what Unicode.Scalar's initialiser asserts (UTF8.swift:52-78,
\* Unicode.swift:303).
THEOREM DecodesTheValue ==
    ASSUME NEW s \in Seq(Byte), Len(s) \in 1 .. 4
    PROVE  WellFormed("UTF8", s) => /\ DecodeUTF8(s) = Value("UTF8", s)
                                    /\ ScalarValue(Value("UTF8", s))
  <1> HIDE DEF Byte
  <1>1. ASSUME Len(s) = 1, WellFormed("UTF8", s)
        PROVE  DecodeUTF8(s) = Value("UTF8", s) /\ ScalarValue(Value("UTF8", s))
    <2>1. s[1] \in Nat /\ s[1] <= 127
      BY <1>1, Parts
    <2>2. DecodeUTF8(s) = s[1] /\ Value("UTF8", s) = s[1]
      BY <1>1, Length1
    <2>3. ScalarValue(s[1])
      BY <2>1, SMT DEF ScalarValue
    <2> QED
      BY <2>2, <2>3
  <1>2. ASSUME Len(s) = 2, WellFormed("UTF8", s)
        PROVE  DecodeUTF8(s) = Value("UTF8", s) /\ ScalarValue(Value("UTF8", s))
    <2>1. s[1] \in 194 .. 223 /\ s[2] \in 128 .. 191
      BY <1>2, Parts
    <2> QED
      BY <1>2, <2>1, Decodes2
  <1>3. ASSUME Len(s) = 3, WellFormed("UTF8", s)
        PROVE  DecodeUTF8(s) = Value("UTF8", s) /\ ScalarValue(Value("UTF8", s))
    <2>1. /\ s[1] \in 224 .. 239 /\ s[2] \in 128 .. 191 /\ s[3] \in 128 .. 191
          /\ s[1] = 237 => s[2] < 160
      BY <1>3, Parts
    <2> QED
      BY <1>3, <2>1, Decodes3
  <1>4. ASSUME Len(s) = 4, WellFormed("UTF8", s)
        PROVE  DecodeUTF8(s) = Value("UTF8", s) /\ ScalarValue(Value("UTF8", s))
    <2>1. /\ s[1] \in 240 .. 244 /\ s[2] \in 128 .. 191
          /\ s[3] \in 128 .. 191 /\ s[4] \in 128 .. 191
          /\ s[1] = 240 => s[2] >= 144
          /\ s[1] = 244 => s[2] < 144
      BY <1>4, Parts
    <2> QED
      BY <1>4, <2>1, Decodes4
  <1>5. Len(s) = 1 \/ Len(s) = 2 \/ Len(s) = 3 \/ Len(s) = 4
    OBVIOUS
  <1> QED
    BY <1>1, <1>2, <1>3, <1>4, <1>5

-----------------------------------------------------------------------------
(***************************************************************************)
(* Segments.  The recursion goes from the end of the text to its           *)
(* beginning; next[i] is where the element that starts at i ends.          *)
(***************************************************************************)
Recursion(N, head, next, f) ==
    f = [i \in 1 .. N + 1 |-> IF i > N THEN <<>> ELSE <<head[i]>> \o f[next[i]]]

\* There is such a function: TLA+ would leave a CHOOSE without one unspecified.
LEMMA RecursionFromTheEnd ==
    ASSUME NEW N \in Nat, NEW head, NEW next,
           \A i \in 1 .. N : next[i] \in Int /\ i < next[i] /\ next[i] <= N + 1
    PROVE  \E f : Recursion(N, head, next, f)
  <1> DEFINE S == {k \in 1 .. N + 1 :
                     \E g : g = [i \in k .. N + 1 |->
                                   IF i > N THEN <<>> ELSE <<head[i]>> \o g[next[i]]]}
  <1>1. N + 1 \in S
    <2> DEFINE g == [i \in N + 1 .. N + 1 |-> <<>>]
    <2>1. g = [i \in N + 1 .. N + 1 |-> IF i > N THEN <<>> ELSE <<head[i]>> \o g[next[i]]]
      <3>1. \A i \in N + 1 .. N + 1 : i > N
        OBVIOUS
      <3> QED
        BY <3>1
    <2>2. N + 1 \in 1 .. N + 1
      OBVIOUS
    <2> QED
      BY <2>1, <2>2
  <1>2. ASSUME NEW k \in Int, 1 < k, k <= N + 1, k \in S PROVE k - 1 \in S
    <2>1. PICK g : g = [i \in k .. N + 1 |-> IF i > N THEN <<>> ELSE <<head[i]>> \o g[next[i]]]
      BY <1>2
    <2> DEFINE j == k - 1
               h == [i \in j .. N + 1 |-> IF i = j THEN <<head[j]>> \o g[next[j]] ELSE g[i]]
    <2>2. /\ j \in 1 .. N + 1 /\ ~(j > N) /\ j \in 1 .. N
          /\ \A i \in j .. N + 1 : i = j \/ i \in k .. N + 1
          /\ \A i \in k .. N + 1 : i # j /\ i \in j .. N + 1
          /\ \A i \in k .. N + 1 : ~(i > N) => i \in 1 .. N
      BY <1>2
    <2>3. \A i \in j .. N + 1 : ~(i > N) => next[i] \in k .. N + 1
      BY <1>2
    <2>4. \A i \in k .. N + 1 : h[i] = g[i]
      BY <2>2
    <2>5. ASSUME NEW i \in j .. N + 1
          PROVE  h[i] = IF i > N THEN <<>> ELSE <<head[i]>> \o h[next[i]]
      <3>1. CASE i = j
        <4>1. h[i] = <<head[i]>> \o g[next[i]]
          BY <3>1
        <4> QED
          BY <3>1, <4>1, <2>2, <2>3, <2>4
      <3>2. CASE i # j
        <4>1. i \in k .. N + 1 /\ h[i] = g[i]
          BY <2>2, <2>4, <3>2
        <4>2. g[i] = IF i > N THEN <<>> ELSE <<head[i]>> \o g[next[i]]
          BY <2>1, <4>1
        <4> QED
          BY <2>3, <2>4, <4>1, <4>2
      <3> QED
        BY <3>1, <3>2
    <2>6. h = [i \in j .. N + 1 |-> IF i > N THEN <<>> ELSE <<head[i]>> \o h[next[i]]]
      <3>1. h = [i \in j .. N + 1 |-> h[i]]
        OBVIOUS
      <3> HIDE DEF h
      <3> QED
        BY <2>5, <3>1
    <2> QED
      BY <2>2, <2>6
  <1>3. 1 \in S
    <2>1. \A n \in Int : 1 <= n /\ n <= N + 1 => n \in S
      <3> HIDE DEF S
      <3>1. 1 \in Int /\ N + 1 \in Int
        OBVIOUS
      <3>2. \A n \in Int : 1 < n /\ n <= N + 1 /\ n \in S => n - 1 \in S
        BY <1>2
      <3> QED
        BY <1>1, <3>1, <3>2, DownwardInduct
    <2> QED
      BY <2>1
  <1> QED
    BY <1>3 DEF Recursion

(***************************************************************************)
(* D is the division that starts at i, and its element k starts at p[k].   *)
(***************************************************************************)
Division(N, head, next, i, D, p) ==
    /\ p[1] = i /\ p[Len(D) + 1] = N + 1
    /\ \A k \in 1 .. Len(D) + 1 : p[k] \in Int
    /\ \A k \in 1 .. Len(D) : /\ p[k] >= 1 /\ p[k] <= N
                              /\ D[k] = head[p[k]] /\ p[k + 1] = next[p[k]]

\* Every such function divides what it is applied to.
LEMMA RecursionDivides ==
    ASSUME NEW N \in Nat, NEW Elem, NEW head \in [1 .. N -> Elem], NEW next,
           \A i \in 1 .. N : next[i] \in Int /\ i < next[i] /\ next[i] <= N + 1,
           NEW f, Recursion(N, head, next, f)
    PROVE  f[1] \in Seq(Elem) /\ \E p : Division(N, head, next, 1, f[1], p)
  <1> DEFINE S == {i \in 1 .. N + 1 : f[i] \in Seq(Elem) /\ \E p : Division(N, head, next, i, f[i], p)}
  <1>0. \A i \in 1 .. N + 1 : f[i] = IF i > N THEN <<>> ELSE <<head[i]>> \o f[next[i]]
    BY DEF Recursion
  <1>1. ASSUME NEW i \in Int, 1 <= i, i <= N + 1,
               \A m \in Int : i < m /\ m <= N + 1 => m \in S
        PROVE  i \in S
    <2>1. CASE i = N + 1
      <3>0. i \in 1 .. N + 1 /\ i > N
        BY <1>1, <2>1
      <3>1. i \in 1 .. N + 1 /\ i > N /\ f[i] = <<>>
        BY <1>0, <3>0
      <3>2. Len(<<>>) = 0 /\ 1 .. 0 = {} /\ 1 .. 0 + 1 = {1} /\ 0 + 1 = 1 /\ <<>> \in Seq(Elem)
        OBVIOUS
      <3>3. PICK p : p = [k \in {1} |-> i]
        OBVIOUS
      <3>4. Division(N, head, next, i, <<>>, p)
        BY <2>1, <3>2, <3>3 DEF Division
      <3> QED
        BY <3>1, <3>2, <3>4
    <2>2. CASE i # N + 1
      <3>1. i \in 1 .. N /\ i \in 1 .. N + 1 /\ ~(i > N) /\ head[i] \in Elem
        BY <1>1, <2>2
      <3>2. PICK j : j = next[i]
        OBVIOUS
      <3>3. j \in Int /\ i < j /\ j <= N + 1 /\ j \in S
        BY <1>1, <3>1, <3>2
      <3>4. PICK T \in Seq(Elem) : T = f[j]
        BY <3>3
      <3>5. PICK q : Division(N, head, next, j, T, q)
        BY <3>3, <3>4
      <3>6. PICK n \in Nat : n = Len(T)
        BY LenProperties
      <3>7. PICK D : D = <<head[i]>> \o T
        OBVIOUS
      <3>8. f[i] = D
        BY <1>0, <3>1, <3>2, <3>4, <3>7
      <3>9. /\ D \in Seq(Elem) /\ Len(D) = n + 1 /\ D[1] = head[i]
            /\ \A k \in 1 .. n : D[k + 1] = T[k]
        <4>1. <<head[i]>> \in Seq(Elem) /\ Len(<<head[i]>>) = 1 /\ <<head[i]>>[1] = head[i]
          BY <3>1
        <4>2. /\ D \in Seq(Elem) /\ Len(D) = 1 + n
              /\ \A k \in 1 .. 1 + n : D[k] = IF k <= 1 THEN <<head[i]>>[k] ELSE T[k - 1]
          BY <3>6, <3>7, <4>1, ConcatProperties
        <4>3. D[1] = head[i]
          BY <4>1, <4>2
        <4>4. \A k \in 1 .. n : k + 1 \in 1 .. 1 + n /\ ~(k + 1 <= 1) /\ (k + 1) - 1 = k
          OBVIOUS
        <4> QED
          BY <4>2, <4>3, <4>4
      <3>10. PICK p : p = [k \in 1 .. n + 2 |-> IF k = 1 THEN i ELSE q[k - 1]]
        OBVIOUS
      <3>11. /\ p[1] = i
             /\ \A k \in 1 .. n + 1 : p[k + 1] = q[k]
        <4>1. 1 \in 1 .. n + 2 /\ \A k \in 1 .. n + 1 : k + 1 \in 1 .. n + 2 /\ k + 1 # 1 /\ (k + 1) - 1 = k
          OBVIOUS
        <4> QED
          BY <3>10, <4>1
      <3>12. /\ q[1] = j /\ q[n + 1] = N + 1
             /\ \A k \in 1 .. n + 1 : q[k] \in Int
             /\ \A k \in 1 .. n : /\ q[k] >= 1 /\ q[k] <= N
                                  /\ T[k] = head[q[k]] /\ q[k + 1] = next[q[k]]
        BY <3>5, <3>6 DEF Division
      <3>13. ASSUME NEW k \in 1 .. n + 1
             PROVE  /\ p[k] >= 1 /\ p[k] <= N
                    /\ D[k] = head[p[k]] /\ p[k + 1] = next[p[k]]
        <4>1. CASE k = 1
          <5>1. p[1 + 1] = q[1]
            BY <3>11
          <5> QED
            BY <3>1, <3>2, <3>9, <3>11, <3>12, <4>1, <5>1
        <4>2. CASE k # 1
          <5>1. PICK m \in 1 .. n : k = m + 1
            <6>1. k - 1 \in 1 .. n /\ k = (k - 1) + 1
              BY <4>2
            <6> QED
              BY <6>1
          <5>2. p[m + 1] = q[m] /\ p[(m + 1) + 1] = q[m + 1] /\ D[m + 1] = T[m]
            <6>1. m \in 1 .. n + 1 /\ m + 1 \in 1 .. n + 1
              OBVIOUS
            <6> QED
              BY <3>9, <3>11, <6>1
          <5> QED
            BY <3>12, <5>1, <5>2
        <4> QED
          BY <4>1, <4>2
      <3>14. p[(n + 1) + 1] = N + 1
        BY <3>11, <3>12
      <3>15. \A k \in 1 .. (n + 1) + 1 : p[k] \in Int
        <4> SUFFICES ASSUME NEW k \in 1 .. (n + 1) + 1 PROVE p[k] \in Int
          OBVIOUS
        <4>1. CASE k = 1
          BY <3>1, <3>11, <4>1
        <4>2. CASE k # 1
          <5>1. PICK m \in 1 .. n + 1 : k = m + 1
            <6>1. k - 1 \in 1 .. n + 1 /\ k = (k - 1) + 1
              BY <4>2
            <6> QED
              BY <6>1
          <5>2. p[m + 1] = q[m] /\ q[m] \in Int
            BY <3>11, <3>12
          <5> QED
            BY <5>1, <5>2
        <4> QED
          BY <4>1, <4>2
      <3>16. Division(N, head, next, i, D, p)
        BY <3>9, <3>11, <3>13, <3>14, <3>15 DEF Division
      <3> QED
        BY <3>1, <3>8, <3>9, <3>16
    <2> QED
      BY <2>1, <2>2
  <1>2. 1 \in S
    <2>1. \A n \in Int : 1 <= n /\ n <= N + 1 => n \in S
      <3> HIDE DEF S
      <3>1. 1 \in Int /\ N + 1 \in Int
        OBVIOUS
      <3>2. \A n \in Int : /\ 1 <= n /\ n <= N + 1
                           /\ \A m \in Int : n < m /\ m <= N + 1 => m \in S
                           => n \in S
        BY <1>1
      <3> QED
        BY <3>1, <3>2, StrongDownwardInduct
    <2> QED
      BY <2>1
  <1> QED
    BY <1>2

-----------------------------------------------------------------------------
(***************************************************************************)
(* The standard's sequences.  The first unit of one determines its length, *)
(* and only the units behind the first are trailing ones.                  *)
(***************************************************************************)
Piece(t, i, n) == SubSeq(t, i, i + n - 1)

Span(e, u) ==
    IF e = "UTF8" THEN Announced(u)
    ELSE IF u \in LeadSurrogates THEN 2 ELSE IF u \in TrailSurrogates THEN 0 ELSE 1

Trailing(e, u) == IF e = "UTF8" THEN u \in 128 .. 191 ELSE u \in TrailSurrogates

\* A part of a text.
LEMMA PieceFacts ==
    ASSUME NEW X, NEW t \in Seq(X), NEW i \in Int, 1 <= i, NEW n \in Nat, i + n - 1 <= Len(t)
    PROVE  /\ Piece(t, i, n) \in Seq(X) /\ Len(Piece(t, i, n)) = n
           /\ \A j \in 1 .. n : Piece(t, i, n)[j] = t[i + j - 1]
  <1>1. PICK m \in Int : m = i + n - 1
    OBVIOUS
  <1>2. Piece(t, i, n) = SubSeq(t, i, m)
    BY <1>1 DEF Piece
  <1>3. \A j \in i .. m : t[j] \in X
    <2>1. Len(t) \in Nat
      BY LenProperties
    <2>2. \A j \in i .. m : j \in 1 .. Len(t)
      BY <1>1, <2>1
    <2> QED
      BY <2>2, ElementOfSeq
  <1>4. /\ SubSeq(t, i, m) \in Seq(X)
        /\ Len(SubSeq(t, i, m)) = IF i <= m THEN m - i + 1 ELSE 0
        /\ \A j \in 1 .. m - i + 1 : SubSeq(t, i, m)[j] = t[i + j - 1]
    BY <1>3, SubSeqProperties
  <1>5. (IF i <= m THEN m - i + 1 ELSE 0) = n /\ m - i + 1 = n
    BY <1>1
  <1> QED
    BY <1>2, <1>4, <1>5

\* The definitions of the standard, encoding by encoding.
LEMMA Meaning16 ==
    ASSUME NEW s
    PROVE  /\ ~Truncated("UTF16", s)
           /\ WellFormed("UTF16", s) <=>
                \/ Len(s) = 1 /\ ~(s[1] \in Surrogates)
                \/ Len(s) = 2 /\ s[1] \in LeadSurrogates /\ s[2] \in TrailSurrogates
  <1>1. ~Truncated("UTF16", s)
    BY DEF Truncated
  <1>2. WellFormed("UTF16", s) <=>
          \/ Len(s) = 1 /\ ~(s[1] \in Surrogates)
          \/ Len(s) = 2 /\ s[1] \in LeadSurrogates /\ s[2] \in TrailSurrogates
    BY DEF WellFormed
  <1> QED
    BY <1>1, <1>2

LEMMA Meaning8 ==
    ASSUME NEW s
    PROVE  /\ WellFormed("UTF8", s) <=> Len(s) = Announced(s[1]) /\ Follows(s)
           /\ Truncated("UTF8", s) <=> Len(s) < Announced(s[1]) /\ Follows(s)
  <1>1. WellFormed("UTF8", s) <=> Len(s) = Announced(s[1]) /\ Follows(s)
    BY DEF WellFormed
  <1>2. Truncated("UTF8", s) <=> Len(s) < Announced(s[1]) /\ Follows(s)
    BY DEF Truncated
  <1> QED
    BY <1>1, <1>2

\* The kinds of UTF-16 units.
LEMMA UnitRanges ==
    ASSUME NEW u \in Int
    PROVE  /\ u \in LeadSurrogates <=> 55296 <= u /\ u <= 56319
           /\ u \in TrailSurrogates <=> 56320 <= u /\ u <= 57343
           /\ u \in Surrogates <=> 55296 <= u /\ u <= 57343
  BY DEF LeadSurrogates, TrailSurrogates, Surrogates

LEMMA UnitKinds ==
    ASSUME NEW u \in Int
    PROVE  /\ u \in LeadSurrogates => ~(u \in TrailSurrogates) /\ u \in Surrogates
           /\ u \in TrailSurrogates => ~(u \in LeadSurrogates) /\ u \in Surrogates
           /\ u \in Surrogates => u \in LeadSurrogates \/ u \in TrailSurrogates
  BY UnitRanges

LEMMA UnitBounds ==
    /\ \A en \in Encodings : MaxUnit(en) \in Nat
    /\ MaxUnit("UTF8") = 255 /\ MaxUnit("UTF16") = 65535
  BY DEF MaxUnit

LEMMA UnitsAreNumbers == \A en \in Encodings : \A u \in Units(en) : u \in Int
  BY UnitBounds DEF Units

LEMMA ZeroIsAUnit == \A en \in Encodings : 0 \in Units(en)
  <1> SUFFICES ASSUME NEW en \in Encodings PROVE 0 \in Units(en)
    OBVIOUS
  <1>1. PICK m \in Nat : m = MaxUnit(en)
    BY UnitBounds
  <1>2. 0 \in 0 .. m
    OBVIOUS
  <1> QED
    BY <1>1, <1>2 DEF Units

\* A byte that leads a sequence does not continue one.
LEMMA LeadingByte ==
    ASSUME NEW u \in Byte, Announced(u) # 0
    PROVE  ~(u \in 128 .. 191)
  BY DEF Announced, Byte

\* A well-formed sequence has the length that its first unit announces, a
\* truncated one is shorter.
LEMMA SpanFacts ==
    ASSUME NEW e \in Encodings, NEW s \in Seq(Units(e)), Len(s) >= 1
    PROVE  /\ Span(e, s[1]) \in 0 .. 4
           /\ WellFormed(e, s) => Len(s) = Span(e, s[1])
           /\ Truncated(e, s) => Len(s) < Span(e, s[1])
           /\ e = "UTF16" /\ WellFormed(e, s) => Len(s) <= 2
  <1>1. Len(s) \in Nat /\ s[1] \in Units(e)
    BY LenProperties, ElementOfSeq
  <1>2. CASE e = "UTF8"
    <2>1. s[1] \in Byte
      BY <1>1, <1>2 DEF Units, MaxUnit, Byte
    <2>2. Announced(s[1]) \in 0 .. 4 /\ Span(e, s[1]) = Announced(s[1])
      BY <1>2, <2>1, AnnouncedFacts DEF Span
    <2> QED
      BY <1>2, <2>2, Meaning8
  <1>3. CASE e = "UTF16"
    <2>1. Span(e, s[1]) = IF s[1] \in LeadSurrogates THEN 2 ELSE IF s[1] \in TrailSurrogates THEN 0 ELSE 1
      BY <1>3 DEF Span
    <2>2. s[1] \in Int
      BY <1>1, UnitsAreNumbers
    <2>3. /\ ~Truncated(e, s)
          /\ WellFormed(e, s) => \/ Len(s) = 1 /\ ~(s[1] \in Surrogates)
                                 \/ Len(s) = 2 /\ s[1] \in LeadSurrogates
      BY <1>3, Meaning16
    <2>4. /\ s[1] \in LeadSurrogates => s[1] \in Surrogates
          /\ s[1] \in TrailSurrogates => s[1] \in Surrogates /\ ~(s[1] \in LeadSurrogates)
          /\ s[1] \in Surrogates => s[1] \in LeadSurrogates \/ s[1] \in TrailSurrogates
      BY <2>2, UnitKinds
    <2>5. Span(e, s[1]) = 0 \/ Span(e, s[1]) = 1 \/ Span(e, s[1]) = 2
      BY <2>1
    <2>6. WellFormed(e, s) => Len(s) = Span(e, s[1])
      BY <2>1, <2>3, <2>4
    <2>7. Span(e, s[1]) \in 0 .. 4
      BY <2>5
    <2>8. WellFormed(e, s) => Len(s) <= 2
      BY <2>5, <2>6
    <2> QED
      BY <2>3, <2>6, <2>7, <2>8
  <1> QED
    BY <1>2, <1>3 DEF Encodings

\* Trailing units are exactly those behind the first.
LEMMA TrailingFacts ==
    ASSUME NEW e \in Encodings, NEW s \in Seq(Units(e)), Len(s) >= 1,
           WellFormed(e, s) \/ Truncated(e, s)
    PROVE  /\ ~Trailing(e, s[1])
           /\ \A j \in 2 .. Len(s) : Trailing(e, s[j])
  <1>1. Len(s) \in Nat /\ s[1] \in Units(e)
    BY LenProperties, ElementOfSeq
  <1>2. CASE e = "UTF8"
    <2>1. s[1] \in Byte
      BY <1>1, <1>2 DEF Units, MaxUnit, Byte
    <2>2. Announced(s[1]) \in 0 .. 4 /\ Announced(s[1]) # 0 /\ Follows(s)
      <3>1. Announced(s[1]) \in 0 .. 4
        BY <2>1, AnnouncedFacts
      <3> QED
        BY <1>1, <1>2, <3>1, Meaning8
    <2>3. ~(s[1] \in 128 .. 191)
      BY <2>1, <2>2, LeadingByte
    <2>4. \A j \in 2 .. Len(s) : s[j] \in 128 .. 191
      BY <2>1, <2>2, SecondByteFacts DEF Follows
    <2> QED
      BY <1>2, <2>3, <2>4 DEF Trailing
  <1>3. CASE e = "UTF16"
    <2>1. \/ Len(s) = 1 /\ ~(s[1] \in Surrogates)
          \/ Len(s) = 2 /\ s[1] \in LeadSurrogates /\ s[2] \in TrailSurrogates
      BY <1>3, Meaning16
    <2>0. \A u : Trailing(e, u) <=> u \in TrailSurrogates
      BY <1>3 DEF Trailing
    <2>4. s[1] \in Int
      BY <1>1, UnitsAreNumbers
    <2>2. CASE Len(s) = 1
      <3>1. 2 .. Len(s) = {}
        BY <2>2
      <3> QED
        BY <2>0, <2>1, <2>2, <2>4, <3>1, UnitKinds
    <2>3. CASE Len(s) = 2 /\ s[1] \in LeadSurrogates /\ s[2] \in TrailSurrogates
      <3>1. 2 .. Len(s) = {2}
        BY <2>3
      <3> QED
        BY <2>0, <2>3, <2>4, <3>1, UnitKinds
    <2> QED
      BY <2>1, <2>2, <2>3
  <1> QED
    BY <1>2, <1>3 DEF Encodings

(***************************************************************************)
(* The element that starts at i: the well-formed sequence there if there   *)
(* is one, or else the longest truncated one, or else one unit.            *)
(***************************************************************************)
Element(e) == [valid : BOOLEAN, length : 1 .. 4, scalar : Seq(Units(e))]

LEMMA LeastOfTwo ==
    ASSUME NEW m \in Int
    PROVE  Min({4, m}) \in Int /\ Min({4, m}) <= 4 /\ Min({4, m}) <= m
             /\ (Min({4, m}) = 4 \/ Min({4, m}) = m)
  <1>1. \E x \in {4, m} : \A y \in {4, m} : x <= y
    OBVIOUS
  <1>2. /\ Min({4, m}) \in {4, m}
        /\ \A y \in {4, m} : Min({4, m}) <= y
    BY <1>1 DEF Min
  <1> QED
    BY <1>2

LEMMA LargestOf ==
    ASSUME NEW S \in SUBSET (1 .. 4), S # {}
    PROVE  Max(S) \in S /\ \A y \in S : y <= Max(S)
  <1>1. S \in SUBSET Int /\ \A y \in S : y <= 4
    OBVIOUS
  <1>0. 4 \in Int
    OBVIOUS
  <1>2. \E x \in S : \A y \in S : y <= x
    BY <1>0, <1>1, GreatestInt
  <1>3. \E x \in S : \A y \in S : x >= y
    BY <1>1, <1>2
  <1>4. Max(S) \in S /\ \A y \in S : Max(S) >= y
    BY <1>3 DEF Max
  <1> QED
    BY <1>1, <1>4

LEMMA ElementFacts ==
    ASSUME NEW e \in Encodings, NEW t \in Seq(Units(e)), NEW i \in 1 .. Len(t)
    PROVE  LET s == SegmentAt(e, t, i)
               left == Len(t) - i + 1
           IN  /\ s \in Element(e) /\ s.length <= left
               /\ \A n \in 1 .. left : WellFormed(e, Piece(t, i, n)) =>
                    s = [valid |-> TRUE, length |-> n, scalar |-> Piece(t, i, n)]
               /\ s.valid => WellFormed(e, Piece(t, i, s.length)) /\ s.scalar = Piece(t, i, s.length)
               /\ ~s.valid =>
                    /\ s.scalar = <<>>
                    /\ s.length > 1 => Truncated(e, Piece(t, i, s.length))
                    /\ \A n \in 1 .. left : Truncated(e, Piece(t, i, n)) => n <= s.length
  <1>1. PICK left \in Int : left = Len(t) - i + 1 /\ left >= 1 /\ Len(t) \in Nat
    <2>1. Len(t) \in Nat
      BY LenProperties
    <2> QED
      BY <2>1
  <1>2. PICK m \in 1 .. 4 : m = Min({4, left}) /\ m <= left /\ (m = 4 \/ m = left)
    <2>1. Min({4, left}) \in 1 .. 4
      BY <1>1, LeastOfTwo
    <2> QED
      BY <1>1, <2>1, LeastOfTwo
  <1>3. PICK w, c : /\ w = {n \in 1 .. m : WellFormed(e, Piece(t, i, n))}
                    /\ c = {n \in 1 .. m : Truncated(e, Piece(t, i, n))}
    OBVIOUS
  <1>4. SegmentAt(e, t, i) =
          IF w # {}
          THEN [valid |-> TRUE, length |-> Max(w), scalar |-> Piece(t, i, Max(w))]
          ELSE [valid |-> FALSE, length |-> Max({1} \cup c), scalar |-> <<>>]
    BY <1>1, <1>2, <1>3 DEF SegmentAt, Piece
  <1>5. \A n \in 1 .. left : /\ Piece(t, i, n) \in Seq(Units(e)) /\ Len(Piece(t, i, n)) = n
                             /\ Piece(t, i, n)[1] = t[i]
    <2> SUFFICES ASSUME NEW n \in 1 .. left
                 PROVE  /\ Piece(t, i, n) \in Seq(Units(e)) /\ Len(Piece(t, i, n)) = n
                        /\ Piece(t, i, n)[1] = t[i]
      OBVIOUS
    <2>1. n \in Nat /\ i \in Int /\ 1 <= i /\ i + n - 1 <= Len(t) /\ 1 \in 1 .. n /\ i + 1 - 1 = i
      BY <1>1
    <2> QED
      BY <2>1, PieceFacts
  <1>6. /\ Span(e, t[i]) \in 0 .. 4
        /\ \A n \in 1 .. left : WellFormed(e, Piece(t, i, n)) => n = Span(e, t[i])
        /\ \A n \in 1 .. left : Truncated(e, Piece(t, i, n)) => n < Span(e, t[i])
    <2>1. 1 \in 1 .. left
      BY <1>1
    <2> QED
      BY <1>5, <2>1, SpanFacts
  <1>7. /\ \A n \in 1 .. left : WellFormed(e, Piece(t, i, n)) => n \in w
        /\ \A n \in 1 .. left : Truncated(e, Piece(t, i, n)) => n \in c
    <2> SUFFICES ASSUME NEW n \in 1 .. left, n <= 4 PROVE n \in 1 .. m
      BY <1>3, <1>6
    <2> QED
      BY <1>1, <1>2
  <1>8. \A n \in 1 .. m : n \in 1 .. left
    BY <1>1, <1>2
  <1>9. CASE w # {}
    <2>1. w \in SUBSET (1 .. 4) /\ \A n \in w : n \in 1 .. m
      BY <1>2, <1>3
    <2>2. PICK n \in w : n = Max(w)
      BY <1>9, <2>1, LargestOf
    <2>3. n \in 1 .. 4 /\ n \in 1 .. left /\ WellFormed(e, Piece(t, i, n))
      BY <1>3, <1>8, <2>1
    <2>4. SegmentAt(e, t, i) = [valid |-> TRUE, length |-> n, scalar |-> Piece(t, i, n)]
      BY <1>4, <1>9, <2>2
    <2>5. SegmentAt(e, t, i) \in Element(e)
      BY <1>5, <2>3, <2>4 DEF Element
    <2>6. \A k \in 1 .. left : WellFormed(e, Piece(t, i, k)) => k = n
      BY <1>6, <2>3
    <2>7. PICK s : s = SegmentAt(e, t, i)
      OBVIOUS
    <2>8. /\ s \in Element(e) /\ s.valid /\ s.length = n /\ s.scalar = Piece(t, i, n) /\ n <= left
          /\ s = [valid |-> TRUE, length |-> n, scalar |-> Piece(t, i, n)]
      BY <2>3, <2>4, <2>5, <2>7
    <2> QED
      BY <1>1, <2>3, <2>6, <2>7, <2>8
  <1>10. CASE w = {}
    <2>1. {1} \cup c \in SUBSET (1 .. 4) /\ {1} \cup c # {}
      BY <1>2, <1>3
    <2>2. PICK n \in {1} \cup c : n = Max({1} \cup c) /\ \A k \in {1} \cup c : k <= n
      BY <2>1, LargestOf
    <2>3. n \in 1 .. 4 /\ n \in 1 .. left /\ (n > 1 => Truncated(e, Piece(t, i, n)))
      BY <1>1, <1>2, <1>3, <1>8, <2>1
    <2>4. SegmentAt(e, t, i) = [valid |-> FALSE, length |-> n, scalar |-> <<>>]
      BY <1>4, <1>10, <2>2
    <2>5. SegmentAt(e, t, i) \in Element(e)
      BY <2>3, <2>4 DEF Element
    <2>6. \A k \in 1 .. left : Truncated(e, Piece(t, i, k)) => k <= n
      BY <1>7, <2>2
    <2>7. \A k \in 1 .. left : ~WellFormed(e, Piece(t, i, k))
      BY <1>7, <1>10
    <2>8. PICK s : s = SegmentAt(e, t, i)
      OBVIOUS
    <2>9. s \in Element(e) /\ ~s.valid /\ s.length = n /\ s.scalar = <<>> /\ n <= left
      BY <2>3, <2>4, <2>5, <2>8
    <2> QED
      BY <1>1, <2>3, <2>6, <2>7, <2>8, <2>9
  <1> QED
    BY <1>9, <1>10

-----------------------------------------------------------------------------
(***************************************************************************)
(* The parser's word.                                                      *)
(***************************************************************************)
LEMMA InOrderFacts ==
    ASSUME NEW e \in Encodings, NEW d \in Directions, NEW u \in Storage(e),
           NEW n \in 1 .. Capacity(e)
    PROVE  /\ InOrder(d, u, n) \in Seq(Units(e)) /\ Len(InOrder(d, u, n)) = n
           /\ \A i \in 1 .. n :
                InOrder(d, u, n)[i] = IF d = "forward" THEN u[i] ELSE u[n + 1 - i]
  <1>1. Capacity(e) \in {2, 4}
    BY DEF Encodings, Capacity
  <1>2. n \in Nat
    BY <1>1
  <1>3. \A i \in 1 .. n : i \in 1 .. Capacity(e) /\ n + 1 - i \in 1 .. Capacity(e)
    BY <1>1
  <1>4. \A i \in 1 .. Capacity(e) : u[i] \in Units(e)
    BY DEF Storage
  <1>5. \A i \in 1 .. n : InOrder(d, u, n)[i] = IF d = "forward" THEN u[i] ELSE u[n + 1 - i]
    BY DEF InOrder
  <1>6. \A i \in 1 .. n : InOrder(d, u, n)[i] \in Units(e)
    BY <1>3, <1>4, <1>5
  <1>7. InOrder(d, u, n) = [i \in 1 .. n |-> InOrder(d, u, n)[i]]
    BY DEF InOrder
  <1>8. InOrder(d, u, n) \in [1 .. n -> Units(e)]
    BY <1>6, <1>7
  <1>9. InOrder(d, u, n) \in Seq(Units(e)) /\ DOMAIN InOrder(d, u, n) = 1 .. n
    BY <1>2, <1>8, SeqDef
  <1>10. Len(InOrder(d, u, n)) = n
    BY <1>2, <1>9, LenProperties
  <1> QED
    BY <1>5, <1>9, <1>10

\* The tests on one unit are the ranges of the standard.
LEMMA UnitTests ==
    ASSUME NEW u \in Int, 0 <= u, u <= 65535
    PROVE  /\ IsLeadSurrogate(u) <=> u \in LeadSurrogates
           /\ IsTrailSurrogate(u) <=> u \in TrailSurrogates
           /\ u \div 2048 = 27 <=> u \in Surrogates
  <1>1. u \div 1024 = 54 <=> 55296 <= u /\ u <= 56319
    OBVIOUS
  <1>2. u \div 1024 = 55 <=> 56320 <= u /\ u <= 57343
    OBVIOUS
  <1>3. u \div 2048 = 27 <=> 55296 <= u /\ u <= 57343
    OBVIOUS
  <1> QED
    BY <1>1, <1>2, <1>3, UnitRanges DEF IsLeadSurrogate, IsTrailSurrogate

LEMMA OneByte ==
    ASSUME NEW u \in Byte
    PROVE  Announced(u) = 1 <=> u < 128
  BY DEF Announced, Byte

LEMMA Unit16 ==
    ASSUME NEW u \in Units("UTF16")
    PROVE  u \in Int /\ 0 <= u /\ u <= 65535
  BY UnitBounds DEF Units

\* A unit is a scalar by itself exactly when it is well-formed by itself.
LEMMA ScalarUnits ==
    ASSUME NEW e \in Encodings, NEW s \in Seq(Units(e)), Len(s) = 1
    PROVE  IsScalar(e, s[1]) <=> WellFormed(e, s)
  <1>1. s[1] \in Units(e)
    BY ElementOfSeq
  <1>2. CASE e = "UTF8"
    <2>1. s[1] \in Byte
      BY <1>1, <1>2 DEF Units, MaxUnit, Byte
    <2>2. Announced(s[1]) = 1 <=> s[1] < 128
      BY <2>1, OneByte
    <2>3. Follows(s)
      <3>1. 2 .. Len(s) = {}
        OBVIOUS
      <3> QED
        BY <3>1 DEF Follows
    <2>4. IsScalar(e, s[1]) <=> s[1] < 128
      BY <1>2 DEF IsScalar
    <2> QED
      BY <1>2, <2>2, <2>3, <2>4, Meaning8
  <1>3. CASE e = "UTF16"
    <2>1. s[1] \in Int /\ 0 <= s[1] /\ s[1] <= 65535
      BY <1>1, <1>3, Unit16
    <2>2. s[1] \div 2048 = 27 <=> s[1] \in Surrogates
      BY <2>1, UnitTests
    <2>3. IsScalar(e, s[1]) <=> s[1] \div 2048 # 27
      BY <1>3 DEF IsScalar
    <2>4. WellFormed(e, s) <=> ~(s[1] \in Surrogates)
      BY <1>3, Meaning16
    <2> QED
      BY <2>2, <2>3, <2>4
  <1> QED
    BY <1>2, <1>3 DEF Encodings

\* The tests on several units accept exactly what is well-formed or truncated.
LEMMA SequenceTests ==
    ASSUME NEW e \in Encodings, NEW s \in Seq(Units(e)), NEW n \in 2 .. 4, Len(s) = n
    PROVE  /\ Complete(e, s, n) <=> WellFormed(e, s)
           /\ n \in 2 .. 3 => (Incomplete(e, s, n) <=> Truncated(e, s))
           /\ n = 4 => ~Truncated(e, s)
  <1>1. s[1] \in Units(e) /\ s[2] \in Units(e)
    BY ElementOfSeq
  <1>2. CASE e = "UTF8"
    <2>1. s \in Seq(Byte) /\ s[1] \in Byte
      BY <1>1, <1>2 DEF Units, MaxUnit, Byte
    <2>2. Complete(e, s, n) <=> WellFormed(e, s)
      BY <1>2, <2>1, WholeSequences
    <2>3. n \in 2 .. 3 => (Incomplete(e, s, n) <=> Truncated(e, s))
      BY <1>2, <2>1, TruncatedSequences
    <2>4. Announced(s[1]) \in {0, 1, 2, 3, 4}
      BY <2>1, AnnouncedFacts
    <2>5. Truncated(e, s) => n < Announced(s[1])
      BY <1>2, Meaning8
    <2>6. n = 4 => ~Truncated(e, s)
      BY <2>4, <2>5
    <2> QED
      BY <2>2, <2>3, <2>6
  <1>3. CASE e = "UTF16"
    <2>1. /\ s[1] \in Int /\ 0 <= s[1] /\ s[1] <= 65535
          /\ s[2] \in Int /\ 0 <= s[2] /\ s[2] <= 65535
      BY <1>1, <1>3, Unit16
    <2>2. /\ IsLeadSurrogate(s[1]) <=> s[1] \in LeadSurrogates
          /\ IsTrailSurrogate(s[2]) <=> s[2] \in TrailSurrogates
      BY <2>1, UnitTests
    <2>3. Complete(e, s, n) <=> n = 2 /\ IsLeadSurrogate(s[1]) /\ IsTrailSurrogate(s[2])
      BY <1>3 DEF Complete
    <2>4. ~Incomplete(e, s, n)
      BY <1>3 DEF Incomplete
    <2>5. /\ ~Truncated(e, s)
          /\ WellFormed(e, s) <=> n = 2 /\ s[1] \in LeadSurrogates /\ s[2] \in TrailSurrogates
      <3>1. ~(Len(s) = 1) /\ (Len(s) = 2 <=> n = 2)
        OBVIOUS
      <3> QED
        BY <1>3, <3>1, Meaning16
    <2> QED
      BY <2>2, <2>3, <2>4, <2>5
  <1> QED
    BY <1>2, <1>3 DEF Encodings

\* What the result of a parse says about the word.
LEMMA ParseMeaning ==
    ASSUME NEW e \in Encodings, NEW d \in Directions, NEW u \in Storage(e)
    PROVE  LET r == ParseMultiple(e, d, u)
           IN  /\ r.valid \in BOOLEAN
               /\ r.valid => /\ r.length \in 2 .. Capacity(e)
                             /\ WellFormed(e, InOrder(d, u, r.length))
               /\ ~r.valid =>
                    /\ \A n \in 2 .. Capacity(e) : ~WellFormed(e, InOrder(d, u, n))
                    /\ r.length \in 1 .. 3
                    /\ r.length > 1 => r.length <= Capacity(e) /\ Truncated(e, InOrder(d, u, r.length))
                    /\ \A n \in 2 .. Capacity(e) : Truncated(e, InOrder(d, u, n)) => n <= r.length
  <1>1. Capacity(e) \in {2, 4} /\ (e = "UTF8" => Capacity(e) = 4)
    BY DEF Encodings, Capacity
  <1>2. ASSUME NEW n \in 2 .. Capacity(e)
        PROVE  /\ n \in 2 .. 4
               /\ Complete(e, InOrder(d, u, n), n) <=> WellFormed(e, InOrder(d, u, n))
               /\ n \in 2 .. 3 => (Incomplete(e, InOrder(d, u, n), n) <=> Truncated(e, InOrder(d, u, n)))
               /\ n = 4 => ~Truncated(e, InOrder(d, u, n))
    <2>1. n \in 2 .. 4 /\ n \in 1 .. Capacity(e)
      BY <1>1
    <2>2. InOrder(d, u, n) \in Seq(Units(e)) /\ Len(InOrder(d, u, n)) = n
      BY <2>1, InOrderFacts
    <2> QED
      BY <2>1, <2>2, SequenceTests
  <1>3. PICK l : l = {n \in 2 .. Capacity(e) : Complete(e, InOrder(d, u, n), n)}
    OBVIOUS
  <1>4. ParseMultiple(e, d, u) =
          IF l # {} THEN [valid |-> TRUE, length |-> CHOOSE n \in l : TRUE]
          ELSE [valid |-> FALSE, length |-> InvalidLength(e, d, u)]
    BY <1>3 DEF ParseMultiple
  <1>5. CASE l # {}
    <2>1. PICK n : n = (CHOOSE m \in l : TRUE)
      OBVIOUS
    <2>2. n \in l
      BY <1>5, <2>1
    <2>3. n \in 2 .. Capacity(e) /\ WellFormed(e, InOrder(d, u, n))
      BY <1>2, <1>3, <2>2
    <2>4. ParseMultiple(e, d, u) = [valid |-> TRUE, length |-> n]
      BY <1>4, <1>5, <2>1
    <2> QED
      BY <2>3, <2>4
  <1>6. CASE l = {}
    <2>1. PICK n : n = InvalidLength(e, d, u)
      OBVIOUS
    <2>2. n = IF Incomplete(e, InOrder(d, u, 3), 3) THEN 3
              ELSE IF Incomplete(e, InOrder(d, u, 2), 2) THEN 2 ELSE 1
      BY <2>1 DEF InvalidLength
    <2>3. \A m \in 2 .. Capacity(e) : ~WellFormed(e, InOrder(d, u, m))
      BY <1>2, <1>3, <1>6
    <2>4. /\ Incomplete(e, InOrder(d, u, 3), 3) => e = "UTF8"
          /\ Incomplete(e, InOrder(d, u, 2), 2) => e = "UTF8"
      BY DEF Incomplete
    <2>5. /\ 2 \in 2 .. Capacity(e)
          /\ e = "UTF8" => 3 \in 2 .. Capacity(e)
          /\ \A m \in 2 .. Capacity(e) : m = 2 \/ m = 3 \/ m = 4
      BY <1>1
    <2>6. /\ Incomplete(e, InOrder(d, u, 2), 2) <=> Truncated(e, InOrder(d, u, 2))
          /\ 3 \in 2 .. Capacity(e) =>
               (Incomplete(e, InOrder(d, u, 3), 3) <=> Truncated(e, InOrder(d, u, 3)))
          /\ 4 \in 2 .. Capacity(e) => ~Truncated(e, InOrder(d, u, 4))
      <3>1. 2 \in 2 .. 3 /\ 3 \in 2 .. 3
        OBVIOUS
      <3> QED
        BY <1>2, <2>5, <3>1
    <2>7. n = 1 \/ n = 2 \/ n = 3
      BY <2>2
    <2>8. n > 1 => n <= Capacity(e) /\ Truncated(e, InOrder(d, u, n))
      <3>1. CASE Incomplete(e, InOrder(d, u, 3), 3)
        BY <1>1, <2>2, <2>4, <2>5, <2>6, <3>1
      <3>2. CASE ~Incomplete(e, InOrder(d, u, 3), 3)
        BY <1>1, <2>2, <2>6, <3>2
      <3> QED
        BY <3>1, <3>2
    <2>9. ASSUME NEW m \in 2 .. Capacity(e), Truncated(e, InOrder(d, u, m))
          PROVE  m <= n
      <3>1. CASE m = 2
        BY <2>2, <2>6, <2>9, <3>1
      <3>2. CASE m = 3
        BY <2>2, <2>6, <2>9, <3>2
      <3>3. CASE m = 4
        BY <2>6, <2>9, <3>3
      <3> QED
        BY <2>5, <3>1, <3>2, <3>3
    <2>10. ParseMultiple(e, d, u) = [valid |-> FALSE, length |-> n]
      BY <1>4, <1>6, <2>1
    <2>11. n \in 1 .. 3
      BY <2>7
    <2> QED
      BY <2>3, <2>8, <2>9, <2>10, <2>11
  <1> QED
    BY <1>5, <1>6

-----------------------------------------------------------------------------
(***************************************************************************)
(* The division of a text: element k of D starts at p[k].                  *)
(***************************************************************************)
Starts(e, t, D, p) ==
    /\ p[1] = 1 /\ p[Len(D) + 1] = Len(t) + 1
    /\ \A k \in 1 .. Len(D) + 1 : p[k] \in Int
    /\ \A k \in 1 .. Len(D) : /\ p[k] >= 1 /\ p[k] <= Len(t)
                              /\ D[k] = SegmentAt(e, t, p[k])
                              /\ p[k + 1] = p[k] + D[k].length

\* The elements of Segments lie end to end and make up the text.
LEMMA SegmentsDivide ==
    ASSUME NEW e \in Encodings, NEW t \in Seq(Units(e))
    PROVE  /\ Segments(e, t) \in Seq(Element(e))
           /\ \E p : Starts(e, t, Segments(e, t), p)
  <1>1. PICK N \in Nat : N = Len(t)
    BY LenProperties
  <1>2. PICK head : head = [i \in 1 .. N |-> SegmentAt(e, t, i)]
    OBVIOUS
  <1>3. PICK next : next = [i \in 1 .. N |-> i + SegmentAt(e, t, i).length]
    OBVIOUS
  <1>4. \A i \in 1 .. N : /\ SegmentAt(e, t, i) \in Element(e)
                          /\ SegmentAt(e, t, i).length <= Len(t) - i + 1
    BY <1>1, ElementFacts
  <1>5. head \in [1 .. N -> Element(e)]
    BY <1>2, <1>4
  <1>6. \A i \in 1 .. N : next[i] \in Int /\ i < next[i] /\ next[i] <= N + 1
    <2> SUFFICES ASSUME NEW i \in 1 .. N
                 PROVE  next[i] \in Int /\ i < next[i] /\ next[i] <= N + 1
      OBVIOUS
    <2>1. PICK n \in 1 .. 4 : n = SegmentAt(e, t, i).length
      BY <1>4 DEF Element
    <2>2. n <= N - i + 1 /\ next[i] = i + n
      BY <1>1, <1>3, <1>4, <2>1
    <2> QED
      BY <2>2
  <1>7. \E f : Recursion(N, head, next, f)
    BY <1>6, RecursionFromTheEnd
  <1>8. PICK from : Recursion(N, head, next, from) /\ Segments(e, t) = from[1]
    <2> DEFINE R(f) == Recursion(N, head, next, f)
               Q(f) == f = [i \in 1 .. Len(t) + 1 |->
                              IF i > Len(t) THEN <<>>
                              ELSE LET s == SegmentAt(e, t, i) IN <<s>> \o f[i + s.length]]
    <2>1. \A f : R(f) <=> Q(f)
      <3> SUFFICES ASSUME NEW f
                   PROVE  [i \in 1 .. N + 1 |-> IF i > N THEN <<>> ELSE <<head[i]>> \o f[next[i]]]
                            = [i \in 1 .. Len(t) + 1 |->
                                 IF i > Len(t) THEN <<>>
                                 ELSE LET s == SegmentAt(e, t, i) IN <<s>> \o f[i + s.length]]
        BY DEF Recursion
      <3>1. \A i \in 1 .. N + 1 : ~(i > N) => i \in 1 .. N
        OBVIOUS
      <3>2. \A i \in 1 .. N : head[i] = SegmentAt(e, t, i) /\ next[i] = i + SegmentAt(e, t, i).length
        BY <1>2, <1>3
      <3>3. \A i \in 1 .. N + 1 :
              (IF i > N THEN <<>> ELSE <<head[i]>> \o f[next[i]])
                = (IF i > Len(t) THEN <<>>
                   ELSE LET s == SegmentAt(e, t, i) IN <<s>> \o f[i + s.length])
        BY <1>1, <3>1, <3>2
      <3> QED
        BY <1>1, <3>3
    <2>2. Segments(e, t) = (CHOOSE f : Q(f))[1]
      BY DEF Segments
    <2>3. \E f : Q(f)
      BY <1>7, <2>1
    <2> HIDE DEF Q, R
    <2>4. Q(CHOOSE f : Q(f))
      BY <2>3
    <2>5. R(CHOOSE f : Q(f))
      BY <2>1, <2>4
    <2>6. Recursion(N, head, next, CHOOSE f : Q(f))
      BY <2>5 DEF R
    <2> QED
      BY <2>2, <2>6
  <1>9. PICK p : /\ from[1] \in Seq(Element(e))
                 /\ Division(N, head, next, 1, from[1], p)
    BY <1>5, <1>6, <1>8, RecursionDivides
  <1>10. PICK D \in Seq(Element(e)) : D = from[1] /\ D = Segments(e, t)
    BY <1>8, <1>9
  <1>11. Starts(e, t, D, p)
    <2>1. /\ p[1] = 1 /\ p[Len(D) + 1] = N + 1
          /\ \A k \in 1 .. Len(D) + 1 : p[k] \in Int
          /\ \A k \in 1 .. Len(D) : /\ p[k] >= 1 /\ p[k] <= N
                                    /\ D[k] = head[p[k]] /\ p[k + 1] = next[p[k]]
      BY <1>9, <1>10 DEF Division
    <2>2. Len(D) \in Nat
      BY LenProperties
    <2>3. ASSUME NEW k \in 1 .. Len(D)
          PROVE  D[k] = SegmentAt(e, t, p[k]) /\ p[k + 1] = p[k] + D[k].length
      <3>1. p[k] \in 1 .. N
        BY <2>1, <2>2
      <3> QED
        BY <1>2, <1>3, <2>1, <3>1
    <2> QED
      BY <1>1, <2>1, <2>3 DEF Starts
  <1> QED
    BY <1>10, <1>11

\* What is known of the elements of a division and of the places where they start.
LEMMA StartFacts ==
    ASSUME NEW e \in Encodings, NEW t \in Seq(Units(e)), NEW D \in Seq(Element(e)), NEW p,
           Starts(e, t, D, p), NEW k \in 1 .. Len(D)
    PROVE  /\ p[k] \in 1 .. Len(t) /\ p[k] \in Int /\ p[k + 1] \in Int
           /\ D[k] \in Element(e) /\ D[k].length \in 1 .. 4
           /\ D[k] = SegmentAt(e, t, p[k])
           /\ p[k + 1] = p[k] + D[k].length /\ p[k] < p[k + 1] /\ p[k + 1] <= Len(t) + 1
  <1>1. Len(D) \in Nat /\ Len(t) \in Nat
    BY LenProperties
  <1>2. p[k] \in Int /\ p[k + 1] \in Int
    BY <1>1 DEF Starts
  <1>3. D[k] \in Element(e)
    BY ElementOfSeq
  <1>4. D[k].length \in 1 .. 4
    BY <1>3 DEF Element
  <1>5. /\ p[k] >= 1 /\ p[k] <= Len(t) /\ D[k] = SegmentAt(e, t, p[k])
        /\ p[k + 1] = p[k] + D[k].length
    BY DEF Starts
  <1>6. p[k] \in 1 .. Len(t)
    BY <1>1, <1>2, <1>5
  <1>7. D[k].length <= Len(t) - p[k] + 1
    BY <1>5, <1>6, ElementFacts
  <1>8. PICK n \in 1 .. 4 : n = D[k].length
    BY <1>4
  <1>9. p[k] < p[k + 1] /\ p[k + 1] <= Len(t) + 1
    BY <1>1, <1>2, <1>5, <1>7, <1>8, SMTT(60)
  <1> QED
    BY <1>2, <1>3, <1>4, <1>5, <1>6, <1>9

\* The elements start one behind the other.
LEMMA StartsAscend ==
    ASSUME NEW e \in Encodings, NEW t \in Seq(Units(e)), NEW D \in Seq(Element(e)), NEW p,
           Starts(e, t, D, p)
    PROVE  \A j, k \in 1 .. Len(D) + 1 : j < k => p[j] < p[k]
  <1>1. PICK L \in Nat : L = Len(D)
    BY LenProperties
  <1>2. \A k \in 1 .. L + 1 : p[k] \in Int
    BY <1>1 DEF Starts
  <1>3. \A k \in 1 .. L : p[k] < p[k + 1]
    BY <1>1, StartFacts
  <1> SUFFICES ASSUME NEW j \in 1 .. L + 1
               PROVE  \A k \in 1 .. L + 1 : j < k => p[j] < p[k]
    BY <1>1
  <1> DEFINE S == {k \in 1 .. L + 1 : p[j] < p[k]}
  <1>4. j + 1 <= L + 1 => j + 1 \in S
    BY <1>3
  <1>5. ASSUME NEW k \in Int, j + 1 <= k, k < L + 1, k \in S PROVE k + 1 \in S
    <2>1. k \in 1 .. L /\ k + 1 \in 1 .. L + 1 /\ k \in 1 .. L + 1
      BY <1>5
    <2>2. p[j] \in Int /\ p[k] \in Int /\ p[k + 1] \in Int /\ p[j] < p[k] /\ p[k] < p[k + 1]
      BY <1>2, <1>3, <1>5, <2>1
    <2> QED
      BY <2>1, <2>2
  <1>6. \A k \in Int : j + 1 <= k /\ k <= L + 1 => k \in S
    <2> HIDE DEF S
    <2>1. j + 1 \in Int /\ L + 1 \in Int
      OBVIOUS
    <2>2. \A k \in Int : j + 1 <= k /\ k < L + 1 /\ k \in S => k + 1 \in S
      BY <1>5
    <2> QED
      BY <1>4, <2>1, <2>2, UpwardInduct
  <1> QED
    BY <1>6

\* Every place in the text is in one of the elements.
LEMMA StartsCover ==
    ASSUME NEW e \in Encodings, NEW t \in Seq(Units(e)), NEW D \in Seq(Element(e)), NEW p,
           Starts(e, t, D, p), NEW a \in 1 .. Len(t)
    PROVE  \E k \in 1 .. Len(D) : p[k] <= a /\ a < p[k + 1]
  <1>1. PICK L \in Nat : L = Len(D)
    BY LenProperties
  <1>2. /\ p[1] = 1 /\ p[L + 1] = Len(t) + 1 /\ \A k \in 1 .. L + 1 : p[k] \in Int
    BY <1>1 DEF Starts
  <1>3. Len(t) \in Nat /\ a \in Int
    BY LenProperties
  <1> DEFINE T == {k \in 1 .. L + 1 : p[k] <= a}
  <1>4. T \in SUBSET Int /\ T # {} /\ L + 1 \in Int /\ \A k \in T : k <= L + 1
    <2>1. 1 \in T
      BY <1>2
    <2> QED
      BY <2>1
  <1>5. PICK k \in T : \A m \in T : m <= k
    <2> HIDE DEF T
    <2> QED
      BY <1>4, GreatestInt
  <1>6. k \in 1 .. L + 1 /\ p[k] <= a /\ k # L + 1
    BY <1>2, <1>3
  <1>7. k \in 1 .. L /\ k + 1 \in 1 .. L + 1 /\ ~(k + 1 <= k)
    BY <1>6
  <1>8. ~(p[k + 1] <= a)
    BY <1>5, <1>7
  <1> QED
    BY <1>1, <1>2, <1>3, <1>6, <1>7, <1>8

\* A unit that is no trailing one starts an element.
LEMMA HeadsStart ==
    ASSUME NEW e \in Encodings, NEW t \in Seq(Units(e)), NEW D \in Seq(Element(e)), NEW p,
           Starts(e, t, D, p), NEW a \in 1 .. Len(t), ~Trailing(e, t[a])
    PROVE  \E k \in 1 .. Len(D) : p[k] = a
  <1>1. PICK k \in 1 .. Len(D) : p[k] <= a /\ a < p[k + 1]
    BY StartsCover
  <1> SUFFICES ASSUME p[k] # a PROVE FALSE
    OBVIOUS
  <1>2. PICK i \in 1 .. Len(t) : i = p[k]
    BY StartFacts
  <1>3. PICK n \in 1 .. 4 : n = D[k].length /\ p[k + 1] = i + n
    BY <1>2, StartFacts, SMTT(60)
  <1>4. Len(t) \in Nat
    BY LenProperties
  <1>5. PICK j \in 2 .. n : a = i + j - 1
    <2>1. a - i + 1 \in 2 .. n /\ a = i + (a - i + 1) - 1
      BY <1>1, <1>2, <1>3, SMTT(60)
    <2> QED
      BY <2>1
  <1>6. i + n - 1 <= Len(t) /\ n > 1 /\ n \in 1 .. Len(t) - i + 1
    <2>1. p[k + 1] <= Len(t) + 1
      BY StartFacts
    <2> QED
      BY <1>3, <1>4, <1>5, <2>1, SMTT(60)
  <1>7. WellFormed(e, Piece(t, i, n)) \/ Truncated(e, Piece(t, i, n))
    <2>1. D[k] = SegmentAt(e, t, i)
      BY <1>2, StartFacts
    <2> QED
      BY <1>3, <1>6, <2>1, ElementFacts
  <1>8. /\ Piece(t, i, n) \in Seq(Units(e)) /\ Len(Piece(t, i, n)) = n
        /\ Piece(t, i, n)[j] = t[a]
    <2>1. n \in Nat /\ i \in Int /\ 1 <= i /\ j \in 1 .. n
      OBVIOUS
    <2> QED
      BY <1>5, <1>6, <2>1, PieceFacts
  <1>9. Trailing(e, t[a])
    <2>1. Len(Piece(t, i, n)) >= 1 /\ j \in 2 .. Len(Piece(t, i, n))
      BY <1>8
    <2> QED
      BY <1>7, <1>8, <2>1, TrailingFacts
  <1> QED
    BY <1>9

-----------------------------------------------------------------------------
(***************************************************************************)
(* The next element.  The parser's word u holds the next c units: those    *)
(* from a on, or in reverse those up to a.                                 *)
(***************************************************************************)

\* The place of the first of n units that are next.
At(d, a, n) == IF d = "forward" THEN a ELSE a + 1 - n

\* How many units there are from a on in the direction of reading.
Ahead(d, t, a) == IF d = "forward" THEN Len(t) - a + 1 ELSE a

\* A place is a number.
LEMMA Place ==
    ASSUME NEW d, NEW a \in Int, NEW n \in Int
    PROVE  At(d, a, n) \in Int
  <1>1. a + 1 - n \in Int
    OBVIOUS
  <1>2. CASE d = "forward"
    BY <1>1, <1>2 DEF At
  <1>3. CASE d # "forward"
    BY <1>1, <1>3 DEF At
  <1> QED
    BY <1>2, <1>3

\* The first c units of the word u are those that are next, and it is full or they
\* are the last.
Holds(e, d, t, a, u, c) ==
    /\ c <= Ahead(d, t, a) /\ (c = Capacity(e) \/ c = Ahead(d, t, a))
    /\ \A i \in 1 .. c : u[i] = IF d = "forward" THEN t[a + i - 1] ELSE t[a + 1 - i]

\* So the first n units of the word are a part of the text.
LEMMA WordIsPiece ==
    ASSUME NEW e \in Encodings, NEW d \in Directions, NEW t \in Seq(Units(e)),
           NEW a \in 1 .. Len(t), NEW u \in Storage(e), NEW c \in 1 .. Capacity(e),
           Holds(e, d, t, a, u, c), NEW n \in 1 .. c
    PROVE  /\ InOrder(d, u, n) = Piece(t, At(d, a, n), n)
           /\ At(d, a, n) \in 1 .. Len(t) /\ n <= Len(t) - At(d, a, n) + 1
           /\ n \in 1 .. Len(t) - At(d, a, n) + 1
           /\ Piece(t, At(d, a, n), n) \in Seq(Units(e))
           /\ Len(Piece(t, At(d, a, n), n)) = n
           /\ Piece(t, At(d, a, n), n)[1] = t[At(d, a, n)]
  <1>1. Capacity(e) \in {2, 4} /\ Len(t) \in Nat
    BY LenProperties DEF Encodings, Capacity
  <1>2. n \in Nat /\ n \in 1 .. Capacity(e) /\ n >= 1 /\ n <= c /\ c \in Int
    BY <1>1
  <1>3. c <= Ahead(d, t, a)
    BY DEF Holds
  <1>4. PICK i \in Int : i = At(d, a, n)
    <2>1. a \in Int /\ n \in Int
      BY <1>1
    <2> QED
      BY <2>1, Place
  <1>5. 1 <= i /\ i + n - 1 <= Len(t) /\ i <= Len(t)
    BY <1>1, <1>2, <1>3, <1>4 DEF At, Ahead, Directions
  <1>6. /\ Piece(t, i, n) \in Seq(Units(e)) /\ Len(Piece(t, i, n)) = n
        /\ \A j \in 1 .. n : Piece(t, i, n)[j] = t[i + j - 1]
    BY <1>2, <1>5, PieceFacts
  <1>7. /\ InOrder(d, u, n) \in Seq(Units(e)) /\ Len(InOrder(d, u, n)) = n
        /\ \A j \in 1 .. n : InOrder(d, u, n)[j] = IF d = "forward" THEN u[j] ELSE u[n + 1 - j]
    BY <1>2, InOrderFacts
  <1>8. ASSUME NEW j \in 1 .. n
        PROVE  InOrder(d, u, n)[j] = Piece(t, i, n)[j]
    <2>1. CASE d = "forward"
      <3>1. j \in 1 .. c /\ i = a
        BY <1>2, <1>4, <2>1 DEF At
      <3>2. u[j] = t[a + j - 1]
        BY <2>1, <3>1 DEF Holds
      <3> QED
        BY <1>6, <1>7, <2>1, <3>1, <3>2
    <2>2. CASE d = "reverse"
      <3>1. PICK k \in 1 .. c : k = n + 1 - j
        BY <1>2
      <3>2. u[k] = t[a + 1 - k]
        BY <2>2 DEF Holds
      <3>3. a + 1 - k = i + j - 1
        BY <1>2, <1>4, <2>2, <3>1 DEF At
      <3> QED
        BY <1>6, <1>7, <2>2, <3>1, <3>2, <3>3
    <2> QED
      BY <2>1, <2>2 DEF Directions
  <1>9. InOrder(d, u, n) = Piece(t, i, n)
    <2>1. PICK s \in Seq(Units(e)) : s = Piece(t, i, n)
      BY <1>6
    <2>2. PICK w \in Seq(Units(e)) : w = InOrder(d, u, n)
      BY <1>7
    <2>3. Len(s) = Len(w) /\ \A j \in 1 .. Len(s) : s[j] = w[j]
      BY <1>6, <1>7, <1>8, <2>1, <2>2
    <2> QED
      BY <2>1, <2>2, <2>3, SeqEqual
  <1>10. 1 \in 1 .. n /\ i + 1 - 1 = i /\ n <= Len(t) - i + 1 /\ n \in 1 .. Len(t) - i + 1
    BY <1>1, <1>2, <1>5
  <1>11. Piece(t, i, n)[1] = t[i]
    BY <1>6, <1>10
  <1>12. i \in 1 .. Len(t)
    BY <1>1, <1>5
  <1> QED
    BY <1>4, <1>6, <1>9, <1>10, <1>11, <1>12

(***************************************************************************)
(* The two facts about the element S that is next, of length l, that a     *)
(* parser relies on: what is well-formed next is S, and what is truncated  *)
(* next is no longer than S, which is then ill-formed.                     *)
(***************************************************************************)
IsNext(e, d, t, a, S) ==
    LET l == S.length IN
    /\ S \in Element(e) /\ l <= Ahead(d, t, a)
    /\ \A n \in 1 .. 4 : n <= Ahead(d, t, a) =>
         /\ WellFormed(e, Piece(t, At(d, a, n), n)) =>
              S = [valid |-> TRUE, length |-> n, scalar |-> Piece(t, At(d, a, n), n)]
         /\ Truncated(e, Piece(t, At(d, a, n), n)) => S.valid \/ n <= l
    /\ S.valid => WellFormed(e, Piece(t, At(d, a, l), l)) /\ S.scalar = Piece(t, At(d, a, l), l)
    /\ ~S.valid /\ l > 1 => Truncated(e, Piece(t, At(d, a, l), l))

\* Forward, the element that starts at a is next.
LEMMA ForwardNext ==
    ASSUME NEW e \in Encodings, NEW t \in Seq(Units(e)), NEW a \in 1 .. Len(t)
    PROVE  IsNext(e, "forward", t, a, SegmentAt(e, t, a))
  <1>1. PICK S : S = SegmentAt(e, t, a)
    OBVIOUS
  <1>2. PICK left \in Int : left = Len(t) - a + 1 /\ left = Ahead("forward", t, a)
    <2>1. Len(t) \in Nat
      BY LenProperties
    <2>2. Len(t) - a + 1 \in Int
      BY <2>1
    <2>3. Ahead("forward", t, a) = Len(t) - a + 1
      BY DEF Ahead
    <2> QED
      BY <2>2, <2>3
  <1>3. \A n : At("forward", a, n) = a
    BY DEF At
  <1>4. /\ S \in Element(e) /\ S.length <= left
        /\ \A n \in 1 .. left : WellFormed(e, Piece(t, a, n)) =>
             S = [valid |-> TRUE, length |-> n, scalar |-> Piece(t, a, n)]
        /\ S.valid => WellFormed(e, Piece(t, a, S.length)) /\ S.scalar = Piece(t, a, S.length)
        /\ ~S.valid =>
             /\ S.length > 1 => Truncated(e, Piece(t, a, S.length))
             /\ \A n \in 1 .. left : Truncated(e, Piece(t, a, n)) => n <= S.length
    BY <1>1, <1>2, ElementFacts
  <1>5. \A n \in 1 .. 4 : n <= left => n \in 1 .. left
    OBVIOUS
  <1> QED
    BY <1>1, <1>2, <1>3, <1>4, <1>5 DEF IsNext

\* In reverse, the element that ends at a is next: only its first unit is no
\* trailing one, and no other element reaches over its end.
LEMMA ReverseNext ==
    ASSUME NEW e \in Encodings, NEW t \in Seq(Units(e)), NEW D \in Seq(Element(e)), NEW p,
           Starts(e, t, D, p), NEW k \in 1 .. Len(D),
           NEW a \in 1 .. Len(t), p[k + 1] = a + 1
    PROVE  IsNext(e, "reverse", t, a, D[k])
  <1>1. PICK L \in Nat : L = Len(D)
    BY LenProperties
  <1>2. PICK S \in Element(e) : S = D[k]
    BY StartFacts
  <1>3. PICK l \in 1 .. 4 : l = S.length
    BY <1>2 DEF Element
  <1>4. p[k] = a + 1 - l /\ p[k] \in 1 .. Len(t) /\ S = SegmentAt(e, t, p[k]) /\ l <= a
    <2>1. /\ p[k] \in 1 .. Len(t) /\ p[k] \in Int /\ S = SegmentAt(e, t, p[k])
          /\ p[k + 1] = p[k] + l
      BY <1>2, <1>3, StartFacts
    <2>2. PICK i \in Int : i = p[k] /\ 1 <= i
      BY <2>1
    <2>3. a \in Int /\ a + 1 = i + l
      BY <2>1, <2>2
    <2>4. i = a + 1 - l /\ l <= a
      BY <2>2, <2>3
    <2> QED
      BY <2>1, <2>2, <2>4
  <1>5. Len(t) \in Nat
    BY LenProperties
  <1>6. \A n : Ahead("reverse", t, a) = a /\ At("reverse", a, n) = a + 1 - n
    BY DEF Ahead, At
  <1>7. /\ S.valid => WellFormed(e, Piece(t, a + 1 - l, l)) /\ S.scalar = Piece(t, a + 1 - l, l)
        /\ ~S.valid /\ l > 1 => Truncated(e, Piece(t, a + 1 - l, l))
    BY <1>3, <1>4, ElementFacts
  <1>8. ASSUME NEW n \in 1 .. 4, n <= a,
               WellFormed(e, Piece(t, a + 1 - n, n)) \/ Truncated(e, Piece(t, a + 1 - n, n))
        PROVE  /\ WellFormed(e, Piece(t, a + 1 - n, n)) =>
                    S = [valid |-> TRUE, length |-> n, scalar |-> Piece(t, a + 1 - n, n)]
               /\ Truncated(e, Piece(t, a + 1 - n, n)) => n <= l
    <2>1. PICK b \in 1 .. Len(t) : b = a + 1 - n
      <3>1. a + 1 - n \in 1 .. Len(t)
        BY <1>5, <1>8
      <3> QED
        BY <3>1
    <2>2. n \in 1 .. Len(t) - b + 1 /\ b + n - 1 <= Len(t) /\ 1 <= b /\ b \in Int /\ n \in Nat
      BY <1>5, <1>8, <2>1
    <2>3. /\ Piece(t, b, n) \in Seq(Units(e)) /\ Len(Piece(t, b, n)) = n
          /\ Piece(t, b, n)[1] = t[b]
      <3>1. 1 \in 1 .. n /\ b + 1 - 1 = b
        OBVIOUS
      <3> QED
        BY <2>2, <3>1, PieceFacts
    <2>4. ~Trailing(e, t[b])
      <3>1. Len(Piece(t, b, n)) >= 1
        BY <2>3
      <3> QED
        BY <1>8, <2>1, <2>3, <3>1, TrailingFacts
    <2>5. PICK j \in 1 .. L : p[j] = b
      BY <1>1, <2>4, HeadsStart
    <2>6. PICK m \in 1 .. 4 : m = D[j].length /\ p[j + 1] = b + m
      BY <1>1, <2>5, StartFacts
    <2>7. D[j] = SegmentAt(e, t, b) /\ D[j] \in Element(e)
      BY <1>1, <2>5, StartFacts
    <2>8. /\ k \in 1 .. L /\ k + 1 \in 1 .. L + 1 /\ j + 1 \in 1 .. L + 1
          /\ p[k + 1] = a + 1
      BY <1>1
    <2>9. \A x, y \in 1 .. L + 1 : x < y => p[x] < p[y]
      BY <1>1, StartsAscend
    <2>10. j <= k
      <3>1. ~(k + 1 <= j)
        <4>1. p[j] < p[k + 1]
          BY <2>1, <2>5, <2>8
        <4>2. p[j] \in Int /\ p[k + 1] \in Int
          BY <2>5, <2>8
        <4>3. j \in 1 .. L + 1
          OBVIOUS
        <4>4. ~(k + 1 < j)
          <5> SUFFICES ASSUME k + 1 < j PROVE FALSE
            OBVIOUS
          <5>1. p[k + 1] < p[j]
            BY <2>8, <2>9, <4>3
          <5> QED
            BY <4>1, <4>2, <5>1
        <4>5. k + 1 # j
          BY <4>1, <4>2
        <4> QED
          BY <4>4, <4>5
      <3> QED
        BY <3>1
    <2>11. b + m <= a + 1
      <3>1. CASE j = k
        BY <2>6, <2>8, <3>1
      <3>2. CASE j # k
        <4>1. p[j + 1] < p[k + 1]
          <5>1. j + 1 < k + 1
            BY <2>10, <3>2
          <5> QED
            BY <2>8, <2>9, <5>1
        <4> QED
          BY <2>6, <2>8, <4>1
      <3> QED
        BY <3>1, <3>2
    <2>12. WellFormed(e, Piece(t, b, n)) =>
             /\ D[j] = [valid |-> TRUE, length |-> n, scalar |-> Piece(t, b, n)]
             /\ m = n
      <3>1. WellFormed(e, Piece(t, b, n)) =>
              D[j] = [valid |-> TRUE, length |-> n, scalar |-> Piece(t, b, n)]
        BY <2>2, <2>7, ElementFacts
      <3> QED
        BY <2>6, <3>1
    <2>13. Truncated(e, Piece(t, b, n)) => m >= n
      <3> SUFFICES ASSUME Truncated(e, Piece(t, b, n)) PROVE m >= n
        OBVIOUS
      <3>1. CASE D[j].valid
        <4>1. WellFormed(e, Piece(t, b, m)) /\ m <= Len(t) - b + 1
          BY <2>6, <2>7, <3>1, ElementFacts
        <4>2. /\ Piece(t, b, m) \in Seq(Units(e)) /\ Len(Piece(t, b, m)) = m
              /\ Piece(t, b, m)[1] = t[b]
          <5>1. 1 \in 1 .. m /\ b + 1 - 1 = b /\ m \in Nat /\ b + m - 1 <= Len(t)
            BY <1>5, <4>1
          <5> QED
            BY <2>2, <5>1, PieceFacts
        <4>3. m = Span(e, t[b]) /\ n < Span(e, t[b])
          <5>1. Len(Piece(t, b, m)) >= 1 /\ Len(Piece(t, b, n)) >= 1
            BY <2>3, <4>2, SMTT(60)
          <5> QED
            BY <2>3, <4>1, <4>2, <5>1, SpanFacts
        <4> QED
          BY <4>3
      <3>2. CASE ~D[j].valid
        BY <2>2, <2>6, <2>7, <3>2, ElementFacts
      <3> QED
        BY <3>1, <3>2
    <2>14. m = n
      <3>1. m >= n
        BY <1>8, <2>1, <2>12, <2>13
      <3> QED
        BY <2>1, <2>11, <3>1
    <2>15. j = k
      <3> SUFFICES ASSUME j < k PROVE FALSE
        BY <2>10
      <3>1. p[j + 1] < p[k + 1]
        <4>1. j + 1 < k + 1
          OBVIOUS
        <4> QED
          BY <2>8, <2>9, <4>1
      <3> QED
        BY <2>1, <2>6, <2>8, <2>14, <3>1
    <2>16. D[j] = S /\ m = l
      BY <1>2, <1>3, <2>6, <2>15
    <2> QED
      BY <2>1, <2>12, <2>14, <2>16
  <1>9. \A n \in 1 .. 4 : n <= a =>
          /\ WellFormed(e, Piece(t, a + 1 - n, n)) =>
               S = [valid |-> TRUE, length |-> n, scalar |-> Piece(t, a + 1 - n, n)]
          /\ Truncated(e, Piece(t, a + 1 - n, n)) => S.valid \/ n <= l
    BY <1>8
  <1> QED
    BY <1>2, <1>3, <1>4, <1>6, <1>7, <1>9 DEF IsNext

\* A scalar unit that is next is the next element.
LEMMA ScalarIsNext ==
    ASSUME NEW e \in Encodings, NEW d \in Directions, NEW t \in Seq(Units(e)),
           NEW a \in 1 .. Len(t), NEW S, IsNext(e, d, t, a, S), IsScalar(e, t[a])
    PROVE  S = [valid |-> TRUE, length |-> 1, scalar |-> <<t[a]>>]
  <1>1. Len(t) \in Nat
    BY LenProperties
  <1>2. t[a] \in Units(e)
    BY ElementOfSeq
  <1>3. PICK s \in Seq(Units(e)) : s = <<t[a]>> /\ Len(s) = 1 /\ s[1] = t[a]
    <2>1. <<t[a]>> \in Seq(Units(e))
      BY <1>2
    <2>2. Len(<<t[a]>>) = 1 /\ <<t[a]>>[1] = t[a]
      OBVIOUS
    <2> QED
      BY <2>1, <2>2
  <1>4. WellFormed(e, s)
    BY <1>3, ScalarUnits
  <1>5. At(d, a, 1) = a /\ 1 <= Ahead(d, t, a)
    BY <1>1 DEF At, Ahead
  <1>6. Piece(t, a, 1) = s
    <2>1. /\ Piece(t, a, 1) \in Seq(Units(e)) /\ Len(Piece(t, a, 1)) = 1
          /\ \A j \in 1 .. 1 : Piece(t, a, 1)[j] = t[a + j - 1]
      <3>1. a \in Int /\ 1 <= a /\ 1 \in Nat /\ a + 1 - 1 <= Len(t)
        BY <1>1
      <3> QED
        BY <3>1, PieceFacts
    <2>2. \A j \in 1 .. 1 : Piece(t, a, 1)[j] = s[j]
      <3>1. 1 \in 1 .. 1 /\ (\A j \in 1 .. 1 : j = 1) /\ a + 1 - 1 = a
        OBVIOUS
      <3> QED
        BY <1>3, <2>1, <3>1
    <2> QED
      BY <1>3, <2>1, <2>2, SeqEqual
  <1>7. 1 \in 1 .. 4
    OBVIOUS
  <1> QED
    BY <1>3, <1>4, <1>5, <1>6, <1>7 DEF IsNext

\* What a parse of a word that does not begin with a scalar unit gives is the next
\* element.
LEMMA ParseIsNext ==
    ASSUME NEW e \in Encodings, NEW d \in Directions, NEW t \in Seq(Units(e)),
           NEW a \in 1 .. Len(t), NEW S, IsNext(e, d, t, a, S),
           NEW u \in Storage(e), NEW c \in 1 .. Capacity(e), Holds(e, d, t, a, u, c),
           ~IsScalar(e, u[1]), ParseMultiple(e, d, u).length \in 1 .. c
    PROVE  LET r == ParseMultiple(e, d, u)
           IN  /\ r.valid \in BOOLEAN /\ S.valid = r.valid /\ S.length = r.length
               /\ r.valid => S.scalar = InOrder(d, u, r.length)
  <1>1. Capacity(e) \in {2, 4} /\ (e = "UTF8" => Capacity(e) = 4)
    BY DEF Encodings, Capacity
  <1>2. PICK v \in BOOLEAN : v = ParseMultiple(e, d, u).valid
    BY ParseMeaning
  <1>3. PICK n \in 1 .. c : n = ParseMultiple(e, d, u).length
    OBVIOUS
  <1>4. /\ v => WellFormed(e, InOrder(d, u, n))
        /\ ~v => /\ \A m \in 2 .. Capacity(e) : ~WellFormed(e, InOrder(d, u, m))
                 /\ n > 1 => Truncated(e, InOrder(d, u, n))
                 /\ \A m \in 2 .. Capacity(e) : Truncated(e, InOrder(d, u, m)) => m <= n
    BY <1>2, <1>3, ParseMeaning
  <1>5. PICK l \in 1 .. 4 : l = S.length
    BY DEF IsNext, Element
  <1>6. PICK left : left = Ahead(d, t, a)
    OBVIOUS
  <1>7. left \in Int /\ c <= left /\ (c = Capacity(e) \/ c = left) /\ l <= left
    <2>1. Len(t) \in Nat
      BY LenProperties
    <2> QED
      BY <1>5, <1>6, <2>1 DEF Holds, Ahead, IsNext
  <1>8. \A m \in 1 .. c : InOrder(d, u, m) = Piece(t, At(d, a, m), m) /\ m \in 1 .. 4 /\ m <= left
    <2>1. \A m \in 1 .. c : InOrder(d, u, m) = Piece(t, At(d, a, m), m)
      BY WordIsPiece
    <2> QED
      BY <1>1, <1>7, <2>1
  <1>9. \A m \in 1 .. c :
          /\ WellFormed(e, InOrder(d, u, m)) =>
               S = [valid |-> TRUE, length |-> m, scalar |-> InOrder(d, u, m)]
          /\ Truncated(e, InOrder(d, u, m)) => S.valid \/ m <= l
    BY <1>5, <1>6, <1>8 DEF IsNext
  <1>10. ~WellFormed(e, InOrder(d, u, 1))
    <2>1. 1 \in 1 .. Capacity(e)
      BY <1>1
    <2>2. /\ InOrder(d, u, 1) \in Seq(Units(e)) /\ Len(InOrder(d, u, 1)) = 1
          /\ InOrder(d, u, 1)[1] = u[1]
      <3>1. 1 \in 1 .. 1 /\ 1 + 1 - 1 = 1
        OBVIOUS
      <3>2. /\ InOrder(d, u, 1) \in Seq(Units(e)) /\ Len(InOrder(d, u, 1)) = 1
            /\ \A i \in 1 .. 1 : InOrder(d, u, 1)[i] = IF d = "forward" THEN u[i] ELSE u[1 + 1 - i]
        BY <2>1, InOrderFacts
      <3>3. InOrder(d, u, 1)[1] = IF d = "forward" THEN u[1] ELSE u[1 + 1 - 1]
        BY <3>1, <3>2
      <3> QED
        BY <3>1, <3>2, <3>3
    <2> QED
      BY <2>2, ScalarUnits
  <1>11. CASE v
    <2>1. S = [valid |-> TRUE, length |-> n, scalar |-> InOrder(d, u, n)]
      BY <1>4, <1>9, <1>11
    <2> QED
      BY <1>2, <1>3, <1>11, <2>1
  <1>12. CASE ~v
    <2>1. \A m \in 1 .. c : ~WellFormed(e, InOrder(d, u, m))
      <3> SUFFICES ASSUME NEW m \in 1 .. c PROVE ~WellFormed(e, InOrder(d, u, m))
        OBVIOUS
      <3>1. CASE m = 1
        BY <1>10, <3>1
      <3>2. CASE m # 1
        <4>1. m \in 2 .. Capacity(e)
          BY <1>1, <3>2
        <4> QED
          BY <1>4, <1>12, <4>1
      <3> QED
        BY <3>1, <3>2
    <2>2. S.valid \in BOOLEAN
      BY DEF IsNext, Element
    <2>3. /\ S.valid => WellFormed(e, Piece(t, At(d, a, l), l))
          /\ ~S.valid /\ l > 1 => Truncated(e, Piece(t, At(d, a, l), l))
      BY <1>5 DEF IsNext
    <2>4. /\ Piece(t, At(d, a, l), l) \in Seq(Units(e)) /\ Len(Piece(t, At(d, a, l), l)) = l
      <3>1. PICK i \in Int : i = At(d, a, l)
        <4>1. Len(t) \in Nat
          BY LenProperties
        <4>2. a \in Int /\ l \in Int
          BY <4>1
        <4> QED
          BY <4>2, Place
      <3>2. 1 <= i /\ i + l - 1 <= Len(t) /\ l \in Nat
        <4>1. Len(t) \in Nat
          BY LenProperties
        <4> QED
          BY <1>6, <1>7, <3>1, <4>1 DEF At, Ahead
      <3> QED
        BY <3>1, <3>2, PieceFacts
    <2>5. l > 1 => l <= Capacity(e) \/ (~S.valid /\ e = "UTF8")
      <3>1. CASE e = "UTF8"
        BY <1>1, <3>1
      <3>2. CASE e = "UTF16"
        <4>1. ~Truncated(e, Piece(t, At(d, a, l), l))
          BY <3>2, Meaning16
        <4>2. WellFormed(e, Piece(t, At(d, a, l), l)) => l <= 2
          BY <2>4, <3>2, SpanFacts
        <4>3. l > 1 => S.valid
          BY <2>2, <2>3, <4>1
        <4>4. l > 1 => l <= 2
          BY <2>3, <4>2, <4>3
        <4> QED
          BY <1>1, <4>4
      <3> QED
        BY <3>1, <3>2 DEF Encodings
    <2>6. l \in 1 .. c
      BY <1>1, <1>7, <2>5
    <2>7. ~S.valid
      BY <1>8, <2>1, <2>3, <2>6
    <2>8. n <= l
      <3>1. n > 1 => Truncated(e, InOrder(d, u, n))
        BY <1>4, <1>12
      <3> QED
        BY <1>9, <2>7, <3>1
    <2>9. l <= n
      <3>1. l > 1 => Truncated(e, InOrder(d, u, l)) /\ l \in 2 .. Capacity(e)
        BY <1>1, <1>8, <2>3, <2>6, <2>7
      <3> QED
        BY <1>4, <1>12, <3>1
    <2>10. l = n
      BY <2>8, <2>9
    <2> QED
      BY <1>2, <1>3, <1>5, <1>12, <2>2, <2>7, <2>10
  <1> QED
    BY <1>11, <1>12

-----------------------------------------------------------------------------
(***************************************************************************)
(* The scalar that a parser takes out of its word.  The reverse parser of  *)
(* UTF-8 adds one to every byte in a single addition: nothing is carried   *)
(* as long as no byte is 255.                                              *)
(***************************************************************************)
Carries(u, f) == f = [i \in 1 .. 5 |-> IF i = 5 THEN 0 ELSE (u[i] + 1 + f[i + 1]) \div 256]

CarryOut(x, c) == (x + 1 + c) \div 256
CarryIn(x, c) == (x + c) % 256

\* What one byte and the carry into it make.
LEMMA CarryValue ==
    ASSUME NEW x \in Byte, NEW c \in 0 .. 1
    PROVE  /\ CarryOut(x, c) \in 0 .. 1 /\ (x # 255 /\ c = 0 => CarryOut(x, c) = 0)
           /\ CarryIn(x, c) \in Byte /\ (c = 0 => CarryIn(x, c) = x)
  BY DEF Byte, CarryOut, CarryIn

\* The carries of a word.
LEMMA CarryExists ==
    ASSUME NEW u \in [1 .. 4 -> Byte]
    PROVE  \E f : Carries(u, f)
  <1>1. PICK c4 : c4 = (u[4] + 1 + 0) \div 256
    OBVIOUS
  <1>2. PICK c3 : c3 = (u[3] + 1 + c4) \div 256
    OBVIOUS
  <1>3. PICK c2 : c2 = (u[2] + 1 + c3) \div 256
    OBVIOUS
  <1>4. PICK c1 : c1 = (u[1] + 1 + c2) \div 256
    OBVIOUS
  <1>5. PICK f : f = [i \in 1 .. 5 |-> IF i = 5 THEN 0 ELSE IF i = 4 THEN c4 ELSE IF i = 3 THEN c3
                                       ELSE IF i = 2 THEN c2 ELSE c1]
    OBVIOUS
  <1>6. f[5] = 0 /\ f[4] = c4 /\ f[3] = c3 /\ f[2] = c2 /\ f[1] = c1
    BY <1>5
  <1>7. \A i \in 1 .. 5 : f[i] = IF i = 5 THEN 0 ELSE (u[i] + 1 + f[i + 1]) \div 256
    <2> SUFFICES ASSUME NEW i \in 1 .. 5
                 PROVE  f[i] = IF i = 5 THEN 0 ELSE (u[i] + 1 + f[i + 1]) \div 256
      OBVIOUS
    <2>1. 1 + 1 = 2 /\ 2 + 1 = 3 /\ 3 + 1 = 4 /\ 4 + 1 = 5
      OBVIOUS
    <2>2. i = 1 \/ i = 2 \/ i = 3 \/ i = 4 \/ i = 5
      OBVIOUS
    <2> QED
      BY <1>1, <1>2, <1>3, <1>4, <1>6, <2>1, <2>2
  <1>8. f = [i \in 1 .. 5 |-> f[i]]
    BY <1>5
  <1> QED
    BY <1>7, <1>8 DEF Carries

\* Without a byte that is 255 nothing is carried.
LEMMA CarryFacts ==
    ASSUME NEW u \in [1 .. 4 -> Byte], NEW f, Carries(u, f)
    PROVE  /\ \A i \in 1 .. 5 : f[i] \in 0 .. 1
           /\ (\A i \in 1 .. 4 : u[i] # 255) => \A i \in 1 .. 5 : f[i] = 0
  <1>1. /\ f[5] = 0
        /\ \A i \in 1 .. 4 : f[i] = CarryOut(u[i], f[i + 1])
    BY DEF Carries, CarryOut
  <1>2. /\ f[4] = CarryOut(u[4], f[5]) /\ f[3] = CarryOut(u[3], f[4])
        /\ f[2] = CarryOut(u[2], f[3]) /\ f[1] = CarryOut(u[1], f[2])
    <2>1. 1 + 1 = 2 /\ 2 + 1 = 3 /\ 3 + 1 = 4 /\ 4 + 1 = 5
      OBVIOUS
    <2>2. 1 \in 1 .. 4 /\ 2 \in 1 .. 4 /\ 3 \in 1 .. 4 /\ 4 \in 1 .. 4
      OBVIOUS
    <2> QED
      BY <1>1, <2>1, <2>2
  <1>3. u[1] \in Byte /\ u[2] \in Byte /\ u[3] \in Byte /\ u[4] \in Byte
    OBVIOUS
  <1>4. f[5] \in 0 .. 1
    BY <1>1
  <1>5. f[4] \in 0 .. 1
    BY <1>2, <1>3, <1>4, CarryValue
  <1>6. f[3] \in 0 .. 1
    BY <1>2, <1>3, <1>5, CarryValue
  <1>7. f[2] \in 0 .. 1
    BY <1>2, <1>3, <1>6, CarryValue
  <1>8. f[1] \in 0 .. 1
    BY <1>2, <1>3, <1>7, CarryValue
  <1>9. \A i \in 1 .. 5 : i = 1 \/ i = 2 \/ i = 3 \/ i = 4 \/ i = 5
    OBVIOUS
  <1>10. ASSUME \A i \in 1 .. 4 : u[i] # 255 PROVE \A i \in 1 .. 5 : f[i] = 0
    <2>1. u[1] # 255 /\ u[2] # 255 /\ u[3] # 255 /\ u[4] # 255
      BY <1>10
    <2>2. f[4] = 0
      BY <1>1, <1>2, <1>3, <1>4, <2>1, CarryValue
    <2>3. f[3] = 0
      BY <1>2, <1>3, <1>5, <2>1, <2>2, CarryValue
    <2>4. f[2] = 0
      BY <1>2, <1>3, <1>6, <2>1, <2>3, CarryValue
    <2>5. f[1] = 0
      BY <1>2, <1>3, <1>7, <2>1, <2>4, CarryValue
    <2> QED
      BY <1>1, <1>9, <2>2, <2>3, <2>4, <2>5
  <1> QED
    BY <1>4, <1>5, <1>6, <1>7, <1>8, <1>9, <1>10

\* The stored scalar is the one in the word, unless a byte carries.
LEMMA ScalarTaken ==
    ASSUME NEW e \in Encodings, NEW d \in Directions, NEW u \in Storage(e),
           NEW n \in 1 .. Capacity(e)
    PROVE  LET s == BufferedScalar(e, d, u, n)
           IN  /\ s \in Seq(Units(e)) /\ Len(s) = n
               /\ d = "forward" \/ (\A i \in 1 .. Capacity(e) : u[i] # 255) => s = InOrder(d, u, n)
  <1>1. /\ InOrder(d, u, n) \in Seq(Units(e)) /\ Len(InOrder(d, u, n)) = n
        /\ \A i \in 1 .. n : InOrder(d, u, n)[i] = IF d = "forward" THEN u[i] ELSE u[n + 1 - i]
    BY InOrderFacts
  <1>2. CASE ~(e = "UTF8" /\ d = "reverse")
    <2>1. BufferedScalar(e, d, u, n) = InOrder(d, u, n)
      BY <1>2 DEF BufferedScalar
    <2> QED
      BY <1>1, <2>1
  <1>3. CASE e = "UTF8" /\ d = "reverse"
    <2>1. Capacity(e) = 4 /\ Units(e) = Byte
      BY <1>3 DEF Capacity, Units, MaxUnit, Byte
    <2>2. u \in [1 .. 4 -> Byte]
      BY <2>1 DEF Storage
    <2> DEFINE Q(f) == f = [i \in 1 .. 5 |-> IF i = 5 THEN 0 ELSE (u[i] + 1 + f[i + 1]) \div 256]
    <2>21. BufferedScalar(e, d, u, n) = [i \in 1 .. n |-> (u[n + 1 - i] + (CHOOSE f : Q(f))[n + 2 - i]) % 256]
      BY <1>3 DEF BufferedScalar
    <2>22. \E f : Q(f)
      BY <2>2, CarryExists DEF Carries
    <2>23. \A f : Q(f) <=> Carries(u, f)
      BY DEF Carries
    <2> HIDE DEF Q
    <2>3. PICK c : c = CHOOSE f : Q(f)
      OBVIOUS
    <2>4. Carries(u, c)
      BY <2>3, <2>22, <2>23
    <2>5. BufferedScalar(e, d, u, n) = [i \in 1 .. n |-> (u[n + 1 - i] + c[n + 2 - i]) % 256]
      BY <2>3, <2>21
    <2>6. PICK s : s = [i \in 1 .. n |-> (u[n + 1 - i] + c[n + 2 - i]) % 256]
      OBVIOUS
    <2>7. n \in 1 .. 4 /\ n \in Nat
      BY <2>1
    <2>8. ASSUME NEW i \in 1 .. n
          PROVE  /\ s[i] \in Byte
                 /\ (\A j \in 1 .. 4 : u[j] # 255) => s[i] = u[n + 1 - i]
      <3>1. n + 1 - i \in 1 .. 4 /\ n + 2 - i \in 1 .. 5
        BY <2>7
      <3>2. PICK x \in Byte : x = u[n + 1 - i]
        BY <2>2, <3>1
      <3>3. PICK y \in 0 .. 1 : y = c[n + 2 - i] /\ ((\A j \in 1 .. 4 : u[j] # 255) => y = 0)
        BY <2>2, <2>4, <3>1, CarryFacts
      <3>4. s[i] = CarryIn(x, y)
        BY <2>6, <3>2, <3>3 DEF CarryIn
      <3> QED
        BY <3>2, <3>3, <3>4, CarryValue
    <2>9. s \in Seq(Units(e)) /\ Len(s) = n
      <3>1. s = [i \in 1 .. n |-> s[i]]
        BY <2>6
      <3>2. s \in [1 .. n -> Units(e)]
        BY <2>1, <2>8, <3>1
      <3>3. s \in Seq(Units(e)) /\ DOMAIN s = 1 .. n
        BY <2>7, <3>2, SeqDef
      <3> QED
        BY <2>7, <3>3, LenProperties
    <2>10. ASSUME \A i \in 1 .. Capacity(e) : u[i] # 255
           PROVE  s = InOrder(d, u, n)
      <3>1. \A j \in 1 .. 4 : u[j] # 255
        BY <2>1, <2>10
      <3>2. \A i \in 1 .. n : s[i] = InOrder(d, u, n)[i]
        BY <1>1, <1>3, <2>8, <3>1
      <3>3. PICK w \in Seq(Units(e)) : w = InOrder(d, u, n)
        BY <1>1
      <3>4. Len(s) = Len(w) /\ \A i \in 1 .. Len(s) : s[i] = w[i]
        BY <1>1, <2>9, <3>2, <3>3
      <3> QED
        BY <2>9, <3>3, <3>4, SeqEqual
    <2> QED
      BY <1>3, <2>5, <2>6, <2>9, <2>10
  <1> QED
    BY <1>2, <1>3

-----------------------------------------------------------------------------
(***************************************************************************)
(* A parser that has handed out the results rs and has nu units of the     *)
(* text t before it is in step with the division of the text.              *)
(***************************************************************************)
\* Element i in the order of reading.
Expected(e, d, t, i) ==
    IF d = "reverse" THEN Segments(e, t)[Len(Segments(e, t)) + 1 - i] ELSE Segments(e, t)[i]

\* The texts in which the reverse parser of UTF-8 carries nothing.
Plain(d, t) == d = "forward" \/ \A i \in DOMAIN t : t[i] # 255

Agrees(d, t, r, S) ==
    /\ r.valid = S.valid /\ r.length = S.length
    /\ Plain(d, t) /\ r.valid => r.scalar = S.scalar

InStep(e, d, t, rs, nu) ==
    /\ rs \in Seq(Element(e)) /\ Len(rs) <= Len(Segments(e, t))
    /\ \E p : /\ Starts(e, t, Segments(e, t), p)
              /\ IF d = "reverse" THEN p[Len(Segments(e, t)) + 1 - Len(rs)] = nu + 1
                 ELSE p[Len(rs) + 1] = Len(t) - nu + 1
    /\ \A i \in 1 .. Len(rs) : Agrees(d, t, rs[i], Expected(e, d, t, i))

\* Where the parser reads next.
Cursor(d, t, nu) == IF d = "reverse" THEN nu ELSE Len(t) - nu + 1

\* A parser that has read nothing is in step.
LEMMA BeginInStep ==
    ASSUME NEW e \in Encodings, NEW d \in Directions, NEW t \in Seq(Units(e))
    PROVE  InStep(e, d, t, <<>>, Len(t))
  <1>1. PICK D \in Seq(Element(e)) : D = Segments(e, t)
    BY SegmentsDivide
  <1>2. PICK p : Starts(e, t, D, p)
    BY <1>1, SegmentsDivide
  <1>3. PICK L \in Nat : L = Len(D)
    BY LenProperties
  <1>4. Len(t) \in Nat
    BY LenProperties
  <1>5. p[1] = 1 /\ p[L + 1] = Len(t) + 1
    BY <1>2, <1>3 DEF Starts
  <1>6. <<>> \in Seq(Element(e)) /\ Len(<<>>) = 0 /\ 1 .. 0 = {}
    OBVIOUS
  <1>7. L + 1 - 0 = L + 1 /\ 0 + 1 = 1 /\ Len(t) - Len(t) + 1 = 1 /\ 0 <= L
    BY <1>4
  <1> QED
    BY <1>1, <1>2, <1>3, <1>5, <1>6, <1>7 DEF InStep

\* What a parser in step has next is an element of the division.
LEMMA NextInStep ==
    ASSUME NEW e \in Encodings, NEW d \in Directions, NEW t \in Seq(Units(e)),
           NEW nu \in 1 .. Len(t), NEW rs, InStep(e, d, t, rs, nu)
    PROVE  /\ Len(rs) + 1 <= Len(Segments(e, t))
           /\ Cursor(d, t, nu) \in 1 .. Len(t) /\ Ahead(d, t, Cursor(d, t, nu)) = nu
           /\ IsNext(e, d, t, Cursor(d, t, nu), Expected(e, d, t, Len(rs) + 1))
  <1>1. PICK D \in Seq(Element(e)) : D = Segments(e, t)
    BY SegmentsDivide
  <1>2. PICK L \in Nat : L = Len(D)
    BY LenProperties
  <1>3. PICK m \in Nat : m = Len(rs) /\ m <= L
    <2>1. rs \in Seq(Element(e)) /\ Len(rs) <= L
      BY <1>1, <1>2 DEF InStep
    <2> QED
      BY <2>1, LenProperties
  <1>4. PICK p : /\ Starts(e, t, D, p)
                 /\ IF d = "reverse" THEN p[L + 1 - m] = nu + 1 ELSE p[m + 1] = Len(t) - nu + 1
    BY <1>1, <1>2, <1>3 DEF InStep
  <1>5. Len(t) \in Nat /\ nu \in Int /\ 1 <= nu /\ nu <= Len(t)
    <2>1. Len(t) \in Nat
      BY LenProperties
    <2> QED
      BY <2>1
  <1>6. p[1] = 1 /\ p[L + 1] = Len(t) + 1
    BY <1>2, <1>4 DEF Starts
  <1>7. m < L
    <2>1. CASE m = L
      <3>1. L + 1 - m = 1 /\ m + 1 = L + 1
        BY <2>1
      <3> QED
        BY <1>4, <1>5, <1>6, <3>1
    <2> QED
      BY <1>3, <2>1
  <1>8. CASE d = "reverse"
    <2>1. PICK k \in 1 .. L : k = L - m
      BY <1>7
    <2>2. p[k + 1] = nu + 1
      <3>1. L + 1 - m = k + 1
        BY <2>1
      <3> QED
        BY <1>4, <1>8, <3>1
    <2>3. IsNext(e, "reverse", t, nu, D[k])
      BY <1>2, <1>4, <2>2, ReverseNext
    <2>4. Expected(e, d, t, Len(rs) + 1) = D[k]
      <3>1. L + 1 - (m + 1) = k
        BY <2>1
      <3> QED
        BY <1>1, <1>2, <1>3, <1>8, <3>1 DEF Expected
    <2>5. Cursor(d, t, nu) = nu /\ Ahead(d, t, nu) = nu
      BY <1>8 DEF Cursor, Ahead
    <2>6. m + 1 <= L
      BY <1>7
    <2> QED
      BY <1>1, <1>2, <1>3, <1>8, <2>3, <2>4, <2>5, <2>6
  <1>9. CASE d = "forward"
    <2>1. PICK a \in 1 .. Len(t) : a = Len(t) - nu + 1
      <3>1. Len(t) - nu + 1 \in 1 .. Len(t)
        BY <1>5
      <3> QED
        BY <3>1
    <2>2. PICK k \in 1 .. L : k = m + 1
      BY <1>7
    <2>3. p[k] = a
      BY <1>4, <1>9, <2>1, <2>2
    <2>4. D[k] = SegmentAt(e, t, a)
      BY <1>2, <1>4, <2>3, StartFacts
    <2>5. IsNext(e, d, t, a, D[k])
      BY <1>9, <2>4, ForwardNext
    <2>6. Expected(e, d, t, Len(rs) + 1) = D[k]
      BY <1>1, <1>3, <1>9, <2>2 DEF Expected
    <2>7. Cursor(d, t, nu) = a /\ Ahead(d, t, a) = nu
      <3>1. Len(t) - a + 1 = nu
        BY <1>5, <2>1
      <3> QED
        BY <1>9, <2>1, <3>1 DEF Cursor, Ahead
    <2>8. m + 1 <= L
      BY <1>7
    <2> QED
      BY <1>1, <1>2, <1>3, <2>5, <2>6, <2>7, <2>8
  <1> QED
    BY <1>8, <1>9 DEF Directions

\* A result that agrees with the next element keeps step.
LEMMA StepInStep ==
    ASSUME NEW e \in Encodings, NEW d \in Directions, NEW t \in Seq(Units(e)),
           NEW nu \in 1 .. Len(t), NEW rs, InStep(e, d, t, rs, nu),
           NEW r \in Element(e), Agrees(d, t, r, Expected(e, d, t, Len(rs) + 1))
    PROVE  InStep(e, d, t, Append(rs, r), nu - r.length)
  <1>1. PICK D \in Seq(Element(e)) : D = Segments(e, t)
    BY SegmentsDivide
  <1>2. PICK L \in Nat : L = Len(D)
    BY LenProperties
  <1>3. rs \in Seq(Element(e))
    BY DEF InStep
  <1>4. PICK m \in Nat : m = Len(rs)
    BY <1>3, LenProperties
  <1>5. m + 1 <= L
    BY <1>1, <1>2, <1>4, NextInStep
  <1>6. PICK p : /\ Starts(e, t, D, p)
                 /\ IF d = "reverse" THEN p[L + 1 - m] = nu + 1 ELSE p[m + 1] = Len(t) - nu + 1
    BY <1>1, <1>2, <1>4 DEF InStep
  <1>7. PICK l \in 1 .. 4 : l = r.length
    BY DEF Element
  <1>8. PICK q \in Seq(Element(e)) : q = Append(rs, r)
    BY <1>3, AppendProperties
  <1>9. /\ Len(q) = m + 1 /\ q[m + 1] = r
        /\ \A i \in 1 .. m : q[i] = rs[i]
    BY <1>3, <1>4, <1>8, AppendProperties
  <1>10. \A i \in 1 .. m + 1 : Agrees(d, t, q[i], Expected(e, d, t, i))
    <2> SUFFICES ASSUME NEW i \in 1 .. m + 1 PROVE Agrees(d, t, q[i], Expected(e, d, t, i))
      OBVIOUS
    <2>1. CASE i = m + 1
      BY <1>4, <1>9, <2>1
    <2>2. CASE i # m + 1
      <3>1. i \in 1 .. m
        BY <2>2
      <3>2. Agrees(d, t, rs[i], Expected(e, d, t, i))
        BY <1>4, <3>1 DEF InStep
      <3> QED
        BY <1>9, <3>1, <3>2
    <2> QED
      BY <2>1, <2>2
  <1>11. Expected(e, d, t, m + 1).length = l
    BY <1>4, <1>7 DEF Agrees
  <1>12. IF d = "reverse" THEN p[L + 1 - (m + 1)] = (nu - l) + 1
         ELSE p[(m + 1) + 1] = Len(t) - (nu - l) + 1
    <2>0. Len(t) \in Nat
      BY LenProperties
    <2>1. CASE d = "reverse"
      <3>1. PICK k \in 1 .. L : k = L - m
        BY <1>5
      <3>2. L + 1 - (m + 1) = k /\ L + 1 - m = k + 1
        BY <3>1
      <3>3. D[k].length = l
        BY <1>1, <1>2, <1>11, <2>1, <3>2 DEF Expected
      <3>4. p[k + 1] = p[k] + l /\ p[k] \in Int
        BY <1>2, <1>6, <3>3, StartFacts
      <3>5. p[k + 1] = nu + 1
        BY <1>6, <2>1, <3>2
      <3>6. p[k] = (nu - l) + 1
        BY <3>4, <3>5
      <3> QED
        BY <2>1, <3>2, <3>6
    <2>2. CASE d # "reverse"
      <3>1. PICK k \in 1 .. L : k = m + 1
        BY <1>5
      <3>2. D[k].length = l
        BY <1>1, <1>11, <2>2, <3>1 DEF Expected
      <3>3. p[k + 1] = p[k] + l
        BY <1>2, <1>6, <3>2, StartFacts
      <3>4. p[k] = Len(t) - nu + 1
        BY <1>6, <2>2, <3>1
      <3>5. p[k + 1] = Len(t) - (nu - l) + 1
        BY <2>0, <3>3, <3>4
      <3> QED
        BY <2>2, <3>1, <3>5
    <2> QED
      BY <2>1, <2>2
  <1> QED
    BY <1>1, <1>2, <1>5, <1>6, <1>7, <1>8, <1>9, <1>10, <1>12 DEF InStep

\* Nothing is missing at the end.
LEMMA EndInStep ==
    ASSUME NEW e \in Encodings, NEW d \in Directions, NEW t \in Seq(Units(e)),
           NEW rs, InStep(e, d, t, rs, 0)
    PROVE  Len(rs) = Len(Segments(e, t))
  <1>1. PICK D \in Seq(Element(e)) : D = Segments(e, t)
    BY SegmentsDivide
  <1>2. PICK L \in Nat : L = Len(D)
    BY LenProperties
  <1>3. PICK m \in Nat : m = Len(rs) /\ m <= L
    <2>1. rs \in Seq(Element(e)) /\ Len(rs) <= L
      BY <1>1, <1>2 DEF InStep
    <2> QED
      BY <2>1, LenProperties
  <1>4. PICK p : /\ Starts(e, t, D, p)
                 /\ IF d = "reverse" THEN p[L + 1 - m] = 0 + 1 ELSE p[m + 1] = Len(t) - 0 + 1
    BY <1>1, <1>2, <1>3 DEF InStep
  <1>5. p[1] = 1 /\ p[L + 1] = Len(t) + 1 /\ Len(t) \in Nat
    BY <1>2, <1>4, LenProperties DEF Starts
  <1>6. \A j, k \in 1 .. L + 1 : j < k => p[j] < p[k]
    BY <1>2, <1>4, StartsAscend
  <1> SUFFICES ASSUME m < L PROVE FALSE
    BY <1>1, <1>2, <1>3
  <1>7. CASE d = "reverse"
    <2>1. PICK k \in 2 .. L + 1 : k = L + 1 - m
      OBVIOUS
    <2>2. p[1] < p[k]
      <3>1. 1 \in 1 .. L + 1 /\ k \in 1 .. L + 1 /\ 1 < k
        OBVIOUS
      <3> QED
        BY <1>6, <3>1
    <2>3. p[k] = 1
      BY <1>4, <1>7, <2>1
    <2> QED
      BY <1>5, <2>2, <2>3
  <1>8. CASE d # "reverse"
    <2>1. p[m + 1] < p[L + 1]
      <3>1. m + 1 \in 1 .. L + 1 /\ L + 1 \in 1 .. L + 1 /\ m + 1 < L + 1
        OBVIOUS
      <3> QED
        BY <1>6, <3>1
    <2>2. p[m + 1] = Len(t) + 1
      BY <1>4, <1>5, <1>8
    <2> QED
      BY <1>5, <2>1, <2>2
  <1> QED
    BY <1>7, <1>8

-----------------------------------------------------------------------------
(***************************************************************************)
(* Encoding.  What encode makes of a scalar value is well-formed and has   *)
(* that value.                                                             *)
(***************************************************************************)

(* The operators hide arithmetic that the provers need not see.            *)
Div(x, k) == x \div k
Rem(x, k) == x % k
Below(r, k) == r \in Nat /\ r < k
Sextets == 0 .. 63
Split2(x, q, r) == q = Div(x, 1024) /\ r = Rem(x, 1024)
Split(x, q, r) == q = Div(x, 64) /\ r = Rem(x, 64)

\* Division by 64 and its remainder.
LEMMA Splits ==
    ASSUME NEW x \in Nat
    PROVE  /\ \E q \in Nat, r \in Sextets : Split(x, q, r) /\ 64 * q + r = x
           /\ Div(x, 1) = x
  BY DEF Div, Rem, Split, Sextets

LEMMA Quotients ==
    ASSUME NEW q \in Nat, NEW r
    PROVE  /\ Below(r, 4096) => Div(4096 * q + r, 4096) = q
           /\ Below(r, 262144) => Div(262144 * q + r, 262144) = q
  <1>1. ASSUME Below(r, 4096) PROVE Div(4096 * q + r, 4096) = q
    <2>1. r \in Nat /\ r < 4096
      BY <1>1 DEF Below
    <2>2. (4096 * q + r) \div 4096 = q
      BY <2>1
    <2> QED
      BY <2>2 DEF Div
  <1>2. ASSUME Below(r, 262144) PROVE Div(262144 * q + r, 262144) = q
    <2>1. r \in Nat /\ r < 262144
      BY <1>2 DEF Below
    <2>2. (262144 * q + r) \div 262144 = q
      BY <2>1
    <2> QED
      BY <2>2 DEF Div
  <1> QED
    BY <1>1, <1>2

\* The digits of a number in base 64.
HasDigits(c, q0, q1, q2, q3) ==
    /\ q0 = Rem(c, 64) /\ q1 = Rem(Div(c, 64), 64)
    /\ q2 = Rem(Div(c, 4096), 64) /\ q3 = Div(c, 262144)
    /\ Div(c, 64) = 4096 * q3 + 64 * q2 + q1
    /\ Div(c, 4096) = 64 * q3 + q2
    /\ 262144 * q3 + 4096 * q2 + 64 * q1 + q0 = c

LEMMA Digits ==
    ASSUME NEW c \in Nat
    PROVE  \E q0, q1, q2 \in Sextets : \E q3 \in Nat : HasDigits(c, q0, q1, q2, q3)
  <1>1. PICK x \in Nat, q0 \in Sextets : Split(c, x, q0) /\ 64 * x + q0 = c
    BY Splits
  <1>2. PICK y \in Nat, q1 \in Sextets : Split(x, y, q1) /\ 64 * y + q1 = x
    BY Splits
  <1>3. PICK q3 \in Nat, q2 \in Sextets : Split(y, q3, q2) /\ 64 * q3 + q2 = y
    BY Splits
  <1>4. Div(c, 4096) = y
    <2>1. Below(64 * q1 + q0, 4096)
      BY DEF Sextets, Below
    <2>2. 4096 * y + (64 * q1 + q0) = c
      BY <1>1, <1>2 DEF Sextets
    <2>3. Div(4096 * y + (64 * q1 + q0), 4096) = y
      BY <2>1, Quotients
    <2> QED
      BY <2>2, <2>3
  <1>5. Div(c, 262144) = q3
    <2>1. Below(4096 * q2 + 64 * q1 + q0, 262144)
      BY DEF Sextets, Below
    <2>2. 262144 * q3 + (4096 * q2 + 64 * q1 + q0) = c
      BY <1>1, <1>2, <1>3 DEF Sextets
    <2>3. Div(262144 * q3 + (4096 * q2 + 64 * q1 + q0), 262144) = q3
      BY <2>1, Quotients
    <2> QED
      BY <2>2, <2>3
  <1>6. 4096 * q3 + 64 * q2 + q1 = x /\ 262144 * q3 + 4096 * q2 + 64 * q1 + q0 = c
    BY <1>1, <1>2, <1>3 DEF Sextets
  <1>7. x = Div(c, 64) /\ q0 = Rem(c, 64)
    BY <1>1 DEF Split
  <1>8. q1 = Rem(Div(c, 64), 64)
    BY <1>2, <1>7 DEF Split
  <1>9. q2 = Rem(Div(c, 4096), 64)
    BY <1>3, <1>4 DEF Split
  <1>10. Div(c, 64) = 4096 * q3 + 64 * q2 + q1
    BY <1>6, <1>7
  <1>11. Div(c, 4096) = 64 * q3 + q2
    BY <1>3, <1>4
  <1> QED
    BY <1>5, <1>6, <1>7, <1>8, <1>9, <1>10, <1>11 DEF HasDigits
\* The second bytes from the conditions on them.
LEMMA SecondByteOf ==
    ASSUME NEW u \in Byte, NEW v \in 128 .. 191,
           u = 224 => v >= 160, u = 237 => v <= 159, u = 240 => v >= 144, u = 244 => v <= 143
    PROVE  v \in SecondBytes(u)
  BY DEF SecondBytes, Byte

\* Sequences of one to four units.
LEMMA One ==
    ASSUME NEW X, NEW a \in X
    PROVE  \E w \in Seq(X) : w = <<a>> /\ Len(w) = 1 /\ w[1] = a
  <1>1. <<a>> \in Seq(X) /\ Len(<<a>>) = 1 /\ <<a>>[1] = a
    OBVIOUS
  <1> QED
    BY <1>1

LEMMA Two ==
    ASSUME NEW X, NEW a \in X, NEW b \in X
    PROVE  \E w \in Seq(X) : w = <<a, b>> /\ Len(w) = 2 /\ w[1] = a /\ w[2] = b
  <1>1. <<a, b>> \in Seq(X) /\ Len(<<a, b>>) = 2
    OBVIOUS
  <1>2. <<a, b>>[1] = a /\ <<a, b>>[2] = b
    OBVIOUS
  <1> QED
    BY <1>1, <1>2

LEMMA Three ==
    ASSUME NEW X, NEW a \in X, NEW b \in X, NEW c \in X
    PROVE  \E w \in Seq(X) : w = <<a, b, c>> /\ Len(w) = 3 /\ w[1] = a /\ w[2] = b /\ w[3] = c
  <1>1. <<a, b, c>> \in Seq(X) /\ Len(<<a, b, c>>) = 3
    OBVIOUS
  <1>2. <<a, b, c>>[1] = a /\ <<a, b, c>>[2] = b /\ <<a, b, c>>[3] = c
    OBVIOUS
  <1> QED
    BY <1>1, <1>2

LEMMA Four ==
    ASSUME NEW X, NEW a \in X, NEW b \in X, NEW c \in X, NEW d \in X
    PROVE  \E w \in Seq(X) : /\ w = <<a, b, c, d>> /\ Len(w) = 4
                             /\ w[1] = a /\ w[2] = b /\ w[3] = c /\ w[4] = d
  <1>1. <<a, b, c, d>> \in Seq(X) /\ Len(<<a, b, c, d>>) = 4
    OBVIOUS
  <1>2. <<a, b, c, d>>[1] = a /\ <<a, b, c, d>>[2] = b /\ <<a, b, c, d>>[3] = c /\ <<a, b, c, d>>[4] = d
    OBVIOUS
  <1> QED
    BY <1>1, <1>2

\* The sequence w of the encoding e is well-formed and has the value v.
Means(e, w, v) ==
    /\ w \in Seq(Units(e)) /\ Len(w) \in 1 .. 4
    /\ WellFormed(e, w) /\ Value(e, w) = v

LEMMA Encodes8 ==
    ASSUME NEW c, ScalarValue(c)
    PROVE  Means("UTF8", EncodeUTF8(c), c)
  <1> HIDE DEF Byte
  <1>0. Units("UTF8") = Byte /\ c \in Nat /\ c <= 1114111 /\ ~(c >= 55296 /\ c <= 57343)
    BY DEF Units, MaxUnit, Byte, ScalarValue
  <1>1. CASE c < 128
    <2>1. EncodeUTF8(c) = <<c>>
      BY <1>0, <1>1 DEF EncodeUTF8
    <2>2. c \in Byte
      BY <1>0, <1>1 DEF Byte
    <2>3. <<c>> \in Seq(Byte) /\ Len(<<c>>) = 1 /\ <<c>>[1] = c
      BY <2>2
    <2>4. Announced(c) = 1
      BY <1>1, <2>2, OneByte
    <2>5. Follows(<<c>>)
      <3>1. 2 .. Len(<<c>>) = {}
        BY <2>3
      <3> QED
        BY <3>1 DEF Follows
    <2>6. Value("UTF8", <<c>>) = c
      BY <2>3, Length1
    <2>7. WellFormed("UTF8", <<c>>)
      BY <2>3, <2>4, <2>5, Meaning8
    <2> QED
      BY <1>0, <2>1, <2>3, <2>6, <2>7 DEF Means
  <1>5. PICK q0 \in Sextets, q1 \in Sextets, q2 \in Sextets, q3 \in Nat : HasDigits(c, q0, q1, q2, q3)
    BY <1>0, Digits
  <1>6. Div(c, 1) = c
    BY <1>0, Splits
  <1>7. /\ q0 \in 0 .. 63 /\ q1 \in 0 .. 63 /\ q2 \in 0 .. 63
        /\ 262144 * q3 + 4096 * q2 + 64 * q1 + q0 = c
    BY <1>5 DEF Sextets, HasDigits
  <1>2. CASE c >= 128 /\ c < 2048
    <2>1. PICK a, b : a = 192 + q1 /\ b = 128 + q0
      OBVIOUS
    <2>2. EncodeUTF8(c) = <<a, b>>
      <3>1. EncodeUTF8(c) = <<192 + Div(c, 64), 128 + Rem(Div(c, 1), 64)>>
        BY <1>0, <1>2 DEF EncodeUTF8, Div, Rem
      <3>2. Div(c, 64) = q1
        <4>1. q3 = 0 /\ q2 = 0
          BY <1>0, <1>2, <1>7
        <4>2. Div(c, 64) = 4096 * 0 + 64 * 0 + q1
          BY <1>5, <4>1 DEF HasDigits
        <4> QED
          BY <1>7, <4>2
      <3> QED
        BY <1>5, <1>6, <2>1, <3>1, <3>2 DEF HasDigits
    <2>3. a \in 194 .. 223 /\ b \in 128 .. 191
      BY <1>0, <1>2, <1>7, <2>1
    <2>4. a \in Byte /\ b \in Byte
      BY <2>3 DEF Byte
    <2>5. PICK w \in Seq(Byte) : w = <<a, b>> /\ Len(w) = 2 /\ w[1] = a /\ w[2] = b
      BY <2>4, Two
    <2>6. Announced(a) = 2
      BY <2>3, <2>4, AnnouncedFacts
    <2>7. b \in SecondBytes(a)
      <3>1. a # 224 /\ a # 237 /\ a # 240 /\ a # 244
        BY <2>3
      <3> QED
        BY <2>3, <2>4, <3>1, SecondByteOf
    <2>8. Follows(w)
      <3>1. Len(w) \in 2 .. 4 /\ ~(Len(w) >= 3) /\ ~(Len(w) = 4)
        BY <2>5
      <3> QED
        BY <2>5, <2>7, <3>1, FollowsFacts
    <2>9. Value("UTF8", w) = 64 * (a - 192) + (b - 128)
      BY <2>5 DEF Value
    <2>10. Value("UTF8", w) = c
      BY <1>0, <1>2, <1>7, <2>1, <2>9
    <2>11. WellFormed("UTF8", w)
      BY <2>5, <2>6, <2>8, Meaning8
    <2> QED
      BY <1>0, <2>2, <2>5, <2>10, <2>11 DEF Means
  <1>3. CASE c >= 2048 /\ c < 65536
    <2>1. PICK a, b, d : a = 224 + (64 * q3 + q2) /\ b = 128 + q1 /\ d = 128 + q0
      OBVIOUS
    <2>2. EncodeUTF8(c) = <<a, b, d>>
      <3>1. EncodeUTF8(c) = <<224 + Div(c, 4096), 128 + Rem(Div(c, 64), 64), 128 + Rem(Div(c, 1), 64)>>
        BY <1>0, <1>3 DEF EncodeUTF8, Div, Rem
      <3> QED
        BY <1>5, <1>6, <2>1, <3>1 DEF HasDigits
    <2>3. /\ a \in 224 .. 239 /\ b \in 128 .. 191 /\ d \in 128 .. 191
          /\ a = 224 => b >= 160
          /\ a = 237 => b <= 159
      <3>1. q3 = 0
        BY <1>0, <1>3, <1>7
      <3> QED
        BY <1>0, <1>3, <1>7, <2>1, <3>1
    <2>4. a \in Byte /\ b \in Byte /\ d \in Byte
      BY <2>3 DEF Byte
    <2>5. PICK w \in Seq(Byte) : w = <<a, b, d>> /\ Len(w) = 3 /\ w[1] = a /\ w[2] = b /\ w[3] = d
      BY <2>4, Three
    <2>6. Announced(a) = 3
      BY <2>3, <2>4, AnnouncedFacts
    <2>7. b \in SecondBytes(a)
      <3>1. a # 240 /\ a # 244
        BY <2>3
      <3> QED
        BY <2>3, <2>4, <3>1, SecondByteOf
    <2>8. Follows(w)
      <3>1. Len(w) \in 2 .. 4 /\ ~(Len(w) = 4)
        BY <2>5
      <3> QED
        BY <2>3, <2>5, <2>7, <3>1, FollowsFacts
    <2>9. Value("UTF8", w) = 4096 * (a - 224) + 64 * (b - 128) + (d - 128)
      BY <2>5 DEF Value
    <2>10. Value("UTF8", w) = c
      BY <1>0, <1>7, <2>1, <2>9
    <2>11. WellFormed("UTF8", w)
      BY <2>5, <2>6, <2>8, Meaning8
    <2> QED
      BY <1>0, <2>2, <2>5, <2>10, <2>11 DEF Means
  <1>4. CASE c >= 65536
    <2>1. PICK a, b, d, f : a = 240 + q3 /\ b = 128 + q2 /\ d = 128 + q1 /\ f = 128 + q0
      OBVIOUS
    <2>2. EncodeUTF8(c) = <<a, b, d, f>>
      <3>1. EncodeUTF8(c) = <<240 + Div(c, 262144), 128 + Rem(Div(c, 4096), 64),
                              128 + Rem(Div(c, 64), 64), 128 + Rem(Div(c, 1), 64)>>
        BY <1>0, <1>4 DEF EncodeUTF8, Div, Rem
      <3> QED
        BY <1>5, <1>6, <2>1, <3>1 DEF HasDigits
    <2>3. /\ a \in 240 .. 244 /\ b \in 128 .. 191 /\ d \in 128 .. 191 /\ f \in 128 .. 191
          /\ a = 240 => b >= 144
          /\ a = 244 => b <= 143
      BY <1>0, <1>4, <1>7, <2>1
    <2>4. a \in Byte /\ b \in Byte /\ d \in Byte /\ f \in Byte
      BY <2>3 DEF Byte
    <2>5. PICK w \in Seq(Byte) : /\ w = <<a, b, d, f>> /\ Len(w) = 4
                                 /\ w[1] = a /\ w[2] = b /\ w[3] = d /\ w[4] = f
      BY <2>4, Four, SMTT(60)
    <2>6. Announced(a) = 4
      BY <2>3, <2>4, AnnouncedFacts
    <2>7. b \in SecondBytes(a)
      <3>1. a # 224 /\ a # 237
        BY <2>3
      <3> QED
        BY <2>3, <2>4, <3>1, SecondByteOf
    <2>8. Follows(w)
      <3>1. Len(w) \in 2 .. 4
        BY <2>5
      <3> QED
        BY <2>3, <2>5, <2>7, <3>1, FollowsFacts
    <2>9. Value("UTF8", w) = 262144 * (a - 240) + 4096 * (b - 128) + 64 * (d - 128) + (f - 128)
      BY <2>5 DEF Value
    <2>10. Value("UTF8", w) = c
      BY <1>0, <1>7, <2>1, <2>9
    <2>11. WellFormed("UTF8", w)
      BY <2>5, <2>6, <2>8, Meaning8
    <2> QED
      BY <1>0, <2>2, <2>5, <2>10, <2>11 DEF Means
  <1> QED
    BY <1>0, <1>1, <1>2, <1>3, <1>4

LEMMA Unit16Of ==
    ASSUME NEW u \in Int
    PROVE  u \in Units("UTF16") <=> 0 <= u /\ u <= 65535
  BY UnitBounds DEF Units

\* The halves of the twenty bits of a surrogate pair.
LEMMA Halves ==
    ASSUME NEW x \in Nat, x < 1048576
    PROVE  \E h, l \in Nat : /\ h < 1024 /\ l < 1024 /\ 1024 * h + l = x
                             /\ Rem(Div(x, 1024), 1024) = h /\ Rem(x, 1024) = l
  <1>1. PICK h \in Nat, l \in Nat : Split2(x, h, l) /\ l < 1024 /\ 1024 * h + l = x
    <2>1. x \div 1024 \in Nat /\ x % 1024 \in Nat /\ x % 1024 < 1024
      OBVIOUS
    <2>2. 1024 * (x \div 1024) + (x % 1024) = x
      OBVIOUS
    <2> QED
      BY <2>1, <2>2 DEF Split2, Div, Rem
  <1>2. h < 1024
    BY <1>1
  <1>3. h % 1024 = h
    BY <1>2
  <1>4. Rem(h, 1024) = h
    BY <1>3 DEF Rem
  <1>5. h = Div(x, 1024) /\ l = Rem(x, 1024)
    BY <1>1 DEF Split2
  <1> QED
    BY <1>1, <1>2, <1>4, <1>5

LEMMA Encodes16 ==
    ASSUME NEW c, ScalarValue(c)
    PROVE  Means("UTF16", EncodeUTF16(c), c)
  <1>0. c \in Nat /\ c <= 1114111 /\ ~(c >= 55296 /\ c <= 57343)
    BY DEF ScalarValue
  <1>1. CASE c < 65536
    <2>1. EncodeUTF16(c) = <<c>>
      BY <1>1 DEF EncodeUTF16
    <2>2. c \in Units("UTF16")
      BY <1>0, <1>1, Unit16Of
    <2>3. PICK w \in Seq(Units("UTF16")) : w = <<c>> /\ Len(w) = 1 /\ w[1] = c
      BY <2>2, One
    <2>4. ~(c \in Surrogates)
      BY <1>0, UnitRanges
    <2>5. WellFormed("UTF16", w)
      BY <2>3, <2>4, Meaning16
    <2>6. Value("UTF16", w) = c
      BY <2>3 DEF Value
    <2> QED
      BY <2>1, <2>3, <2>5, <2>6 DEF Means
  <1>2. CASE ~(c < 65536)
    <2>1. PICK x \in Nat : x = c - 65536
      BY <1>0, <1>2
    <2>2. PICK h \in Nat, l \in Nat :
            /\ h < 1024 /\ l < 1024 /\ 65536 + 1024 * h + l = c
            /\ Rem(Div(x, 1024), 1024) = h /\ Rem(x, 1024) = l
      <3>1. x < 1048576
        BY <1>0, <2>1
      <3>2. PICK h \in Nat, l \in Nat : /\ h < 1024 /\ l < 1024 /\ 1024 * h + l = x
                                        /\ Rem(Div(x, 1024), 1024) = h /\ Rem(x, 1024) = l
        BY <3>1, Halves
      <3>3. 65536 + 1024 * h + l = c
        BY <1>0, <2>1, <3>2
      <3> QED
        BY <3>2, <3>3
    <2>3. PICK a, b : a = 55296 + h /\ b = 56320 + l
      OBVIOUS
    <2>4. EncodeUTF16(c) = <<a, b>>
      <3>1. EncodeUTF16(c) = <<55296 + Rem(Div(x, 1024), 1024), 56320 + Rem(x, 1024)>>
        BY <1>2, <2>1 DEF EncodeUTF16, Div, Rem
      <3> QED
        BY <2>2, <2>3, <3>1
    <2>5. /\ a \in Int /\ 55296 <= a /\ a <= 56319
          /\ b \in Int /\ 56320 <= b /\ b <= 57343
      BY <2>2, <2>3
    <2>6. a \in Units("UTF16") /\ b \in Units("UTF16")
      BY <2>5, Unit16Of
    <2>7. a \in LeadSurrogates /\ b \in TrailSurrogates
      BY <2>5, UnitRanges
    <2>8. PICK w \in Seq(Units("UTF16")) : w = <<a, b>> /\ Len(w) = 2 /\ w[1] = a /\ w[2] = b
      BY <2>6, Two
    <2>9. WellFormed("UTF16", w)
      BY <2>7, <2>8, Meaning16
    <2>10. Value("UTF16", w) = 65536 + 1024 * (a - 55296) + (b - 56320)
      BY <2>8 DEF Value
    <2>11. Value("UTF16", w) = c
      BY <2>2, <2>3, <2>10
    <2> QED
      BY <2>4, <2>8, <2>9, <2>11 DEF Means
  <1> QED
    BY <1>1, <1>2

\* encode gives every scalar value a well-formed sequence of that value
\* (UTF8.swift:80-107, UTF16.swift:176-189).
THEOREM EncodesTheValue ==
    ASSUME NEW e \in Encodings, NEW c, ScalarValue(c)
    PROVE  Means(e, Encode(e, c), c)
  BY Encodes8, Encodes16 DEF Encode, Encodings

\* decode gives the value of a well-formed sequence, a scalar value.
LEMMA DecodesTheValue16 ==
    ASSUME NEW s \in Seq(Units("UTF16")), WellFormed("UTF16", s)
    PROVE  DecodeUTF16(s) = Value("UTF16", s) /\ ScalarValue(Value("UTF16", s))
  <1>1. \/ Len(s) = 1 /\ ~(s[1] \in Surrogates)
        \/ Len(s) = 2 /\ s[1] \in LeadSurrogates /\ s[2] \in TrailSurrogates
    BY Meaning16
  <1>2. CASE Len(s) = 1
    <2>1. s[1] \in Units("UTF16")
      BY <1>2, ElementOfSeq
    <2>2. s[1] \in Int /\ 0 <= s[1] /\ s[1] <= 65535
      BY <2>1, Unit16
    <2>3. ~(55296 <= s[1] /\ s[1] <= 57343)
      BY <1>1, <1>2, <2>2, UnitRanges
    <2>4. ScalarValue(s[1])
      BY <2>2, <2>3 DEF ScalarValue
    <2> QED
      BY <1>2, <2>4 DEF DecodeUTF16, Value
  <1>3. CASE Len(s) = 2 /\ s[1] \in LeadSurrogates /\ s[2] \in TrailSurrogates
    <2>1. /\ \A x \in LeadSurrogates : x % 1024 = x - 55296
          /\ \A x \in TrailSurrogates : x % 1024 = x - 56320
      BY DEF LeadSurrogates, TrailSurrogates
    <2>2. DecodeUTF16(s) = 65536 + 1024 * (s[1] % 1024) + (s[2] % 1024)
      BY <1>3 DEF DecodeUTF16
    <2>3. Value("UTF16", s) = 65536 + 1024 * (s[1] - 55296) + (s[2] - 56320)
      BY <1>3 DEF Value
    <2>4. s[1] \in Int /\ s[2] \in Int
      <3>1. 1 \in 1 .. Len(s) /\ 2 \in 1 .. Len(s)
        BY <1>3
      <3>2. s[1] \in Units("UTF16") /\ s[2] \in Units("UTF16")
        BY <3>1, ElementOfSeq
      <3> QED
        BY <3>2, Unit16
    <2>5. 55296 <= s[1] /\ s[1] <= 56319 /\ 56320 <= s[2] /\ s[2] <= 57343
      BY <1>3, <2>4, UnitRanges
    <2>6. PICK a \in Nat, b \in Nat : /\ a < 1024 /\ b < 1024
                                      /\ a = s[1] - 55296 /\ b = s[2] - 56320
      BY <2>4, <2>5
    <2>7. ScalarValue(65536 + 1024 * a + b)
      BY <2>6 DEF ScalarValue
    <2>8. ScalarValue(Value("UTF16", s))
      BY <2>3, <2>6, <2>7
    <2> QED
      BY <1>3, <2>1, <2>2, <2>3, <2>8
  <1> QED
    BY <1>1, <1>2, <1>3

LEMMA DecodesValue ==
    ASSUME NEW e \in Encodings, NEW s \in Seq(Units(e)), Len(s) \in 1 .. 4, WellFormed(e, s)
    PROVE  Decode(e, s) = Value(e, s) /\ ScalarValue(Value(e, s))
  <1>1. CASE e = "UTF8"
    <2>1. s \in Seq(Byte)
      BY <1>1 DEF Units, MaxUnit, Byte
    <2> QED
      BY <1>1, <2>1, DecodesTheValue DEF Decode
  <1>2. CASE e = "UTF16"
    BY <1>2, DecodesTheValue16 DEF Decode
  <1> QED
    BY <1>1, <1>2 DEF Encodings

\* transcode keeps the value of a well-formed sequence.
LEMMA TranscodesTheValue ==
    ASSUME NEW e \in Encodings, NEW o \in Encodings, NEW s, NEW v, Means(e, s, v)
    PROVE  Means(o, Transcode(o, e, s), v)
  <1>1. s \in Seq(Units(e)) /\ Len(s) \in 1 .. 4 /\ WellFormed(e, s) /\ Value(e, s) = v
    BY DEF Means
  <1>2. CASE o = e
    BY <1>2 DEF Transcode
  <1>3. CASE o # e
    <2>1. Transcode(o, e, s) = Encode(o, Decode(e, s))
      BY <1>3 DEF Transcode
    <2>2. Decode(e, s) = v /\ ScalarValue(v)
      BY <1>1, DecodesValue
    <2> QED
      BY <2>1, <2>2, EncodesTheValue
  <1> QED
    BY <1>2, <1>3

\* The replacement character.
LEMMA Replaces ==
    ASSUME NEW o \in Encodings
    PROVE  Means(o, EncodedReplacement(o), ReplacementScalar)
  <1>1. ScalarValue(ReplacementScalar)
    BY DEF ScalarValue, ReplacementScalar
  <1>2. CASE o = "UTF16"
    <2>1. EncodedReplacement(o) = EncodeUTF16(ReplacementScalar)
      BY <1>2 DEF EncodedReplacement, EncodeUTF16, ReplacementScalar
    <2> QED
      BY <1>1, <1>2, <2>1, Encodes16
  <1>3. CASE o = "UTF8"
    <2>1. EncodedReplacement(o) = EncodeUTF8(ReplacementScalar)
      <3>1. /\ 65533 \div 4096 = 15 /\ (65533 \div 64) % 64 = 63 /\ (65533 \div 1) % 64 = 61
        OBVIOUS
      <3>2. EncodeUTF8(65533) = <<224 + 65533 \div 4096, 128 + ((65533 \div 64) % 64),
                                   128 + ((65533 \div 1) % 64)>>
        BY DEF EncodeUTF8
      <3>3. EncodeUTF8(65533) = <<239, 191, 189>>
        BY <3>1, <3>2
      <3> QED
        BY <1>3, <3>3 DEF EncodedReplacement, ReplacementScalar
    <2> QED
      BY <1>1, <1>3, <2>1, Encodes8
  <1> QED
    BY <1>2, <1>3 DEF Encodings

\* How many units a value takes in UTF-16, and which are ASCII.
LEMMA Widths ==
    ASSUME NEW w, NEW v, Means("UTF16", w, v)
    PROVE  /\ v \in Nat
           /\ Len(w) = IF v < 65536 THEN 1 ELSE 2
           /\ IsASCIIText(w) <=> v < 128
  <1>1. /\ w \in Seq(Units("UTF16")) /\ Len(w) \in 1 .. 4 /\ WellFormed("UTF16", w)
        /\ Value("UTF16", w) = v
    BY DEF Means
  <1>2. v \in Nat
    BY <1>1, DecodesTheValue16 DEF ScalarValue
  <1>3. \/ Len(w) = 1
        \/ Len(w) = 2 /\ w[1] \in LeadSurrogates /\ w[2] \in TrailSurrogates
    BY <1>1, Meaning16
  <1>4. DOMAIN w = 1 .. Len(w) /\ w[1] \in Units("UTF16")
    BY <1>1, LenProperties, ElementOfSeq
  <1>5. w[1] \in Int /\ 0 <= w[1] /\ w[1] <= 65535
    BY <1>4, Unit16
  <1>6. CASE Len(w) = 1
    <2>1. v = w[1]
      BY <1>1, <1>6 DEF Value
    <2>2. DOMAIN w = {1}
      BY <1>4, <1>6
    <2> QED
      BY <1>2, <1>5, <1>6, <2>1, <2>2 DEF IsASCIIText
  <1>7. CASE Len(w) = 2 /\ w[1] \in LeadSurrogates /\ w[2] \in TrailSurrogates
    <2>1. v = 65536 + 1024 * (w[1] - 55296) + (w[2] - 56320)
      BY <1>1, <1>7 DEF Value
    <2>2. w[2] \in Int
      <3>1. w[2] \in Units("UTF16")
        BY <1>1, <1>7, ElementOfSeq
      <3> QED
        BY <3>1, Unit16
    <2>3. 55296 <= w[1] /\ 56320 <= w[2]
      BY <1>5, <1>7, <2>2, UnitRanges
    <2>4. ~(v < 65536) /\ ~(v < 128) /\ ~(w[1] < 128)
      BY <1>5, <2>1, <2>2, <2>3
    <2>5. 1 \in DOMAIN w
      BY <1>4, <1>7
    <2> QED
      BY <1>2, <1>7, <2>4, <2>5 DEF IsASCIIText
  <1> QED
    BY <1>3, <1>6, <1>7

-----------------------------------------------------------------------------
(***************************************************************************)
(* A text that grows by well-formed sequences.  Its division is unique, so *)
(* it can be given.                                                        *)
(***************************************************************************)
LEMMA StartsUnique ==
    ASSUME NEW e \in Encodings, NEW t \in Seq(Units(e)),
           NEW C \in Seq(Element(e)), NEW p, Starts(e, t, C, p),
           NEW D \in Seq(Element(e)), NEW q, Starts(e, t, D, q)
    PROVE  C = D
  <1>1. PICK M \in Nat, N \in Nat : M = Len(C) /\ N = Len(D)
    BY LenProperties
  <1>2. Len(t) \in Nat
    BY LenProperties
  <1>3. /\ p[1] = 1 /\ p[M + 1] = Len(t) + 1 /\ q[1] = 1 /\ q[N + 1] = Len(t) + 1
        /\ \A k \in 1 .. M : p[k] <= Len(t)
        /\ \A k \in 1 .. N : q[k] <= Len(t)
        /\ \A k \in 1 .. M : C[k] = SegmentAt(e, t, p[k]) /\ p[k + 1] = p[k] + C[k].length
        /\ \A k \in 1 .. N : D[k] = SegmentAt(e, t, q[k]) /\ q[k + 1] = q[k] + D[k].length
    BY <1>1 DEF Starts
  <1> DEFINE S == {k \in 1 .. M + 1 : k <= N + 1 /\ p[k] = q[k]}
  <1>4. 1 \in S
    BY <1>3
  <1>5. ASSUME NEW k \in Int, 1 <= k, k < M + 1, k \in S PROVE k + 1 \in S
    <2>1. k \in 1 .. M /\ k <= N + 1 /\ p[k] = q[k]
      BY <1>5
    <2>2. k # N + 1
      <3>1. p[k] <= Len(t)
        BY <1>3, <2>1
      <3>2. ~(Len(t) + 1 <= Len(t))
        BY <1>2
      <3> QED
        BY <1>3, <2>1, <3>1, <3>2
    <2>3. k \in 1 .. N
      BY <2>1, <2>2
    <2>4. p[k + 1] = q[k + 1]
      BY <1>3, <2>1, <2>3
    <2>5. k + 1 \in 1 .. M + 1 /\ k + 1 <= N + 1
      BY <2>1, <2>3
    <2> QED
      BY <2>4, <2>5
  <1>6. \A k \in Int : 1 <= k /\ k <= M + 1 => k \in S
    <2> HIDE DEF S
    <2>1. 1 \in Int /\ M + 1 \in Int
      OBVIOUS
    <2>2. \A k \in Int : 1 <= k /\ k < M + 1 /\ k \in S => k + 1 \in S
      BY <1>5
    <2> QED
      BY <1>4, <2>1, <2>2, UpwardInduct
  <1>7. \A k \in 1 .. M + 1 : k <= N + 1 /\ p[k] = q[k]
    BY <1>6
  <1>8. M = N
    <2>1. M + 1 \in 1 .. M + 1
      OBVIOUS
    <2>2. M <= N /\ q[M + 1] = Len(t) + 1
      BY <1>3, <1>7, <2>1
    <2>3. ~(M + 1 \in 1 .. N)
      BY <1>2, <1>3, <2>2
    <2> QED
      BY <2>2, <2>3
  <1>9. \A k \in 1 .. M : C[k] = D[k]
    <2> SUFFICES ASSUME NEW k \in 1 .. M PROVE C[k] = D[k]
      OBVIOUS
    <2>1. k \in 1 .. M + 1 /\ k \in 1 .. N
      BY <1>8
    <2> QED
      BY <1>3, <1>7, <2>1
  <1> QED
    BY <1>1, <1>8, <1>9, SeqEqual

\* An element that is well-formed is so whatever comes behind it.
LEMMA ElementStays ==
    ASSUME NEW e \in Encodings, NEW t \in Seq(Units(e)), NEW w \in Seq(Units(e)),
           NEW i \in 1 .. Len(t), SegmentAt(e, t, i).valid
    PROVE  SegmentAt(e, t \o w, i) = SegmentAt(e, t, i)
  <1>1. PICK S : S = SegmentAt(e, t, i)
    OBVIOUS
  <1>2. PICK n \in 1 .. 4 : n = S.length
    BY <1>1, ElementFacts DEF Element
  <1>3. PICK lt \in Nat, lw \in Nat : lt = Len(t) /\ lw = Len(w)
    BY LenProperties
  <1>4. i \in Int /\ 1 <= i /\ i <= lt
    BY <1>3
  <1>5. /\ n <= lt - i + 1 /\ WellFormed(e, Piece(t, i, n)) /\ S.scalar = Piece(t, i, n) /\ S.valid
        /\ \A k \in 1 .. lt - i + 1 : WellFormed(e, Piece(t, i, k)) =>
             S = [valid |-> TRUE, length |-> k, scalar |-> Piece(t, i, k)]
    BY <1>1, <1>2, <1>3, ElementFacts
  <1>6. n \in Nat /\ i + n - 1 <= lt /\ n \in 1 .. lt - i + 1
    BY <1>4, <1>5
  <1>7. PICK u \in Seq(Units(e)) : u = t \o w
    BY ConcatProperties
  <1>8. /\ Len(u) = lt + lw
        /\ \A k \in 1 .. lt : u[k] = t[k]
    <2>1. /\ Len(u) = lt + lw
          /\ \A k \in 1 .. lt + lw : u[k] = IF k <= lt THEN t[k] ELSE w[k - lt]
      BY <1>3, <1>7, ConcatProperties
    <2>2. \A k \in 1 .. lt : k \in 1 .. lt + lw /\ k <= lt
      OBVIOUS
    <2> QED
      BY <2>1, <2>2
  <1>9. Piece(u, i, n) = Piece(t, i, n)
    <2>1. i + n - 1 <= Len(u) /\ i + n - 1 <= Len(t)
      BY <1>3, <1>6, <1>8
    <2>2. /\ Piece(t, i, n) \in Seq(Units(e)) /\ Len(Piece(t, i, n)) = n
          /\ \A j \in 1 .. n : Piece(t, i, n)[j] = t[i + j - 1]
      BY <1>4, <1>6, <2>1, PieceFacts
    <2>3. /\ Piece(u, i, n) \in Seq(Units(e)) /\ Len(Piece(u, i, n)) = n
          /\ \A j \in 1 .. n : Piece(u, i, n)[j] = u[i + j - 1]
      BY <1>4, <1>6, <2>1, PieceFacts
    <2>4. \A j \in 1 .. n : i + j - 1 \in 1 .. lt
      BY <1>4, <1>6
    <2>5. \A j \in 1 .. n : Piece(u, i, n)[j] = Piece(t, i, n)[j]
      BY <1>8, <2>2, <2>3, <2>4
    <2> QED
      BY <2>2, <2>3, <2>5, SeqEqual
  <1>10. i \in 1 .. Len(u) /\ n \in 1 .. Len(u) - i + 1
    BY <1>4, <1>6, <1>8
  <1>11. SegmentAt(e, u, i) = [valid |-> TRUE, length |-> n, scalar |-> Piece(u, i, n)]
    BY <1>5, <1>9, <1>10, ElementFacts
  <1>12. S = [valid |-> TRUE, length |-> n, scalar |-> Piece(t, i, n)]
    BY <1>5, <1>6
  <1> QED
    BY <1>1, <1>7, <1>9, <1>11, <1>12

\* The text t of the encoding e is well-formed and its scalars have the values vs.
Spells(e, t, vs) ==
    /\ t \in Seq(Units(e)) /\ vs \in Seq(Nat)
    /\ Len(Segments(e, t)) = Len(vs)
    /\ \A i \in 1 .. Len(vs) : /\ Segments(e, t)[i].valid
                               /\ Value(e, Segments(e, t)[i].scalar) = vs[i]

LEMMA SpellsNothing ==
    ASSUME NEW e \in Encodings
    PROVE  Spells(e, <<>>, <<>>)
  <1>1. <<>> \in Seq(Units(e)) /\ <<>> \in Seq(Nat) /\ Len(<<>>) = 0 /\ 1 .. 0 = {}
    OBVIOUS
  <1>2. PICK D \in Seq(Element(e)) : D = Segments(e, <<>>)
    BY <1>1, SegmentsDivide
  <1>3. PICK p : Starts(e, <<>>, D, p)
    BY <1>1, <1>2, SegmentsDivide
  <1>4. PICK L \in Nat : L = Len(D)
    BY LenProperties
  <1>5. p[1] = 1 /\ \A k \in 1 .. L : p[k] <= 0
    BY <1>1, <1>3, <1>4 DEF Starts
  <1>6. ~(1 \in 1 .. L)
    BY <1>5
  <1>7. L = 0
    BY <1>6
  <1> QED
    BY <1>1, <1>2, <1>4, <1>7 DEF Spells

\* What Append makes of a sequence.
LEMMA Appended ==
    ASSUME NEW X, NEW rs \in Seq(X), NEW r
    PROVE  /\ Len(rs) \in Nat /\ Len(Append(rs, r)) = Len(rs) + 1
           /\ Append(rs, r)[Len(rs) + 1] = r
           /\ \A i \in 1 .. Len(rs) : Append(rs, r)[i] = rs[i]
  OBVIOUS

\* Appending a well-formed sequence appends its value.
LEMMA SpellsMore ==
    ASSUME NEW e \in Encodings, NEW t, NEW vs, Spells(e, t, vs),
           NEW w, NEW v \in Nat, Means(e, w, v)
    PROVE  Spells(e, t \o w, Append(vs, v))
  <1>1. /\ t \in Seq(Units(e)) /\ vs \in Seq(Nat) /\ w \in Seq(Units(e))
        /\ WellFormed(e, w) /\ Value(e, w) = v
    BY DEF Spells, Means
  <1>2. PICK N \in Nat, n \in 1 .. 4 : N = Len(t) /\ n = Len(w)
    BY <1>1, LenProperties DEF Means
  <1>3. PICK D \in Seq(Element(e)) : D = Segments(e, t)
    BY <1>1, SegmentsDivide
  <1>4. PICK p : Starts(e, t, D, p)
    BY <1>1, <1>3, SegmentsDivide
  <1>5. PICK L \in Nat : L = Len(D) /\ L = Len(vs)
    BY <1>1, <1>3, LenProperties DEF Spells
  <1>6. \A i \in 1 .. L : D[i].valid /\ Value(e, D[i].scalar) = vs[i]
    BY <1>3, <1>5 DEF Spells
  <1>7. PICK u \in Seq(Units(e)) : u = t \o w
    BY <1>1, ConcatProperties
  <1>8. Len(u) = N + n /\ \A k \in 1 .. N + n : u[k] = IF k <= N THEN t[k] ELSE w[k - N]
    BY <1>1, <1>2, <1>7, ConcatProperties
  <1>9. PICK E : E = [valid |-> TRUE, length |-> n, scalar |-> w]
    OBVIOUS
  <1>10. E \in Element(e)
    BY <1>1, <1>9 DEF Element
  <1>11. SegmentAt(e, u, N + 1) = E
    <2>1. N + 1 \in 1 .. Len(u) /\ n \in 1 .. Len(u) - (N + 1) + 1
      BY <1>8
    <2>2. /\ Piece(u, N + 1, n) \in Seq(Units(e)) /\ Len(Piece(u, N + 1, n)) = n
          /\ \A j \in 1 .. n : Piece(u, N + 1, n)[j] = u[(N + 1) + j - 1]
      <3>1. n \in Nat /\ N + 1 \in Int /\ 1 <= N + 1 /\ (N + 1) + n - 1 <= Len(u)
        BY <1>8
      <3> QED
        BY <3>1, PieceFacts
    <2>3. \A j \in 1 .. n : u[(N + 1) + j - 1] = w[j]
      <3> SUFFICES ASSUME NEW j \in 1 .. n PROVE u[(N + 1) + j - 1] = w[j]
        OBVIOUS
      <3>1. PICK k \in 1 .. N + n : k = (N + 1) + j - 1 /\ ~(k <= N) /\ k - N = j
        OBVIOUS
      <3> QED
        BY <1>8, <3>1
    <2>4. Piece(u, N + 1, n) = w
      BY <1>1, <1>2, <2>2, <2>3, SeqEqual
    <2> QED
      BY <1>1, <1>9, <2>1, <2>4, ElementFacts
  <1>12. PICK D2 \in Seq(Element(e)) : D2 = Append(D, E)
    BY <1>10, AppendProperties
  <1>13. /\ Len(D2) = L + 1 /\ D2[L + 1] = E
         /\ \A k \in 1 .. L : D2[k] = D[k]
    <2>1. L = Len(D)
      BY <1>5
    <2>2. /\ Len(Append(D, E)) = Len(D) + 1 /\ Append(D, E)[Len(D) + 1] = E
          /\ \A k \in 1 .. Len(D) : Append(D, E)[k] = D[k]
      BY Appended
    <2>3. /\ Len(D2) = Len(D) + 1 /\ D2[Len(D) + 1] = E
          /\ \A k \in 1 .. Len(D) : D2[k] = D[k]
      BY <1>12, <2>2
    <2> QED
      BY <2>1, <2>3
  <1>14. PICK p2 : p2 = [k \in 1 .. L + 2 |-> IF k <= L + 1 THEN p[k] ELSE (N + 1) + n]
    OBVIOUS
  <1>15. /\ p2[L + 2] = (N + 1) + n
         /\ \A k \in 1 .. L + 1 : p2[k] = p[k]
    BY <1>14
  <1>16. /\ p[1] = 1 /\ p[L + 1] = N + 1
         /\ \A k \in 1 .. L + 1 : p[k] \in Int
    BY <1>2, <1>4, <1>5 DEF Starts
  <1>17. ASSUME NEW k \in 1 .. L + 1
         PROVE  /\ p2[k] >= 1 /\ p2[k] <= N + n
                /\ D2[k] = SegmentAt(e, u, p2[k])
                /\ p2[k + 1] = p2[k] + D2[k].length
    <2>1. CASE k = L + 1
      <3>1. p2[k] = N + 1 /\ p2[k + 1] = (N + 1) + n /\ D2[k] = E /\ E.length = n
        BY <1>9, <1>13, <1>15, <1>16, <2>1
      <3>2. N + 1 >= 1 /\ N + 1 <= N + n
        OBVIOUS
      <3> QED
        BY <1>11, <3>1, <3>2
    <2>2. CASE k # L + 1
      <3>1. k \in 1 .. L /\ k \in 1 .. L + 1 /\ k + 1 \in 1 .. L + 1
        BY <2>2
      <3>2. D2[k] = D[k] /\ p2[k] = p[k] /\ p2[k + 1] = p[k + 1]
        BY <1>13, <1>15, <3>1
      <3>3. /\ p[k] \in 1 .. N /\ D[k] = SegmentAt(e, t, p[k])
            /\ p[k + 1] = p[k] + D[k].length
        <4>1. k \in 1 .. Len(D)
          BY <1>5, <3>1
        <4> QED
          BY <1>1, <1>2, <1>4, <4>1, StartFacts
      <3>4. SegmentAt(e, u, p[k]) = SegmentAt(e, t, p[k])
        BY <1>1, <1>2, <1>6, <1>7, <3>1, <3>3, ElementStays
      <3>5. p[k] >= 1 /\ p[k] <= N + n
        BY <3>3
      <3> QED
        BY <3>2, <3>3, <3>4, <3>5
    <2> QED
      BY <2>1, <2>2
  <1>18. Starts(e, u, D2, p2)
    <2>1. p2[1] = 1 /\ Len(D2) + 1 = L + 2 /\ p2[L + 2] = Len(u) + 1
      <3>1. 1 \in 1 .. L + 1 /\ (L + 1) + 1 = L + 2 /\ (N + 1) + n = (N + n) + 1
        OBVIOUS
      <3> QED
        BY <1>8, <1>13, <1>15, <1>16, <3>1
    <2>2. \A k \in 1 .. L + 2 : p2[k] \in Int
      <3> SUFFICES ASSUME NEW k \in 1 .. L + 2 PROVE p2[k] \in Int
        OBVIOUS
      <3>1. k \in 1 .. L + 1 \/ k = L + 2
        OBVIOUS
      <3>2. (N + 1) + n \in Int
        OBVIOUS
      <3> QED
        BY <1>15, <1>16, <3>1, <3>2
    <2> QED
      BY <1>8, <1>13, <1>17, <2>1, <2>2 DEF Starts
  <1>19. Segments(e, u) = D2
    <2>1. PICK F \in Seq(Element(e)) : F = Segments(e, u)
      BY SegmentsDivide
    <2>2. PICK q : Starts(e, u, F, q)
      BY <2>1, SegmentsDivide
    <2> QED
      BY <1>18, <2>1, <2>2, StartsUnique
  <1>20. PICK vs2 \in Seq(Nat) : vs2 = Append(vs, v)
    BY <1>1, AppendProperties
  <1>21. /\ Len(vs2) = L + 1 /\ vs2[L + 1] = v
         /\ \A k \in 1 .. L : vs2[k] = vs[k]
    BY <1>1, <1>5, <1>20, Appended
  <1>22. \A k \in 1 .. L + 1 : D2[k].valid /\ Value(e, D2[k].scalar) = vs2[k]
    <2> SUFFICES ASSUME NEW k \in 1 .. L + 1
                 PROVE  D2[k].valid /\ Value(e, D2[k].scalar) = vs2[k]
      OBVIOUS
    <2>1. CASE k = L + 1
      BY <1>1, <1>9, <1>13, <1>21, <2>1
    <2>2. CASE k # L + 1
      <3>1. k \in 1 .. L
        BY <2>2
      <3> QED
        BY <1>6, <1>13, <1>21, <3>1
    <2> QED
      BY <2>1, <2>2
  <1> QED
    BY <1>7, <1>13, <1>19, <1>20, <1>21, <1>22 DEF Spells

-----------------------------------------------------------------------------
(***************************************************************************)
(* What the results rs of a parser of the encoding e say of their text: a  *)
(* value for each, how many units these take in UTF-16, and whether they   *)
(* are ASCII.                                                              *)
(***************************************************************************)
ValueOf(e, r) == IF r.valid THEN Value(e, r.scalar) ELSE 65533

\* t spells the first k results.
Copies(e, rs, k, o, t) ==
    \E vs : /\ Spells(o, t, vs) /\ Len(vs) = k
            /\ \A i \in 1 .. k : vs[i] = ValueOf(e, rs[i])

Wide(e, rs) == {i \in 1 .. Len(rs) : ValueOf(e, rs[i]) >= 65536}

Measures(e, rs, n) == n = Len(rs) + Cardinality(Wide(e, rs))

AllASCII(e, rs) == \A i \in 1 .. Len(rs) : ValueOf(e, rs[i]) < 128

LEMMA CopiesNothing ==
    ASSUME NEW e, NEW o \in Encodings
    PROVE  /\ Copies(e, <<>>, 0, o, <<>>) /\ Measures(e, <<>>, 0) /\ AllASCII(e, <<>>)
  <1>1. Len(<<>>) = 0 /\ 1 .. 0 = {}
    OBVIOUS
  <1>2. Wide(e, <<>>) = {}
    BY <1>1 DEF Wide
  <1>3. Cardinality({}) = 0
    BY FS_EmptySet
  <1>4. Copies(e, <<>>, 0, o, <<>>)
    <2>1. Spells(o, <<>>, <<>>) /\ Len(<<>>) = 0 /\ \A i \in 1 .. 0 : FALSE
      BY SpellsNothing
    <2> QED
      BY <2>1 DEF Copies
  <1>5. Measures(e, <<>>, 0)
    <2>1. Cardinality(Wide(e, <<>>)) = 0
      BY <1>2, <1>3, Zenon
    <2>2. Len(<<>>) = 0 /\ 0 = 0 + 0
      BY <1>1
    <2> QED
      BY <2>1, <2>2 DEF Measures
  <1>6. AllASCII(e, <<>>)
    BY <1>1 DEF AllASCII
  <1> QED
    BY <1>4, <1>5, <1>6

\* A result whose value is appended, and one of which nothing is.
LEMMA CopiesMore ==
    ASSUME NEW e, NEW o \in Encodings, NEW X, NEW rs \in Seq(X), NEW r, NEW t, NEW w,
           Copies(e, rs, Len(rs), o, t), ValueOf(e, r) \in Nat, Means(o, w, ValueOf(e, r))
    PROVE  Copies(e, Append(rs, r), Len(rs) + 1, o, t \o w)
  <1>1. PICK L \in Nat : L = Len(rs)
    BY LenProperties
  <1>2. PICK vs : /\ Spells(o, t, vs) /\ Len(vs) = L
                  /\ \A i \in 1 .. L : vs[i] = ValueOf(e, rs[i])
    BY <1>1 DEF Copies
  <1>3. PICK v \in Nat : v = ValueOf(e, r)
    OBVIOUS
  <1>4. Spells(o, t \o w, Append(vs, v))
    BY <1>2, <1>3, SpellsMore
  <1>5. vs \in Seq(Nat)
    BY <1>2 DEF Spells
  <1>6. /\ Len(Append(vs, v)) = L + 1 /\ Append(vs, v)[L + 1] = v
        /\ \A i \in 1 .. L : Append(vs, v)[i] = vs[i]
    BY <1>2, <1>5, Appended
  <1>7. Append(rs, r)[L + 1] = r /\ \A i \in 1 .. L : Append(rs, r)[i] = rs[i]
    BY <1>1, Appended
  <1>8. \A i \in 1 .. L + 1 : Append(vs, v)[i] = ValueOf(e, Append(rs, r)[i])
    <2> SUFFICES ASSUME NEW i \in 1 .. L + 1
                 PROVE  Append(vs, v)[i] = ValueOf(e, Append(rs, r)[i])
      OBVIOUS
    <2>1. i \in 1 .. L \/ i = L + 1
      OBVIOUS
    <2> QED
      BY <1>2, <1>3, <1>6, <1>7, <2>1
  <1> QED
    BY <1>1, <1>4, <1>6, <1>8 DEF Copies

LEMMA CopiesNoMore ==
    ASSUME NEW e, NEW o, NEW X, NEW rs \in Seq(X), NEW r, NEW t,
           Copies(e, rs, Len(rs), o, t)
    PROVE  Copies(e, Append(rs, r), Len(rs), o, t)
  <1>1. \A i \in 1 .. Len(rs) : Append(rs, r)[i] = rs[i]
    BY Appended
  <1> QED
    BY <1>1 DEF Copies

\* How a result of the value v changes the length and the test for ASCII.
LEMMA MeasuresMore ==
    ASSUME NEW e, NEW X, NEW rs \in Seq(X), NEW r, NEW n \in Nat, Measures(e, rs, n),
           NEW v \in Nat, v = ValueOf(e, r)
    PROVE  /\ v < 65536 => Measures(e, Append(rs, r), n + 1)
           /\ ~(v < 65536) => Measures(e, Append(rs, r), n + 2)
           /\ AllASCII(e, Append(rs, r)) <=> AllASCII(e, rs) /\ v < 128
  <1>1. PICK L \in Nat : L = Len(rs)
    BY LenProperties
  <1>2. PICK q : q = Append(rs, r)
    OBVIOUS
  <1>3. /\ Len(q) = L + 1 /\ q[L + 1] = r
        /\ \A i \in 1 .. L : q[i] = rs[i]
    BY <1>1, <1>2, Appended
  <1>4. \A i \in 1 .. L + 1 : i \in 1 .. L \/ i = L + 1
    OBVIOUS
  <1>5. \A i \in 1 .. L : i \in 1 .. L + 1 /\ i # L + 1
    OBVIOUS
  <1>0. L + 1 \in 1 .. L + 1
    OBVIOUS
  <1>6. AllASCII(e, q) <=> AllASCII(e, rs) /\ v < 128
    <2>1. AllASCII(e, q) <=> \A i \in 1 .. L + 1 : ValueOf(e, q[i]) < 128
      BY <1>3 DEF AllASCII
    <2>2. AllASCII(e, rs) <=> \A i \in 1 .. L : ValueOf(e, rs[i]) < 128
      BY <1>1 DEF AllASCII
    <2> QED
      BY <1>0, <1>3, <1>4, <1>5, <2>1, <2>2
  <1>7. IsFiniteSet(Wide(e, rs)) /\ Cardinality(Wide(e, rs)) \in Nat
    <2>1. IsFiniteSet(1 .. L)
      BY FS_Interval
    <2>2. Wide(e, rs) \subseteq 1 .. L
      BY <1>1 DEF Wide
    <2>3. IsFiniteSet(Wide(e, rs))
      BY <2>1, <2>2, FS_Subset
    <2> QED
      BY <2>3, FS_CardinalityType
  <1>8. n \in Nat /\ n = L + Cardinality(Wide(e, rs))
    BY <1>1, <1>7 DEF Measures
  <1>9. ~(L + 1 \in Wide(e, rs))
    BY <1>1, <1>5 DEF Wide
  <1>10. CASE v < 65536
    <2>1. \A i : i \in Wide(e, q) <=> i \in Wide(e, rs)
      <3>1. ~(v >= 65536)
        BY <1>10
      <3> QED
        BY <1>1, <1>3, <1>4, <1>5, <3>1 DEF Wide
    <2>2. Wide(e, q) = Wide(e, rs)
      BY <2>1
    <2>3. Measures(e, q, n + 1)
      BY <1>3, <1>7, <1>8, <2>2 DEF Measures
    <2> QED
      BY <1>2, <1>6, <1>10, <2>3
  <1>11. CASE ~(v < 65536)
    <2>1. \A i : i \in Wide(e, q) <=> i \in Wide(e, rs) \cup {L + 1}
      <3>1. v >= 65536
        BY <1>11
      <3> QED
        BY <1>0, <1>1, <1>3, <1>4, <1>5, <3>1 DEF Wide
    <2>2. Wide(e, q) = Wide(e, rs) \cup {L + 1}
      BY <2>1
    <2>3. Cardinality(Wide(e, q)) = Cardinality(Wide(e, rs)) + 1
      BY <1>7, <1>9, <2>2, FS_AddElement
    <2>4. Measures(e, q, n + 2)
      BY <1>3, <1>7, <1>8, <2>3 DEF Measures
    <2> QED
      BY <1>2, <1>6, <1>11, <2>4
  <1> QED
    BY <1>10, <1>11

=============================================================================
