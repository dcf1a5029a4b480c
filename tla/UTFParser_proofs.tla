-------------------------- MODULE UTFParser_proofs --------------------------
(***************************************************************************)
(* For every text in every call: the lookahead buffer and the iterator     *)
(* together hold the end of the text, the buffer never overflows, and      *)
(* every result takes at least one unit; the results are the elements that *)
(* the standard divides the text into, with their scalars; what transcode  *)
(* makes of them, and the length of a UTF-16 copy, are those of the text.  *)
(*                                                                         *)
(* The argument: slots that are not in use are zero, and zero is neither a *)
(* leading nor a continuing unit, so a sequence that the parser recognises *)
(* in the word lies within the units in use.  What has been read is then a *)
(* whole number of elements of the division, and the word holds the next   *)
(* one or as much of it as there is.                                       *)
(***************************************************************************)
EXTENDS UTFParser, UnicodeEncodings_proofs

(***************************************************************************)
(* The induction invariant: types, and the phases in which the buffer is   *)
(* empty or the iterator is.                                               *)
(***************************************************************************)
Typed ==
    /\ call \in Calls /\ text \in Texts[enc]
    /\ phase \in {"ascii", "parse", "done"}
    /\ input \in Seq(Units(enc))
    /\ buffer \in [units : Storage(enc), count : 0 .. Capacity(enc)]

IInv ==
    /\ Typed
    /\ LookaheadIsTheText
    /\ phase = "ascii" => call.task = "length" /\ buffer.count = 0
    /\ call.task = "one" /\ phase = "parse" => input = <<>>

-----------------------------------------------------------------------------
(***************************************************************************)
(* The buffer.  content(b, s, i) is unit i of what b and s hold.           *)
(***************************************************************************)
Held(b, s, i) == IF i <= b.count THEN b.units[i] ELSE s[i - b.count]

Clean(en, b) == \A i \in b.count + 1 .. Capacity(en) : b.units[i] = 0

Bounded(en) == [units : Storage(en), count : 0 .. Capacity(en)]

\* Remainders near zero.
LEMMA Remainders ==
    /\ \A x \in -4 .. -1 : x % 4 = x + 4
    /\ \A x \in 0 .. 3 : x % 4 = x
    /\ \A x \in -2 .. -1 : x % 2 = x + 2
    /\ \A x \in 0 .. 1 : x % 2 = x
    /\ \A x \in 0 .. 31 : x % 32 = x
    /\ \A x \in 0 .. 15 : x % 16 = x
  <1>1. \A x \in -4 .. -1 : x % 4 = x + 4
    OBVIOUS
  <1>2. \A x \in 0 .. 3 : x % 4 = x
    OBVIOUS
  <1>3. \A x \in -2 .. -1 : x % 2 = x + 2
    OBVIOUS
  <1>4. \A x \in 0 .. 1 : x % 2 = x
    OBVIOUS
  <1>5. \A x \in 0 .. 31 : x % 32 = x
    OBVIOUS
  <1>6. \A x \in 0 .. 15 : x % 16 = x
    OBVIOUS
  <1> QED
    BY <1>1, <1>2, <1>3, <1>4, <1>5, <1>6

\* Appending k units that there is room for moves them from the front of s into
\* the buffer.
LEMMA AppendFacts ==
    ASSUME NEW en \in Encodings, NEW b \in Bounded(en), Clean(en, b),
           NEW s \in Seq(Units(en)), NEW k \in Nat, k <= Len(s), b.count + k <= Capacity(en)
    PROVE  LET f == AppendAll(en, b, s, k)
               t == SubSeq(s, k + 1, Len(s))
           IN  /\ f \in Bounded(en) /\ f.count = b.count + k /\ Clean(en, f)
               /\ t \in Seq(Units(en)) /\ Len(t) = Len(s) - k
               /\ \A i \in 1 .. b.count + Len(s) : Held(f, t, i) = Held(b, s, i)
  <1> DEFINE f == AppendAll(en, b, s, k)
             t == SubSeq(s, k + 1, Len(s))
  <1>1. en = "UTF8" \/ en = "UTF16"
    BY DEF Encodings
  <1>2. /\ Capacity(en) \in {2, 4} /\ b.count \in 0 .. Capacity(en)
        /\ b.units \in [1 .. Capacity(en) -> Units(en)]
    BY <1>1 DEF Capacity, Bounded, Storage
  <1>3. f.count = b.count + k
    BY <1>1, <1>2 DEF AppendAll, Capacity
  <1>4. \A i \in 1 .. Capacity(en) :
          f.units[i] = IF i > b.count /\ i - b.count <= k THEN s[i - b.count] ELSE b.units[i]
    <2> SUFFICES ASSUME NEW i \in 1 .. Capacity(en)
                 PROVE  f.units[i] = IF i > b.count /\ i - b.count <= k
                                     THEN s[i - b.count] ELSE b.units[i]
      OBVIOUS
    <2> DEFINE j == ((i - b.count - 1) % Capacity(en)) + 1
    <2>1. f.units[i] = IF j <= k THEN s[j] ELSE b.units[i]
      BY DEF AppendAll
    <2>2. CASE i > b.count
      <3>1. j = i - b.count
        BY <1>1, <1>2, <2>2, SMTT(60) DEF Capacity
      <3> QED
        BY <2>1, <2>2, <3>1
    <2>3. CASE ~(i > b.count)
      <3>1. j = i - b.count + Capacity(en)
        <4>1. CASE Capacity(en) = 4
          <5>1. i - b.count - 1 \in -4 .. -1
            BY <1>2, <2>3, <4>1
          <5> QED
            BY <1>2, <4>1, <5>1, Remainders
        <4>2. CASE Capacity(en) = 2
          <5>1. i - b.count - 1 \in -2 .. -1
            BY <1>2, <2>3, <4>2
          <5> QED
            BY <1>2, <4>2, <5>1, Remainders
        <4> QED
          BY <1>2, <4>1, <4>2
      <3>2. ~(j <= k)
        BY <1>2, <2>3, <3>1
      <3> QED
        BY <2>1, <2>3, <3>2
    <2> QED
      BY <2>2, <2>3
  <1>5. /\ \A i \in 1 .. Capacity(en) : f.units[i] \in Units(en)
        /\ f.units \in [1 .. Capacity(en) -> Units(en)]
    <2>1. \A i \in 1 .. Capacity(en) : f.units[i] \in Units(en)
      <3> SUFFICES ASSUME NEW i \in 1 .. Capacity(en) PROVE f.units[i] \in Units(en)
        OBVIOUS
      <3>1. i > b.count /\ i - b.count <= k => s[i - b.count] \in Units(en)
        BY <1>2
      <3> QED
        BY <1>2, <1>4, <3>1
    <2>2. f.units = [i \in 1 .. Capacity(en) |-> f.units[i]]
      BY DEF AppendAll
    <2> QED
      BY <2>1, <2>2
  <1>6. f \in Bounded(en)
    <2>1. f = [units |-> f.units, count |-> f.count]
      BY DEF AppendAll
    <2> QED
      BY <1>2, <1>3, <1>5, <2>1 DEF Bounded, Storage
  <1>7. Clean(en, f)
    <2> SUFFICES ASSUME NEW i \in f.count + 1 .. Capacity(en) PROVE f.units[i] = 0
      BY DEF Clean
    <2>1. i \in 1 .. Capacity(en) /\ i \in b.count + 1 .. Capacity(en) /\ ~(i - b.count <= k)
      BY <1>2, <1>3
    <2> QED
      BY <1>4, <2>1 DEF Clean
  <1>8. /\ t \in Seq(Units(en)) /\ Len(t) = Len(s) - k
        /\ \A i \in 1 .. Len(s) - k : t[i] = s[i + k]
    OBVIOUS
  <1> HIDE DEF f, t
  <1>9. \A i \in 1 .. b.count + Len(s) : Held(f, t, i) = Held(b, s, i)
    <2> SUFFICES ASSUME NEW i \in 1 .. b.count + Len(s)
                 PROVE  Held(f, t, i) = Held(b, s, i)
      BY <1>2
    <2>1. CASE i <= b.count + k
      <3>1. i \in 1 .. Capacity(en) /\ Held(f, t, i) = f.units[i]
        BY <1>2, <1>3, <2>1 DEF Held
      <3> QED
        BY <1>2, <1>4, <2>1, <3>1 DEF Held
    <2>2. CASE i > b.count + k
      <3>1. i - f.count \in 1 .. Len(s) - k /\ i - f.count + k = i - b.count
        BY <1>2, <1>3, <2>2
      <3>2. t[i - f.count] = s[i - b.count]
        BY <1>8, <3>1
      <3> QED
        BY <1>2, <1>3, <2>2, <3>2 DEF Held
    <2> QED
      BY <1>2, <2>1, <2>2
  <1> QED
    BY <1>3, <1>6, <1>7, <1>8, <1>9 DEF f, t

\* Shifting n units out of the buffer drops the first n of what it holds.
LEMMA ShiftFacts ==
    ASSUME NEW en \in Encodings, NEW b \in Bounded(en), Clean(en, b),
           NEW s \in Seq(Units(en)), NEW n \in 0 .. b.count
    PROVE  LET f == ShiftOut(en, b, n)
           IN  /\ f \in Bounded(en) /\ f.count = b.count - n /\ Clean(en, f)
               /\ \A i \in 1 .. f.count + Len(s) : Held(f, s, i) = Held(b, s, i + n)
  <1> DEFINE f == ShiftOut(en, b, n)
  <1>1. en = "UTF8" \/ en = "UTF16"
    BY DEF Encodings
  <1>2. /\ Capacity(en) \in {2, 4} /\ b.count \in 0 .. Capacity(en)
        /\ b.units \in [1 .. Capacity(en) -> Units(en)]
    BY <1>1 DEF Capacity, Bounded, Storage
  <1>0. 0 \in Units(en)
    BY ZeroIsAUnit
  <1>3. f.count = b.count - n
    BY <1>1, <1>2 DEF ShiftOut, Capacity
  <1>4. \A i \in 1 .. Capacity(en) :
          f.units[i] = IF i + n <= Capacity(en) THEN b.units[i + n] ELSE 0
    BY DEF ShiftOut
  <1>5. f.units \in [1 .. Capacity(en) -> Units(en)]
    <2>1. ASSUME NEW i \in 1 .. Capacity(en)
          PROVE  f.units[i] \in Units(en)
      <3>1. CASE i + n <= Capacity(en)
        <4>1. i + n \in 1 .. Capacity(en)
          BY <1>2, <3>1
        <4> QED
          BY <1>2, <1>4, <3>1, <4>1
      <3>2. CASE ~(i + n <= Capacity(en))
        BY <1>0, <1>4, <3>2
      <3> QED
        BY <3>1, <3>2
    <2>2. f.units = [i \in 1 .. Capacity(en) |-> f.units[i]]
      BY DEF ShiftOut
    <2> QED
      BY <2>1, <2>2
  <1>6. f \in Bounded(en)
    <2>1. f = [units |-> f.units, count |-> f.count]
      BY DEF ShiftOut
    <2> QED
      BY <1>2, <1>3, <1>5, <2>1 DEF Bounded, Storage
  <1>7. Clean(en, f)
    <2> SUFFICES ASSUME NEW i \in f.count + 1 .. Capacity(en) PROVE f.units[i] = 0
      BY DEF Clean
    <2>1. i \in 1 .. Capacity(en) /\ i + n > b.count
      BY <1>2, <1>3
    <2>2. i + n <= Capacity(en) => b.units[i + n] = 0
      BY <1>2, <2>1 DEF Clean
    <2> QED
      BY <1>4, <2>1, <2>2
  <1>8. \A i \in 1 .. f.count + Len(s) : Held(f, s, i) = Held(b, s, i + n)
    <2> SUFFICES ASSUME NEW i \in 1 .. f.count + Len(s)
                 PROVE  Held(f, s, i) = Held(b, s, i + n)
      BY <1>2, <1>3
    <2>1. CASE i <= f.count
      BY <1>2, <1>3, <1>4, <2>1 DEF Held
    <2>2. CASE i > f.count
      BY <1>2, <1>3, <2>2 DEF Held
    <2> QED
      BY <1>2, <1>3, <2>1, <2>2
  <1> QED
    BY <1>3, <1>6, <1>7, <1>8

-----------------------------------------------------------------------------
(***************************************************************************)
(* The parsers take what the buffer holds.                                 *)
(***************************************************************************)

\* Zero neither leads nor continues a sequence.
LEMMA ZeroUnit ==
    /\ ~Continues(0) /\ ~IsLeadSurrogate(0) /\ ~IsTrailSurrogate(0)
    /\ \A v : ~Begins2(0, v) /\ ~Begins3(0, v) /\ ~Begins4(0, v)
  <1>1. 0 \div 64 = 0 /\ 0 \div 1024 = 0 /\ 0 \div 32 = 0 /\ 0 \div 16 = 0 /\ 0 \div 8 = 0
    OBVIOUS
  <1> QED
    BY <1>1 DEF Continues, IsLeadSurrogate, IsTrailSurrogate, Begins2, Begins3, Begins4

\* The unit that was read last of a sequence, whole or truncated, is not zero.
LEMMA LastUnit ==
    ASSUME NEW en \in Encodings, NEW d \in Directions, NEW u, NEW n \in 2 .. 4,
           Complete(en, InOrder(d, u, n), n) \/ Incomplete(en, InOrder(d, u, n), n)
    PROVE  u[n] # 0
  <1> DEFINE s == InOrder(d, u, n)
  <1>1. CASE d = "forward"
    <2>1. s[n] = u[n]
      BY <1>1 DEF InOrder
    <2>2. Continues(s[n]) \/ IsTrailSurrogate(s[n])
      <3> HIDE DEF s
      <3>1. Complete(en, s, n) \/ Incomplete(en, s, n)
        BY DEF s
      <3> QED
        BY <3>1 DEF Complete, Incomplete, Begins2, Begins3, Begins4
    <2> QED
      BY <2>1, <2>2, ZeroUnit
  <1>2. CASE d = "reverse"
    <2>1. s[1] = u[n]
      BY <1>2 DEF InOrder
    <2>2. \/ IsLeadSurrogate(s[1])
          \/ Begins2(s[1], s[2]) \/ Begins3(s[1], s[2]) \/ Begins4(s[1], s[2])
      <3> HIDE DEF s
      <3>1. Complete(en, s, n) \/ Incomplete(en, s, n)
        BY DEF s
      <3> QED
        BY <3>1 DEF Complete, Incomplete
    <2> QED
      BY <2>1, <2>2, ZeroUnit
  <1> QED
    BY <1>1, <1>2 DEF Directions

\* At least one unit and no more than there are (UTFEncoding.swift:70-71).
LEMMA ParseTakes ==
    ASSUME NEW en \in Encodings, NEW d \in Directions,
           NEW b \in Bounded(en), Clean(en, b), b.count > 0
    PROVE  ParseMultiple(en, d, b.units).length \in 1 .. b.count
  <1> DEFINE u == b.units
             Lengths == {n \in 2 .. Capacity(en) : Complete(en, InOrder(d, u, n), n)}
  <1>1. Capacity(en) \in {2, 4} /\ b.count \in 1 .. Capacity(en)
    BY DEF Encodings, Capacity, Bounded
  <1>2. ASSUME NEW n \in 2 .. 4, n <= Capacity(en),
               Complete(en, InOrder(d, u, n), n) \/ Incomplete(en, InOrder(d, u, n), n)
        PROVE  n \in 1 .. b.count
    <2>1. u[n] # 0
      BY <1>2, LastUnit
    <2> QED
      BY <1>1, <1>2, <2>1 DEF Clean
  <1>3. ASSUME Lengths # {}
        PROVE  ParseMultiple(en, d, u).length \in 1 .. b.count
    <2>1. (CHOOSE n \in Lengths : TRUE) \in Lengths
      BY <1>3
    <2>2. ParseMultiple(en, d, u).length \in Lengths
      BY <1>3, <2>1 DEF ParseMultiple
    <2>3. PICK n \in 2 .. Capacity(en) :
            n = ParseMultiple(en, d, u).length /\ Complete(en, InOrder(d, u, n), n)
      BY <2>2
    <2> QED
      BY <1>1, <1>2, <2>3
  <1>4. InvalidLength(en, d, u) \in 1 .. b.count
    <2>1. Incomplete(en, InOrder(d, u, 3), 3) => 3 \in 1 .. b.count
      <3>1. Incomplete(en, InOrder(d, u, 3), 3) => Capacity(en) = 4
        BY DEF Incomplete, Capacity
      <3> QED
        BY <1>2, <3>1
    <2>2. Incomplete(en, InOrder(d, u, 2), 2) => 2 \in 1 .. b.count
      BY <1>1, <1>2
    <2> QED
      BY <1>1, <2>1, <2>2 DEF InvalidLength
  <1> QED
    BY <1>3, <1>4 DEF ParseMultiple

-----------------------------------------------------------------------------
(***************************************************************************)
(* Steps.                                                                  *)
(***************************************************************************)
LEMMA CallFacts ==
    ASSUME Typed
    PROVE  /\ enc \in Encodings /\ call.dir \in Directions /\ Capacity(enc) \in {2, 4}
           /\ text \in Seq(Units(enc)) /\ buffer \in Bounded(enc)
           /\ buffer.count \in 0 .. Capacity(enc) /\ Len(input) \in Nat
           /\ Reading \in Seq(Units(enc)) /\ Len(Reading) = Len(text)
  <1>1. enc \in Encodings /\ call.dir \in Directions
    BY CallsAssumption DEF Typed, enc
  <1>2. text \in Seq(Units(enc))
    BY <1>1, TextsAssumption DEF Typed
  <1>3. buffer \in Bounded(enc) /\ Capacity(enc) \in {2, 4} /\ buffer.count \in 0 .. Capacity(enc)
    BY <1>1 DEF Typed, Bounded, Encodings, Capacity
  <1>4. Reverse(text) \in Seq(Units(enc)) /\ Len(Reverse(text)) = Len(text)
    BY <1>2 DEF Reverse
  <1> QED
    BY <1>1, <1>2, <1>3, <1>4 DEF Reading, Typed

LEMMA EmptyBufferFacts ==
    ASSUME NEW en \in Encodings
    PROVE  /\ EmptyBuffer(en) \in Bounded(en) /\ EmptyBuffer(en).count = 0
           /\ Clean(en, EmptyBuffer(en)) /\ Capacity(en) \in {2, 4}
  <1>1. Capacity(en) \in {2, 4} /\ 0 \in Units(en)
    BY ZeroIsAUnit DEF Encodings, Capacity
  <1>2. EmptyBuffer(en) = [units |-> [i \in 1 .. Capacity(en) |-> 0], count |-> 0]
    BY DEF EmptyBuffer
  <1>3. [i \in 1 .. Capacity(en) |-> 0] \in Storage(en) /\ 0 \in 0 .. Capacity(en)
    BY <1>1 DEF Storage
  <1>4. EmptyBuffer(en) \in Bounded(en)
    BY <1>2, <1>3 DEF Bounded
  <1>5. Clean(en, EmptyBuffer(en))
    BY <1>1, <1>2 DEF Clean
  <1> QED
    BY <1>1, <1>2, <1>4, <1>5

LEMMA InitIInv == Init => IInv
  <1> SUFFICES ASSUME Init PROVE IInv
    OBVIOUS
  <1>1. enc \in Encodings /\ text \in Seq(Units(enc)) /\ call.dir \in Directions
    BY CallsAssumption, TextsAssumption DEF Init, enc
  <1>2. Reverse(text) \in Seq(Units(enc)) /\ Len(Reverse(text)) = Len(text)
    BY <1>1 DEF Reverse
  <1>3. EmptyBuffer(enc) \in Bounded(enc) /\ EmptyBuffer(enc).count = 0
          /\ Clean(enc, EmptyBuffer(enc)) /\ Capacity(enc) \in {2, 4}
    BY <1>1, EmptyBufferFacts
  <1>4. CASE call.task = "one"
    <2>1. enc = "UTF8" /\ call.dir = "forward"
      BY <1>4, CallsAssumption DEF Init, enc
    <2>2. Len(text) = 4 /\ buffer = [units |-> text, count |-> 4] /\ input = <<>>
            /\ phase = "parse" /\ Capacity(enc) = 4
      BY <1>4, <2>1 DEF Init, Fits, Capacity
    <2>3. text \in [1 .. 4 -> Units(enc)]
      BY <1>1, <2>2, LenProperties
    <2>4. Typed
      <3>1. buffer \in [units : Storage(enc), count : 0 .. Capacity(enc)]
        BY <2>2, <2>3 DEF Storage
      <3>2. call \in Calls /\ text \in Texts[enc] /\ input \in Seq(Units(enc))
        <4>1. call \in Calls /\ text \in Texts[enc]
          BY DEF Init
        <4>2. <<>> \in Seq(Units(enc))
          OBVIOUS
        <4> QED
          BY <2>2, <4>1, <4>2
      <3> QED
        BY <2>2, <3>1, <3>2 DEF Typed
    <2>5. LookaheadIsTheText
      <3>0. Len(text) = 4 /\ phase = "parse"
        BY <2>2
      <3>1. Reading = text /\ NumberUnread = 4 /\ buffer.count = 4
        BY <2>1, <2>2 DEF Reading, NumberUnread
      <3>2. \A i \in 1 .. 4 : Unread(i) = text[i]
        BY <2>2 DEF Unread
      <3>3. \A i \in 1 .. NumberUnread : Unread(i) = Reading[Len(Reading) - NumberUnread + i]
        <4> SUFFICES ASSUME NEW i \in 1 .. 4 PROVE Unread(i) = Reading[4 - 4 + i]
          BY <3>0, <3>1
        <4>1. 4 - 4 + i = i
          OBVIOUS
        <4> QED
          BY <3>1, <3>2, <4>1
      <3>4. \A i \in buffer.count + 1 .. Capacity(enc) : buffer.units[i] = 0
        BY <2>2, <3>1
      <3> QED
        BY <1>4, <3>0, <3>1, <3>3, <3>4, SMTT(60) DEF LookaheadIsTheText
    <2> QED
      BY <2>2, <2>4, <2>5 DEF IInv
  <1>5. CASE call.task # "one"
    <2>1. buffer = EmptyBuffer(enc) /\ input = Reading
      BY <1>5, <1>1 DEF Init, Reading, Directions
    <2>2. Reading \in Seq(Units(enc)) /\ Len(Reading) \in Nat
      BY <1>1, <1>2 DEF Reading
    <2>3. Typed
      BY <1>3, <2>1, <2>2 DEF Init, Typed, Bounded
    <2>4. LookaheadIsTheText
      <3> HIDE DEF Reading
      <3>1. NumberUnread = Len(Reading) /\ \A i \in 1 .. NumberUnread : Unread(i) = Reading[i]
        BY <1>3, <2>1, <2>2 DEF NumberUnread, Unread
      <3>2. buffer.count < Capacity(enc) /\ Clean(enc, buffer)
        BY <1>3, <2>1
      <3> QED
        BY <2>2, <3>1, <3>2 DEF LookaheadIsTheText, Clean
    <2>5. phase = "ascii" => call.task = "length"
      BY DEF Init
    <2> QED
      BY <1>3, <1>5, <2>1, <2>3, <2>4, <2>5 DEF IInv
  <1> QED
    BY <1>4, <1>5

\* What is left of the text after n units have been taken off what is unread.
LEMMA Taken ==
    ASSUME Typed, LookaheadIsTheText, UNCHANGED <<call, text>>,
           NEW n \in 0 .. NumberUnread,
           buffer' \in Bounded(enc), buffer'.count < Capacity(enc), Clean(enc, buffer'),
           input' \in Seq(Units(enc)),
           buffer'.count + Len(input') = NumberUnread - n,
           \A i \in 1 .. NumberUnread - n :
             Held(buffer', input', i) = Held(buffer, input, i + n),
           phase' \in {"ascii", "parse", "done"}
    PROVE  Typed' /\ LookaheadIsTheText'
  <1>1. enc' = enc /\ Reading' = Reading
    BY DEF enc, Reading
  <1>2. /\ Len(Reading) \in Nat /\ NumberUnread \in Nat
        /\ NumberUnread' = NumberUnread - n
    BY CallFacts DEF NumberUnread
  <1>3. Typed'
    BY <1>1 DEF Typed, Bounded
  <1>4. ASSUME NEW i \in 1 .. NumberUnread - n
        PROVE  Unread(i)' = Reading[Len(Reading) - (NumberUnread - n) + i]
    <2>1. Unread(i)' = Held(buffer', input', i)
      BY DEF Unread, Held
    <2>2. Held(buffer, input, i + n) = Unread(i + n)
      BY DEF Unread, Held
    <2>3. Unread(i + n) = Reading[Len(Reading) - NumberUnread + (i + n)]
      BY <1>2 DEF LookaheadIsTheText
    <2>4. Len(Reading) - NumberUnread + (i + n) = Len(Reading) - (NumberUnread - n) + i
      BY <1>2
    <2> QED
      BY <2>1, <2>2, <2>3, <2>4
  <1>5. NumberUnread <= Len(Reading)
    BY DEF LookaheadIsTheText
  <1> QED
    BY <1>1, <1>2, <1>3, <1>4, <1>5 DEF LookaheadIsTheText, Clean

\* What every step has to work with.
LEMMA Before ==
    ASSUME IInv
    PROVE  /\ Typed /\ LookaheadIsTheText
           /\ Clean(enc, buffer) /\ NumberUnread = buffer.count + Len(input)
           /\ phase = "ascii" => call.task = "length" /\ buffer.count = 0
           /\ buffer.count < Capacity(enc) \/ (call.task = "one" /\ phase = "parse")
           /\ call.task = "one" /\ phase = "parse" => input = <<>>
  BY DEF IInv, LookaheadIsTheText, Clean, NumberUnread

\* After a result the call goes on, or returns; _decodeOne returns.
LEMMA Outcome ==
    ASSUME (\E s : Valid(s)) \/ (\E n : Error(n)), UNCHANGED call
    PROVE  /\ phase' \in {"parse", "done"}
           /\ call.task = "one" => phase' = "done"
  BY DEF Valid, Error, AfterResult

\* One unit from the iterator, past an empty buffer.
LEMMA FromInput ==
    ASSUME IInv, buffer.count = 0, input # <<>>, input' = Tail(input),
           UNCHANGED <<call, text, buffer>>, phase' \in {"ascii", "parse", "done"}
    PROVE  Typed' /\ LookaheadIsTheText' /\ NumberUnread' < NumberUnread
  <1>1. /\ Typed /\ LookaheadIsTheText /\ Clean(enc, buffer)
        /\ NumberUnread = buffer.count + Len(input)
    BY Before
  <1>2. /\ input \in Seq(Units(enc)) /\ buffer \in Bounded(enc) /\ Capacity(enc) \in {2, 4}
        /\ Len(input) \in Nat
    BY <1>1, CallFacts DEF Typed
  <1>3. /\ input' \in Seq(Units(enc)) /\ Len(input') = Len(input) - 1 /\ Len(input) >= 1
        /\ \A i \in 1 .. Len(input) - 1 : input'[i] = input[i + 1]
    BY <1>2
  <1>4. /\ 1 \in 0 .. NumberUnread
        /\ buffer'.count + Len(input') = NumberUnread - 1
    BY <1>1, <1>2, <1>3
  <1>5. \A i \in 1 .. NumberUnread - 1 :
          Held(buffer', input', i) = Held(buffer, input, i + 1)
    BY <1>1, <1>2, <1>3 DEF Held
  <1>6. Typed' /\ LookaheadIsTheText'
    BY <1>1, <1>2, <1>3, <1>4, <1>5, Taken
  <1>7. NumberUnread' = NumberUnread - 1 /\ NumberUnread \in Nat
    BY <1>1, <1>2, <1>4 DEF NumberUnread
  <1> QED
    BY <1>6, <1>7

LEMMA CountASCIIStep ==
    ASSUME IInv, CountASCII PROVE IInv' /\ NumberUnread' < NumberUnread
  <1>1. Typed' /\ LookaheadIsTheText' /\ NumberUnread' < NumberUnread
    BY Before, FromInput DEF CountASCII
  <1> QED
    BY <1>1, Before DEF CountASCII, IInv

LEMMA ScalarFromInputStep ==
    ASSUME IInv, ScalarFromInput PROVE IInv' /\ NumberUnread' < NumberUnread
  <1>1. phase' \in {"parse", "done"} /\ (call.task = "one" => phase' = "done")
    BY Outcome DEF ScalarFromInput
  <1>2. Typed' /\ LookaheadIsTheText' /\ NumberUnread' < NumberUnread
    BY <1>1, FromInput DEF ScalarFromInput
  <1> QED
    BY <1>1, <1>2 DEF ScalarFromInput, IInv

\* The end of the ASCII loop and that of the input take nothing.
LEMMA EndSteps ==
    ASSUME IInv, OnlyASCII \/ EmptyInput PROVE IInv' /\ phase' # phase
  <1>1. /\ UNCHANGED <<call, text, buffer, input>> /\ phase' = "done" /\ phase # "done"
        /\ buffer.count = 0
    BY Before DEF OnlyASCII, EmptyInput
  <1>2. Typed' /\ LookaheadIsTheText'
    <2>1. /\ Typed /\ LookaheadIsTheText /\ Clean(enc, buffer)
          /\ NumberUnread = buffer.count + Len(input)
      BY Before
    <2>2. /\ enc' = enc /\ Reading' = Reading /\ NumberUnread' = NumberUnread
          /\ \A i \in 1 .. NumberUnread : Unread(i)' = Unread(i)
      BY <1>1 DEF enc, Reading, NumberUnread, Unread
    <2>3. Typed'
      BY <1>1, <2>1, <2>2 DEF Typed
    <2>4. Capacity(enc) \in {2, 4}
      BY <2>1, CallFacts
    <2> QED
      BY <1>1, <2>1, <2>2, <2>3, <2>4 DEF LookaheadIsTheText
  <1> QED
    BY <1>1, <1>2 DEF IInv

LEMMA SeedParserStep ==
    ASSUME IInv, SeedParser PROVE IInv' /\ phase' # phase
  <1> DEFINE b == EmptyBuffer(enc)
             f == AppendAll(enc, b, input, 1)
             t == SubSeq(input, 2, Len(input))
  <1>1. /\ Typed /\ LookaheadIsTheText /\ buffer.count = 0 /\ call.task = "length"
        /\ NumberUnread = buffer.count + Len(input) /\ phase = "ascii"
    BY Before DEF SeedParser
  <1>2. /\ enc \in Encodings /\ Capacity(enc) \in {2, 4} /\ Len(input) \in Nat
        /\ input \in Seq(Units(enc)) /\ input # <<>>
    BY <1>1, CallFacts DEF Typed, SeedParser
  <1>3. b \in Bounded(enc) /\ b.count = 0 /\ Clean(enc, b)
    BY <1>2, EmptyBufferFacts
  <1>4. /\ f \in Bounded(enc) /\ f.count = 1 /\ Clean(enc, f)
        /\ t \in Seq(Units(enc)) /\ Len(t) = Len(input) - 1
        /\ \A i \in 1 .. Len(input) : Held(f, t, i) = Held(b, input, i)
    <2>1. 1 \in Nat /\ 1 <= Len(input) /\ b.count + 1 <= Capacity(enc)
      BY <1>2, <1>3
    <2>2. b.count + 1 = 1 /\ b.count + Len(input) = Len(input) /\ 1 + 1 = 2
      BY <1>2, <1>3
    <2> HIDE DEF b
    <2> QED
      BY <1>2, <1>3, <2>1, <2>2, AppendFacts
  <1>5. buffer' = f /\ input' = t
    BY <1>2 DEF SeedParser
  <1>6. \A i \in 1 .. Len(input) : Held(b, input, i) = Held(buffer, input, i)
    BY <1>1, <1>2, <1>3 DEF Held
  <1> HIDE DEF b, f, t
  <1>7. Typed' /\ LookaheadIsTheText'
    <2>1. /\ buffer' \in Bounded(enc) /\ buffer'.count < Capacity(enc) /\ Clean(enc, buffer')
          /\ input' \in Seq(Units(enc)) /\ 0 \in 0 .. NumberUnread
          /\ buffer'.count + Len(input') = NumberUnread - 0
      BY <1>1, <1>2, <1>4, <1>5
    <2>2. \A i \in 1 .. NumberUnread - 0 :
            Held(buffer', input', i) = Held(buffer, input, i + 0)
      BY <1>1, <1>2, <1>4, <1>5, <1>6
    <2>3. UNCHANGED <<call, text>> /\ phase' \in {"ascii", "parse", "done"}
      BY DEF SeedParser
    <2> QED
      BY <1>1, <2>1, <2>2, <2>3, Taken
  <1> QED
    BY <1>1, <1>7 DEF SeedParser, IInv

LEMMA ScalarFromBufferStep ==
    ASSUME IInv, ScalarFromBuffer PROVE IInv' /\ NumberUnread' < NumberUnread
  <1> DEFINE f == ShiftOut(enc, buffer, 1)
  <1>1. /\ Typed /\ LookaheadIsTheText /\ Clean(enc, buffer)
        /\ NumberUnread = buffer.count + Len(input)
    BY Before
  <1>2. /\ enc \in Encodings /\ Capacity(enc) \in {2, 4} /\ buffer \in Bounded(enc)
        /\ buffer.count \in 1 .. Capacity(enc)
        /\ input \in Seq(Units(enc)) /\ Len(input) \in Nat
    BY <1>1, CallFacts DEF Typed, ScalarFromBuffer
  <1>3. /\ f \in Bounded(enc) /\ f.count = buffer.count - 1 /\ Clean(enc, f)
        /\ \A i \in 1 .. f.count + Len(input) : Held(f, input, i) = Held(buffer, input, i + 1)
    <2>1. 1 \in 0 .. buffer.count
      BY <1>2
    <2> QED
      BY <1>1, <1>2, <2>1, ShiftFacts
  <1>4. buffer' = f /\ input' = input /\ UNCHANGED <<call, text>>
    BY DEF ScalarFromBuffer
  <1>5. phase' \in {"parse", "done"} /\ (call.task = "one" => phase' = "done")
    BY Outcome DEF ScalarFromBuffer
  <1> HIDE DEF f
  <1>6. /\ buffer' \in Bounded(enc) /\ buffer'.count < Capacity(enc) /\ Clean(enc, buffer')
        /\ input' \in Seq(Units(enc)) /\ 1 \in 0 .. NumberUnread
        /\ buffer'.count + Len(input') = NumberUnread - 1
    BY <1>1, <1>2, <1>3, <1>4
  <1>7. \A i \in 1 .. NumberUnread - 1 :
          Held(buffer', input', i) = Held(buffer, input, i + 1)
    BY <1>3, <1>4, <1>6
  <1>8. Typed' /\ LookaheadIsTheText'
    BY <1>1, <1>4, <1>5, <1>6, <1>7, Taken
  <1>9. NumberUnread' = NumberUnread - 1 /\ NumberUnread \in Nat
    BY <1>1, <1>2, <1>6 DEF NumberUnread
  <1> QED
    BY <1>4, <1>5, <1>8, <1>9 DEF IInv

LEMMA ParseBufferedStep ==
    ASSUME IInv, ParseBuffered PROVE IInv' /\ NumberUnread' < NumberUnread
  <1> DEFINE f == AppendAll(enc, buffer, input, Refill)
             t == SubSeq(input, Refill + 1, Len(input))
             n == ParseMultiple(enc, call.dir, f.units).length
             g == ShiftOut(enc, f, n)
  <1>1. /\ Typed /\ LookaheadIsTheText /\ Clean(enc, buffer)
        /\ NumberUnread = buffer.count + Len(input)
        /\ buffer.count < Capacity(enc) \/ input = <<>>
    BY Before
  <1>2. /\ enc \in Encodings /\ call.dir \in Directions /\ Capacity(enc) \in {2, 4}
        /\ buffer \in Bounded(enc) /\ buffer.count \in 0 .. Capacity(enc)
        /\ input \in Seq(Units(enc)) /\ Len(input) \in Nat
    BY <1>1, CallFacts DEF Typed
  <1>3. /\ Refill \in Nat /\ Refill <= Len(input) /\ buffer.count + Refill <= Capacity(enc)
        /\ buffer.count + Refill > 0
    <2>1. buffer.count = 0 => Len(input) > 0
      BY <1>2 DEF ParseBuffered
    <2>2. buffer.count < Capacity(enc) \/ Len(input) = 0
      BY <1>1
    <2> QED
      BY <1>2, <2>1, <2>2 DEF Refill
  <1>4. /\ f \in Bounded(enc) /\ f.count = buffer.count + Refill /\ Clean(enc, f)
        /\ t \in Seq(Units(enc)) /\ Len(t) = Len(input) - Refill
        /\ \A i \in 1 .. buffer.count + Len(input) : Held(f, t, i) = Held(buffer, input, i)
    BY <1>1, <1>2, <1>3, AppendFacts
  <1>5. /\ buffer' = g /\ input' = t /\ UNCHANGED <<call, text>>
        /\ (\E s : Valid(s)) \/ (\E m : Error(m))
    BY DEF ParseBuffered
  <1>6. phase' \in {"parse", "done"} /\ (call.task = "one" => phase' = "done")
    BY <1>5, Outcome
  <1> HIDE DEF f, t
  <1>7. n \in 1 .. f.count /\ f.count \in 1 .. Capacity(enc)
    <2>1. f.count > 0 /\ f.count \in 1 .. Capacity(enc)
      BY <1>2, <1>3, <1>4
    <2> QED
      BY <1>2, <1>4, <2>1, ParseTakes
  <1> HIDE DEF n
  <1>8. /\ g \in Bounded(enc) /\ g.count = f.count - n /\ Clean(enc, g)
        /\ \A i \in 1 .. g.count + Len(t) : Held(g, t, i) = Held(f, t, i + n)
    <2>1. n \in 0 .. f.count
      BY <1>7
    <2> QED
      BY <1>2, <1>4, <2>1, ShiftFacts
  <1> HIDE DEF g
  <1>9. /\ buffer' \in Bounded(enc) /\ buffer'.count < Capacity(enc) /\ Clean(enc, buffer')
        /\ input' \in Seq(Units(enc)) /\ n \in 0 .. NumberUnread
        /\ buffer'.count + Len(input') = NumberUnread - n
    <2>1. g \in Bounded(enc) /\ Clean(enc, g) /\ t \in Seq(Units(enc))
      BY <1>4, <1>8
    <2>2. g.count < Capacity(enc) /\ f.count <= NumberUnread
            /\ g.count + Len(t) = NumberUnread - n
      <3>1. /\ f.count = buffer.count + Refill /\ Len(t) = Len(input) - Refill
            /\ g.count = f.count - n
        BY <1>4, <1>8
      <3>2. /\ buffer.count \in Nat /\ Len(input) \in Nat /\ Refill \in Nat /\ n \in Nat
            /\ Refill <= Len(input) /\ n > 0 /\ f.count \in Nat
            /\ f.count <= Capacity(enc) /\ Capacity(enc) \in Nat
        BY <1>2, <1>3, <1>7
      <3>3. NumberUnread = buffer.count + Len(input)
        BY <1>1
      <3> QED
        BY <3>1, <3>2, <3>3, SMTT(60)
    <2>3. n \in 0 .. NumberUnread
      BY <1>1, <1>2, <1>7, <2>2
    <2> QED
      BY <1>5, <2>1, <2>2, <2>3
  <1>10. \A i \in 1 .. NumberUnread - n :
           Held(buffer', input', i) = Held(buffer, input, i + n)
    <2> SUFFICES ASSUME NEW i \in 1 .. NumberUnread - n
                 PROVE  Held(buffer', input', i) = Held(buffer, input, i + n)
      OBVIOUS
    <2>1. i \in 1 .. g.count + Len(t) /\ i + n \in 1 .. buffer.count + Len(input)
      BY <1>1, <1>2, <1>5, <1>7, <1>9
    <2> QED
      BY <1>4, <1>5, <1>8, <2>1
  <1>11. Typed' /\ LookaheadIsTheText'
    <2>1. phase' \in {"ascii", "parse", "done"}
      BY <1>6
    <2> QED
      BY <1>1, <1>5, <1>9, <1>10, <2>1, Taken
  <1>12. NumberUnread' < NumberUnread
    <2>1. NumberUnread' = buffer'.count + Len(input')
      BY DEF NumberUnread
    <2>2. NumberUnread' = NumberUnread - n /\ NumberUnread \in Nat /\ n \in Nat /\ n > 0
      BY <1>1, <1>2, <1>7, <1>9, <2>1
    <2> QED
      BY <2>2
  <1> QED
    BY <1>5, <1>6, <1>11, <1>12 DEF IInv

-----------------------------------------------------------------------------
(***************************************************************************)
(* The theorems.                                                           *)
(***************************************************************************)

\* Every step keeps the invariant and advances.
LEMMA StepIInv ==
    ASSUME IInv, [Next]_vars
    PROVE  IInv' /\ (UNCHANGED vars \/ NumberUnread' < NumberUnread \/ phase' # phase)
  <1>1. CASE CountASCII
    BY <1>1, CountASCIIStep
  <1>2. CASE OnlyASCII \/ EmptyInput
    BY <1>2, EndSteps
  <1>3. CASE SeedParser
    BY <1>3, SeedParserStep
  <1>4. CASE ScalarFromInput
    BY <1>4, ScalarFromInputStep
  <1>5. CASE ScalarFromBuffer
    BY <1>5, ScalarFromBufferStep
  <1>6. CASE ParseBuffered
    BY <1>6, ParseBufferedStep
  <1>7. CASE UNCHANGED vars
    BY <1>7 DEF vars, IInv, Typed, LookaheadIsTheText, NumberUnread, Unread, Reading, enc
  <1> QED
    BY <1>1, <1>2, <1>3, <1>4, <1>5, <1>6, <1>7 DEF Next, Done

THEOREM InductiveInvariant == Spec => []IInv
  <1>1. Init => IInv
    BY InitIInv
  <1>2. IInv /\ [Next]_vars => IInv'
    BY StepIInv
  <1> QED
    BY <1>1, <1>2, PTL DEF Spec

\* Whatever the text and whoever drives the parser, its lookahead buffer and the
\* iterator hold the end of the text, the buffer never overflows, and its free
\* slots are zero.
THEOREM Lookahead == Spec => []LookaheadIsTheText
  <1>1. IInv => LookaheadIsTheText
    BY DEF IInv
  <1> QED
    BY <1>1, InductiveInvariant, PTL

\* No step of a call leaves both the unread text and the phase as they were: every
\* call of parseScalar that gives a result has taken a unit.
THEOREM Progress == Spec => EveryStepAdvances
  <1>1. IInv /\ [Next]_vars => [NumberUnread' < NumberUnread \/ phase' # phase]_vars
    BY StepIInv
  <1> QED
    BY <1>1, InductiveInvariant, PTL DEF Spec, EveryStepAdvances

-----------------------------------------------------------------------------
(***************************************************************************)
(* The division of the text.  The second induction invariant: the results  *)
(* are the first elements of the division, what is unread begins with the  *)
(* next one, and nothing is unread when a caller returns that did not stop *)
(* early.                                                                  *)
(***************************************************************************)
DInv ==
    /\ InStep(enc, call.dir, text, results, NumberUnread)
    /\ phase = "ascii" => enc = "UTF8"
    /\ phase = "done" /\ call.task # "one" /\ ~(call.strict /\ hadError) => NumberUnread = 0

\* The units that are unread, by their places in the text.
LEMMA UnreadPlaces ==
    ASSUME IInv, NEW i \in 1 .. NumberUnread
    PROVE  /\ NumberUnread \in 1 .. Len(text) /\ Len(text) \in Nat
           /\ Unread(i) = IF call.dir = "forward"
                          THEN text[Cursor(call.dir, text, NumberUnread) + i - 1]
                          ELSE text[Cursor(call.dir, text, NumberUnread) + 1 - i]
  <1>1. /\ call.dir \in Directions /\ text \in Seq(Units(enc)) /\ Len(Reading) = Len(text)
        /\ NumberUnread \in Nat /\ Len(text) \in Nat
    <2>1. Typed
      BY DEF IInv
    <2>2. buffer.count \in Nat /\ Len(input) \in Nat
      BY <2>1, CallFacts
    <2>3. Len(text) \in Nat
      BY <2>1, CallFacts, LenProperties
    <2> QED
      BY <2>1, <2>2, <2>3, CallFacts DEF NumberUnread
  <1>2. NumberUnread <= Len(text) /\ Unread(i) = Reading[Len(text) - NumberUnread + i]
    BY <1>1 DEF IInv, LookaheadIsTheText
  <1>3. PICK nu \in Nat : nu = NumberUnread
    BY <1>1
  <1>4. i \in 1 .. nu /\ nu <= Len(text) /\ nu \in 1 .. Len(text)
    BY <1>1, <1>2, <1>3
  <1>5. CASE call.dir = "forward"
    <2>1. Reading = text /\ Cursor(call.dir, text, nu) = Len(text) - nu + 1
      BY <1>5 DEF Reading, Cursor
    <2>2. (Len(text) - nu + 1) + i - 1 = Len(text) - nu + i
      BY <1>1, <1>4
    <2> QED
      BY <1>1, <1>2, <1>3, <1>4, <1>5, <2>1, <2>2
  <1>6. CASE call.dir = "reverse"
    <2>1. Reading = Reverse(text) /\ Cursor(call.dir, text, nu) = nu
      BY <1>6 DEF Reading, Cursor
    <2>2. PICK j \in 1 .. Len(text) : j = Len(text) - nu + i
      <3>1. PICK L \in Nat, k \in Nat : L = Len(text) /\ k = i /\ 1 <= k /\ k <= nu /\ nu <= L
        BY <1>1, <1>4
      <3>2. L - nu + k \in 1 .. L
        BY <3>1
      <3> QED
        BY <3>1, <3>2
    <2>3. Reverse(text)[j] = text[(Len(text) - j) + 1]
      BY DEF Reverse
    <2>4. (Len(text) - j) + 1 = nu + 1 - i
      BY <1>1, <1>4, <2>2
    <2> QED
      BY <1>1, <1>2, <1>3, <1>4, <1>6, <2>1, <2>2, <2>3, <2>4
  <1> QED
    BY <1>1, <1>5, <1>6 DEF Directions

\* What is next for the parser.
LEMMA NextElement ==
    ASSUME IInv, DInv, NumberUnread # 0
    PROVE  LET a == Cursor(call.dir, text, NumberUnread)
           IN  /\ NumberUnread \in 1 .. Len(text) /\ a \in 1 .. Len(text)
               /\ Ahead(call.dir, text, a) = NumberUnread /\ text[a] = Unread(1)
               /\ IsNext(enc, call.dir, text, a, Expected(enc, call.dir, text, Len(results) + 1))
  <1>1. Typed
    BY DEF IInv
  <1>2. enc \in Encodings /\ call.dir \in Directions /\ text \in Seq(Units(enc))
    BY <1>1, CallFacts
  <1>3. NumberUnread \in Nat
    <2>1. buffer.count \in Nat /\ Len(input) \in Nat
      BY <1>1, CallFacts
    <2> QED
      BY <2>1 DEF NumberUnread
  <1>4. 1 \in 1 .. NumberUnread
    BY <1>3
  <1>5. NumberUnread \in 1 .. Len(text) /\ Len(text) \in Nat
    BY <1>4, UnreadPlaces
  <1>6. InStep(enc, call.dir, text, results, NumberUnread)
    BY DEF DInv
  <1>7. PICK a : a = Cursor(call.dir, text, NumberUnread)
    OBVIOUS
  <1>8. /\ a \in 1 .. Len(text) /\ Ahead(call.dir, text, a) = NumberUnread
        /\ IsNext(enc, call.dir, text, a, Expected(enc, call.dir, text, Len(results) + 1))
    BY <1>2, <1>5, <1>6, <1>7, NextInStep
  <1>9. text[a] = Unread(1)
    <2>1. Unread(1) = IF call.dir = "forward" THEN text[a + 1 - 1] ELSE text[a + 1 - 1]
      BY <1>4, <1>7, UnreadPlaces
    <2>2. a + 1 - 1 = a
      BY <1>5, <1>8
    <2> QED
      BY <2>1, <2>2
  <1> QED
    BY <1>5, <1>7, <1>8, <1>9

\* A result that is the next element.
LEMMA ResultInStep ==
    ASSUME IInv, DInv, NumberUnread # 0, NEW r \in Element(enc),
           results' = Append(results, r), NumberUnread' = NumberUnread - r.length,
           Agrees(call.dir, text, r, Expected(enc, call.dir, text, Len(results) + 1))
    PROVE  InStep(enc, call.dir, text, results', NumberUnread')
  <1>1. Typed
    BY DEF IInv
  <1>2. enc \in Encodings /\ call.dir \in Directions /\ text \in Seq(Units(enc))
    BY <1>1, CallFacts
  <1>3. NumberUnread \in 1 .. Len(text)
    BY NextElement
  <1>4. InStep(enc, call.dir, text, results, NumberUnread)
    BY DEF DInv
  <1>5. InStep(enc, call.dir, text, Append(results, r), NumberUnread - r.length)
    BY <1>2, <1>3, <1>4, StepInStep
  <1> QED
    BY <1>5

\* One unit that is a scalar by itself.
LEMMA UnitInStep ==
    ASSUME IInv, DInv, NumberUnread # 0, IsScalar(enc, Unread(1)),
           results' = Append(results, Result(TRUE, 1, <<Unread(1)>>)),
           NumberUnread' = NumberUnread - 1
    PROVE  InStep(enc, call.dir, text, results', NumberUnread')
  <1>1. enc \in Encodings /\ call.dir \in Directions /\ text \in Seq(Units(enc))
    BY CallFacts DEF IInv
  <1>2. PICK a \in 1 .. Len(text) :
          /\ text[a] = Unread(1)
          /\ IsNext(enc, call.dir, text, a, Expected(enc, call.dir, text, Len(results) + 1))
    BY NextElement
  <1>3. PICK x : x = Unread(1)
    OBVIOUS
  <1>4. PICK S : S = Expected(enc, call.dir, text, Len(results) + 1)
    OBVIOUS
  <1>5. S = [valid |-> TRUE, length |-> 1, scalar |-> <<x>>]
    BY <1>1, <1>2, <1>3, <1>4, ScalarIsNext
  <1>6. S \in Element(enc)
    BY <1>2, <1>4 DEF IsNext
  <1>7. results' = Append(results, S)
    BY <1>3, <1>5 DEF Result
  <1>8. S.length = 1
    BY <1>5
  <1>9. Agrees(call.dir, text, S, S)
    BY DEF Agrees
  <1> QED
    BY <1>4, <1>6, <1>7, <1>8, <1>9, ResultInStep

\* The units that are unread are counted by a number.
LEMMA UnreadCount ==
    ASSUME IInv
    PROVE  /\ NumberUnread = buffer.count + Len(input) /\ buffer.count \in Nat
           /\ Len(input) \in Nat /\ NumberUnread \in Nat
           /\ input \in Seq(Units(enc))
  <1>1. buffer.count \in Nat /\ Len(input) \in Nat /\ input \in Seq(Units(enc))
    <2>1. Typed
      BY DEF IInv
    <2> QED
      BY <2>1, CallFacts DEF Typed
  <1> QED
    BY <1>1 DEF NumberUnread

\* With an empty buffer the next unit is the iterator's.
LEMMA FirstOfInput ==
    ASSUME IInv, buffer.count = 0, input # <<>>
    PROVE  /\ Unread(1) = Head(input) /\ NumberUnread # 0
           /\ input' = Tail(input) /\ buffer' = buffer => NumberUnread' = NumberUnread - 1
  <1>1. /\ NumberUnread = buffer.count + Len(input) /\ input \in Seq(Units(enc))
        /\ Len(input) \in Nat
    BY UnreadCount
  <1>2. Len(input) >= 1
    BY <1>1
  <1>3. Unread(1) = input[1]
    <2>1. ~(1 <= buffer.count) /\ 1 - buffer.count = 1
      OBVIOUS
    <2> QED
      BY <2>1 DEF Unread
  <1>4. Head(input) = input[1]
    BY <1>1, <1>2
  <1>5. ASSUME input' = Tail(input), buffer' = buffer PROVE NumberUnread' = NumberUnread - 1
    <2>1. Len(Tail(input)) = Len(input) - 1
      BY <1>1, <1>2
    <2>2. NumberUnread' = buffer'.count + Len(input')
      BY DEF NumberUnread
    <2> QED
      BY <1>1, <1>5, <2>1, <2>2
  <1> QED
    BY <1>1, <1>2, <1>3, <1>4, <1>5

\* The word of the buffering mode and what is made of it.
LEMMA BufferedWord ==
    ASSUME IInv, ParseBuffered
    PROVE  \E u \in Storage(enc), c \in 1 .. Capacity(enc) :
             LET r == ParseMultiple(enc, call.dir, u)
             IN  /\ c <= NumberUnread /\ (c = Capacity(enc) \/ c = NumberUnread)
                 /\ \A i \in 1 .. c : u[i] = Unread(i)
                 /\ \A i \in c + 1 .. Capacity(enc) : u[i] = 0
                 /\ ~IsScalar(enc, u[1])
                 /\ r.length \in 1 .. c
                 /\ NumberUnread' = NumberUnread - r.length
                 /\ IF r.valid THEN Valid(BufferedScalar(enc, call.dir, u, r.length))
                    ELSE Error(r.length)
  <1> DEFINE f == AppendAll(enc, buffer, input, Refill)
             t == SubSeq(input, Refill + 1, Len(input))
             n == ParseMultiple(enc, call.dir, f.units).length
             g == ShiftOut(enc, f, n)
  <1>1. /\ Typed /\ LookaheadIsTheText /\ Clean(enc, buffer)
        /\ NumberUnread = buffer.count + Len(input)
        /\ buffer.count < Capacity(enc) \/ input = <<>>
    BY Before DEF ParseBuffered
  <1>2. /\ enc \in Encodings /\ call.dir \in Directions /\ Capacity(enc) \in {2, 4}
        /\ buffer \in Bounded(enc) /\ buffer.count \in 0 .. Capacity(enc)
        /\ input \in Seq(Units(enc)) /\ Len(input) \in Nat
    BY <1>1, CallFacts DEF Typed
  <1>3. /\ Refill \in Nat /\ Refill <= Len(input) /\ buffer.count + Refill <= Capacity(enc)
        /\ buffer.count + Refill > 0
        /\ buffer.count + Refill = Capacity(enc) \/ Refill = Len(input)
    <2>1. buffer.count = 0 => Len(input) > 0
      BY <1>2 DEF ParseBuffered
    <2>2. buffer.count < Capacity(enc) \/ Len(input) = 0
      BY <1>1
    <2> QED
      BY <1>2, <2>1, <2>2 DEF Refill
  <1>4. /\ f \in Bounded(enc) /\ f.count = buffer.count + Refill /\ Clean(enc, f)
        /\ t \in Seq(Units(enc)) /\ Len(t) = Len(input) - Refill
        /\ \A i \in 1 .. buffer.count + Len(input) : Held(f, t, i) = Held(buffer, input, i)
    BY <1>1, <1>2, <1>3, AppendFacts
  <1>5. /\ buffer' = g /\ input' = t
        /\ IF ParseMultiple(enc, call.dir, f.units).valid
           THEN Valid(BufferedScalar(enc, call.dir, f.units, n)) ELSE Error(n)
    BY DEF ParseBuffered
  <1> HIDE DEF f, t
  <1>6. PICK u \in Storage(enc) : u = f.units
    BY <1>4 DEF Bounded
  <1>7. PICK c \in 1 .. Capacity(enc) : c = f.count
    <2>1. f.count > 0 /\ f.count \in 1 .. Capacity(enc)
      BY <1>2, <1>3, <1>4
    <2> QED
      BY <2>1
  <1>8. n \in 1 .. c
    <2>1. f.count > 0
      BY <1>3, <1>4
    <2> QED
      BY <1>2, <1>4, <1>7, <2>1, ParseTakes
  <1>9. PICK k \in 1 .. c : k = n
    BY <1>8
  <1>10. g.count = c - k /\ c \in Nat
    <2>1. n \in 0 .. f.count
      BY <1>2, <1>7, <1>8
    <2>2. g.count = f.count - n
      BY <1>2, <1>4, <2>1, ShiftFacts
    <2> QED
      BY <1>2, <1>7, <1>9, <2>2
  <1> HIDE DEF g
  <1>11. c = buffer.count + Refill
    BY <1>4, <1>7
  <1>12. c <= NumberUnread /\ (c = Capacity(enc) \/ c = NumberUnread)
    BY <1>1, <1>2, <1>3, <1>11
  <1>13. \A i \in 1 .. c : u[i] = Unread(i)
    <2> SUFFICES ASSUME NEW i \in 1 .. c PROVE u[i] = Unread(i)
      OBVIOUS
    <2>1. i \in 1 .. buffer.count + Len(input) /\ i <= f.count
      BY <1>1, <1>2, <1>7, <1>10, <1>12
    <2>2. Held(f, t, i) = u[i]
      BY <1>6, <2>1 DEF Held
    <2>3. Held(buffer, input, i) = Unread(i)
      BY DEF Held, Unread
    <2> QED
      BY <1>4, <2>1, <2>2, <2>3
  <1>14. \A i \in c + 1 .. Capacity(enc) : u[i] = 0
    BY <1>4, <1>6, <1>7 DEF Clean
  <1>15. ~IsScalar(enc, u[1])
    <2>1. u[1] = Unread(1)
      BY <1>2, <1>13
    <2>2. CASE buffer.count = 0
      <3>1. input # <<>> /\ ~IsScalar(enc, Head(input))
        BY <2>2 DEF ParseBuffered
      <3> QED
        BY <2>1, <2>2, <3>1, FirstOfInput
    <2>3. CASE buffer.count # 0
      <3>1. 1 <= buffer.count
        BY <1>2, <2>3
      <3>2. Unread(1) = buffer.units[1] /\ ~IsScalar(enc, buffer.units[1])
        BY <2>3, <3>1 DEF ParseBuffered, Unread
      <3> QED
        BY <2>1, <3>2
    <2> QED
      BY <2>2, <2>3
  <1>16. NumberUnread' = NumberUnread - k
    <2>1. NumberUnread' = g.count + Len(t)
      BY <1>5 DEF NumberUnread
    <2>2. PICK b \in Nat, l \in Nat, taken \in Nat :
            b = buffer.count /\ l = Len(input) /\ taken = Refill
      BY <1>2, <1>3
    <2>3. NumberUnread = b + l
      BY <1>1, <2>2
    <2>4. g.count = c - k /\ Len(t) = l - taken
      BY <1>4, <1>10, <2>2
    <2>5. c = b + taken /\ c \in Nat /\ k \in Nat
      BY <1>10, <1>11, <2>2
    <2> QED
      BY <2>1, <2>3, <2>4, <2>5
  <1>17. ParseMultiple(enc, call.dir, u).length = k
    BY <1>6, <1>9
  <1>18. IF ParseMultiple(enc, call.dir, u).valid THEN Valid(BufferedScalar(enc, call.dir, u, k))
         ELSE Error(k)
    BY <1>5, <1>6, <1>9
  <1> QED
    BY <1>12, <1>13, <1>14, <1>15, <1>16, <1>17, <1>18

\* Buffering mode keeps step.
LEMMA BufferedInStep ==
    ASSUME IInv, DInv, ParseBuffered
    PROVE  InStep(enc, call.dir, text, results', NumberUnread')
  <1>1. enc \in Encodings /\ call.dir \in Directions /\ text \in Seq(Units(enc))
    BY CallFacts DEF IInv
  <1>2. Capacity(enc) \in {2, 4}
    BY <1>1 DEF Encodings, Capacity
  <1>3. PICK u \in Storage(enc), c \in 1 .. Capacity(enc) :
          /\ c <= NumberUnread /\ (c = Capacity(enc) \/ c = NumberUnread)
          /\ \A i \in 1 .. c : u[i] = Unread(i)
          /\ \A i \in c + 1 .. Capacity(enc) : u[i] = 0
          /\ ~IsScalar(enc, u[1])
          /\ ParseMultiple(enc, call.dir, u).length \in 1 .. c
          /\ NumberUnread' = NumberUnread - ParseMultiple(enc, call.dir, u).length
          /\ IF ParseMultiple(enc, call.dir, u).valid
             THEN Valid(BufferedScalar(enc, call.dir, u, ParseMultiple(enc, call.dir, u).length))
             ELSE Error(ParseMultiple(enc, call.dir, u).length)
    BY BufferedWord
  <1>4. NumberUnread # 0 /\ NumberUnread \in Nat
    BY <1>2, <1>3, UnreadCount
  <1>5. PICK a \in 1 .. Len(text) :
          /\ a = Cursor(call.dir, text, NumberUnread)
          /\ Ahead(call.dir, text, a) = NumberUnread
          /\ IsNext(enc, call.dir, text, a, Expected(enc, call.dir, text, Len(results) + 1))
    BY <1>4, NextElement
  <1>6. PICK S : S = Expected(enc, call.dir, text, Len(results) + 1)
    OBVIOUS
  <1>7. \A i \in 1 .. c :
          u[i] = IF call.dir = "forward" THEN text[a + i - 1] ELSE text[a + 1 - i]
    <2> SUFFICES ASSUME NEW i \in 1 .. c
                 PROVE  u[i] = IF call.dir = "forward" THEN text[a + i - 1] ELSE text[a + 1 - i]
      OBVIOUS
    <2>1. i \in 1 .. NumberUnread
      BY <1>2, <1>3, <1>4
    <2> QED
      BY <1>3, <1>5, <2>1, UnreadPlaces
  <1>8. Holds(enc, call.dir, text, a, u, c)
    BY <1>3, <1>5, <1>7 DEF Holds
  <1>9. PICK v, n : /\ v = ParseMultiple(enc, call.dir, u).valid
                    /\ n = ParseMultiple(enc, call.dir, u).length
    OBVIOUS
  <1>10. /\ v \in BOOLEAN /\ S.valid = v /\ S.length = n
         /\ v => S.scalar = InOrder(call.dir, u, n)
    BY <1>1, <1>3, <1>5, <1>6, <1>8, <1>9, ParseIsNext
  <1>11. S \in Element(enc)
    BY <1>5, <1>6 DEF IsNext
  <1>12. n \in 1 .. 4 /\ n \in 1 .. Capacity(enc)
    BY <1>2, <1>3, <1>9
  <1>13. CASE v
    <2>1. PICK s \in Seq(Units(enc)) :
            /\ s = BufferedScalar(enc, call.dir, u, n) /\ Len(s) = n
            /\ call.dir = "forward" \/ (\A i \in 1 .. Capacity(enc) : u[i] # 255)
                 => s = InOrder(call.dir, u, n)
      BY <1>1, <1>12, ScalarTaken
    <2>2. PICK r : r = [valid |-> TRUE, length |-> n, scalar |-> s]
      OBVIOUS
    <2>3. r \in Element(enc) /\ r.length = n /\ r.valid = TRUE /\ r.scalar = s
      BY <1>12, <2>2 DEF Element
    <2>4. results' = Append(results, r)
      BY <1>3, <1>9, <1>13, <2>1, <2>2 DEF Valid, Result
    <2>5. Plain(call.dir, text) => s = InOrder(call.dir, u, n)
      <3> SUFFICES ASSUME \A i \in DOMAIN text : text[i] # 255
                   PROVE  \A i \in 1 .. Capacity(enc) : u[i] # 255
        BY <2>1 DEF Plain
      <3>1. Len(text) \in Nat /\ DOMAIN text = 1 .. Len(text)
        BY <1>1, LenProperties
      <3> TAKE i \in 1 .. Capacity(enc)
      <3>2. CASE i <= c
        <4>1. i \in 1 .. c
          BY <1>2, <3>2
        <4>2. call.dir = "forward" => a + i - 1 \in 1 .. Len(text)
          <5>1. c <= Ahead(call.dir, text, a)
            BY <1>3, <1>5
          <5> QED
            BY <1>2, <3>1, <4>1, <5>1 DEF Ahead
        <4>3. call.dir # "forward" => a + 1 - i \in 1 .. Len(text)
          <5>1. c <= Ahead(call.dir, text, a)
            BY <1>3, <1>5
          <5> QED
            BY <1>2, <3>1, <4>1, <5>1 DEF Ahead
        <4>4. u[i] = IF call.dir = "forward" THEN text[a + i - 1] ELSE text[a + 1 - i]
          BY <1>7, <4>1
        <4>5. \A j \in 1 .. Len(text) : text[j] # 255
          BY <3>1
        <4>6. CASE call.dir = "forward"
          BY <4>2, <4>4, <4>5, <4>6
        <4>7. CASE call.dir # "forward"
          BY <4>3, <4>4, <4>5, <4>7
        <4> QED
          BY <4>6, <4>7
      <3>3. CASE ~(i <= c)
        <4>1. i \in c + 1 .. Capacity(enc)
          BY <1>2, <3>3
        <4> QED
          BY <1>3, <4>1
      <3> QED
        BY <3>2, <3>3
    <2>6. Agrees(call.dir, text, r, S)
      BY <1>10, <1>13, <2>3, <2>5 DEF Agrees
    <2>7. NumberUnread' = NumberUnread - r.length
      BY <1>3, <1>9, <2>3
    <2> QED
      BY <1>4, <1>6, <2>3, <2>4, <2>6, <2>7, ResultInStep
  <1>14. CASE ~v
    <2>1. PICK r : r = [valid |-> FALSE, length |-> n, scalar |-> <<>>]
      OBVIOUS
    <2>2. r \in Element(enc) /\ r.length = n /\ r.valid = FALSE
      <3>1. <<>> \in Seq(Units(enc))
        OBVIOUS
      <3> QED
        BY <1>12, <2>1, <3>1 DEF Element
    <2>3. results' = Append(results, r)
      BY <1>3, <1>9, <1>14, <2>1 DEF Error, Result
    <2>4. Agrees(call.dir, text, r, S)
      BY <1>10, <1>14, <2>2 DEF Agrees
    <2>5. NumberUnread' = NumberUnread - r.length
      BY <1>3, <1>9, <2>2
    <2> QED
      BY <1>4, <1>6, <2>2, <2>3, <2>4, <2>5, ResultInStep
  <1> QED
    BY <1>10, <1>13, <1>14

\* Every parser starts in step.
LEMMA InitDInv == Init => DInv
  <1> SUFFICES ASSUME Init PROVE DInv
    OBVIOUS
  <1>1. IInv
    BY InitIInv
  <1>2. enc \in Encodings /\ call.dir \in Directions /\ text \in Seq(Units(enc))
    BY <1>1, CallFacts DEF IInv
  <1>3. NumberUnread = Len(text)
    <2>1. CASE call.task = "one"
      <3>1. Len(text) = 4
        BY <2>1 DEF Init, Fits
      <3>2. input = <<>>
        <4>1. call.dir = "forward" /\ enc = "UTF8"
          BY <2>1, CallsAssumption DEF Init, enc
        <4> QED
          BY <2>1, <4>1 DEF Init
      <3>3. buffer = [units |-> text, count |-> 4]
        BY <2>1 DEF Init
      <3> QED
        BY <3>1, <3>2, <3>3 DEF NumberUnread
    <2>2. CASE call.task # "one"
      <3>1. buffer.count = 0
        BY <2>2 DEF Init, EmptyBuffer
      <3>2. input = Reading
        BY <1>2, <2>2 DEF Init, Reading, Directions
      <3>3. Len(Reading) = Len(text) /\ Len(text) \in Nat
        BY <1>1, <1>2, CallFacts, LenProperties DEF IInv
      <3> QED
        BY <3>1, <3>2, <3>3 DEF NumberUnread
    <2> QED
      BY <2>1, <2>2
  <1>4. results = <<>>
    BY DEF Init
  <1>5. InStep(enc, call.dir, text, results, NumberUnread)
    BY <1>2, <1>3, <1>4, BeginInStep
  <1>6. phase # "done" /\ (phase = "ascii" => enc = "UTF8")
    BY DEF Init
  <1> QED
    BY <1>5, <1>6 DEF DInv

\* A parser's caller returns before the end only from _decodeOne or at an error.
LEMMA Return ==
    ASSUME (\E s : Valid(s)) \/ (\E n : Error(n)), UNCHANGED call
    PROVE  /\ phase' # "ascii"
           /\ phase' = "done" => call.task = "one" \/ (call.strict /\ hadError')
  <1>1. CASE \E s : Valid(s)
    BY <1>1 DEF Valid, AfterResult
  <1>2. CASE \E n : Error(n)
    BY <1>2 DEF Error, AfterResult
  <1> QED
    BY <1>1, <1>2

\* What has to be shown of a step.
LEMMA KeepsDInv ==
    ASSUME InStep(enc, call.dir, text, results', NumberUnread'), UNCHANGED <<call, text>>,
           phase' = "ascii" => enc = "UTF8",
           phase' = "done" => \/ call.task = "one" \/ (call.strict /\ hadError')
                              \/ NumberUnread' = 0
    PROVE  DInv'
  <1>1. enc' = enc /\ call' = call /\ text' = text
    BY DEF enc
  <1>2. InStep(enc, call.dir, text, results, NumberUnread)'
    BY <1>1
  <1>3. (phase = "ascii" => enc = "UTF8")'
    BY <1>1
  <1>4. (phase = "done" /\ call.task # "one" /\ ~(call.strict /\ hadError) => NumberUnread = 0)'
    BY <1>1
  <1> QED
    BY <1>2, <1>3, <1>4 DEF DInv

\* Every step keeps it.
LEMMA StepDInv ==
    ASSUME IInv, DInv, [Next]_vars
    PROVE  DInv'
  <1>0. /\ NumberUnread = buffer.count + Len(input) /\ buffer.count \in Nat
        /\ Len(input) \in Nat /\ NumberUnread \in Nat /\ input \in Seq(Units(enc))
    BY UnreadCount
  <1>00. InStep(enc, call.dir, text, results, NumberUnread)
    BY DEF DInv
  <1>1. CASE CountASCII
    <2>1. buffer.count = 0 /\ input # <<>> /\ enc = "UTF8" /\ phase = "ascii"
      BY <1>1, Before DEF CountASCII, DInv
    <2>2. Unread(1) = Head(input) /\ NumberUnread # 0 /\ NumberUnread' = NumberUnread - 1
      BY <1>1, <2>1, FirstOfInput DEF CountASCII
    <2>3. IsScalar(enc, Unread(1))
      BY <1>1, <2>1, <2>2 DEF CountASCII, IsScalar
    <2>4. results' = Append(results, Result(TRUE, 1, <<Unread(1)>>))
      BY <1>1, <2>2 DEF CountASCII
    <2>5. InStep(enc, call.dir, text, results', NumberUnread')
      BY <2>2, <2>3, <2>4, UnitInStep
    <2>6. UNCHANGED <<call, text>> /\ phase' = "ascii"
      BY <1>1, <2>1 DEF CountASCII
    <2> QED
      BY <2>1, <2>5, <2>6, KeepsDInv
  <1>2. CASE OnlyASCII \/ EmptyInput
    <2>1. buffer.count = 0 /\ input = <<>>
      BY <1>2, Before DEF OnlyASCII, EmptyInput
    <2>2. UNCHANGED <<call, text, input, buffer, results>> /\ phase' = "done"
      BY <1>2 DEF OnlyASCII, EmptyInput
    <2>3. NumberUnread' = NumberUnread /\ NumberUnread = 0
      <3>1. NumberUnread' = NumberUnread
        BY <2>2 DEF NumberUnread
      <3>2. Len(input) = 0
        BY <2>1
      <3> QED
        BY <1>0, <2>1, <3>1, <3>2
    <2>4. InStep(enc, call.dir, text, results', NumberUnread')
      BY <1>00, <2>2, <2>3
    <2> QED
      BY <2>2, <2>3, <2>4, KeepsDInv
  <1>3. CASE SeedParser
    <2>1. buffer.count = 0 /\ input # <<>> /\ enc = "UTF8"
      BY <1>3, Before DEF SeedParser, DInv
    <2>2. NumberUnread' = NumberUnread
      <3>1. buffer'.count = 1
        <4>1. buffer'.count = (0 + 1) % 32
          BY <1>3, <2>1 DEF SeedParser, AppendAll, EmptyBuffer, Capacity
        <4> QED
          BY <4>1
      <3>2. Len(input') = Len(input) - 1
        BY <1>0, <1>3, <2>1 DEF SeedParser
      <3>3. NumberUnread' = buffer'.count + Len(input')
        BY DEF NumberUnread
      <3> QED
        BY <1>0, <2>1, <3>1, <3>2, <3>3
    <2>3. UNCHANGED <<call, text, results>> /\ phase' = "parse"
      BY <1>3 DEF SeedParser
    <2>4. InStep(enc, call.dir, text, results', NumberUnread')
      BY <1>00, <2>2, <2>3
    <2> QED
      BY <2>3, <2>4, KeepsDInv
  <1>4. CASE ScalarFromInput
    <2>1. buffer.count = 0 /\ input # <<>> /\ IsScalar(enc, Head(input)) /\ UNCHANGED <<call, text>>
      BY <1>4 DEF ScalarFromInput
    <2>2. Unread(1) = Head(input) /\ NumberUnread # 0 /\ NumberUnread' = NumberUnread - 1
      BY <1>4, <2>1, FirstOfInput DEF ScalarFromInput
    <2>3. Valid(<<Unread(1)>>)
      BY <1>4, <2>2 DEF ScalarFromInput
    <2>4. results' = Append(results, Result(TRUE, 1, <<Unread(1)>>))
      <3>1. \A x : Len(<<x>>) = 1
        OBVIOUS
      <3> QED
        BY <2>3, <3>1 DEF Valid
    <2>5. InStep(enc, call.dir, text, results', NumberUnread')
      BY <2>1, <2>2, <2>4, UnitInStep
    <2>6. phase' # "ascii" /\ (phase' = "done" => call.task = "one" \/ (call.strict /\ hadError'))
      BY <2>1, <2>3, Return
    <2> QED
      BY <2>1, <2>5, <2>6, KeepsDInv
  <1>5. CASE ScalarFromBuffer
    <2>1. /\ buffer.count # 0 /\ IsScalar(enc, buffer.units[1]) /\ UNCHANGED <<call, text, input>>
          /\ buffer' = ShiftOut(enc, buffer, 1) /\ Valid(<<buffer.units[1]>>)
      BY <1>5 DEF ScalarFromBuffer
    <2>2. Unread(1) = buffer.units[1]
      BY <1>0, <2>1 DEF Unread
    <2>3. NumberUnread # 0 /\ NumberUnread' = NumberUnread - 1
      <3>1. buffer'.count = buffer.count - 1
        <4>1. Typed /\ Clean(enc, buffer)
          BY Before
        <4>2. /\ enc \in Encodings /\ buffer \in Bounded(enc)
          BY <4>1, CallFacts
        <4>3. 1 \in 0 .. buffer.count
          BY <1>0, <2>1
        <4> QED
          BY <1>0, <2>1, <4>1, <4>2, <4>3, ShiftFacts
      <3>2. NumberUnread' = buffer'.count + Len(input')
        BY DEF NumberUnread
      <3> QED
        BY <1>0, <2>1, <3>1, <3>2
    <2>4. results' = Append(results, Result(TRUE, 1, <<Unread(1)>>))
      <3>1. \A x : Len(<<x>>) = 1
        OBVIOUS
      <3> QED
        BY <2>1, <2>2, <3>1 DEF Valid
    <2>5. InStep(enc, call.dir, text, results', NumberUnread')
      BY <2>1, <2>2, <2>3, <2>4, UnitInStep
    <2>6. phase' # "ascii" /\ (phase' = "done" => call.task = "one" \/ (call.strict /\ hadError'))
      BY <2>1, Return
    <2> QED
      BY <2>1, <2>5, <2>6, KeepsDInv
  <1>6. CASE ParseBuffered
    <2>1. InStep(enc, call.dir, text, results', NumberUnread')
      BY <1>6, BufferedInStep
    <2>2. UNCHANGED <<call, text>> /\ ((\E s : Valid(s)) \/ (\E n : Error(n)))
      BY <1>6 DEF ParseBuffered
    <2>3. phase' # "ascii" /\ (phase' = "done" => call.task = "one" \/ (call.strict /\ hadError'))
      BY <2>2, Return
    <2> QED
      BY <2>1, <2>2, <2>3, KeepsDInv
  <1>7. CASE UNCHANGED vars
    <2>1. UNCHANGED <<call, text, phase, input, buffer, results, hadError>>
      BY <1>7 DEF vars
    <2>2. enc' = enc /\ NumberUnread' = NumberUnread
      BY <2>1 DEF enc, NumberUnread
    <2> QED
      BY <2>1, <2>2 DEF DInv
  <1> QED
    BY <1>1, <1>2, <1>3, <1>4, <1>5, <1>6, <1>7 DEF Next, Done

\* Between two results a parser has read whole elements of the division of its
\* text, has a result for each, and has read all of them when its caller returns
\* without an error.
THEOREM DivisionInvariant == Spec => [](IInv /\ DInv)
  <1>1. Init => IInv /\ DInv
    BY InitIInv, InitDInv
  <1>2. IInv /\ DInv /\ [Next]_vars => IInv' /\ DInv'
    BY StepIInv, StepDInv
  <1> QED
    BY <1>1, <1>2, PTL DEF Spec

\* The elements of the division in the order of reading.
LEMMA ExpectedFacts ==
    ASSUME NEW e \in Encodings, NEW d \in Directions, NEW t \in Seq(Units(e))
    PROVE  LET S == Segments(e, t)
               X == IF d = "reverse" THEN Reverse(S) ELSE S
           IN  /\ Len(X) = Len(S) /\ Len(S) \in Nat
               /\ \A i \in 1 .. Len(S) :
                    /\ X[i] = Expected(e, d, t, i) /\ X[i] \in Element(e)
                    /\ X[i].valid => /\ X[i].scalar \in Seq(Units(e)) /\ WellFormed(e, X[i].scalar)
                                     /\ Len(X[i].scalar) \in 1 .. 4
  <1>1. PICK D \in Seq(Element(e)) : D = Segments(e, t)
    BY SegmentsDivide
  <1>2. PICK p : Starts(e, t, D, p)
    BY <1>1, SegmentsDivide
  <1>3. PICK L \in Nat : L = Len(D)
    BY LenProperties
  <1>4. PICK X : X = IF d = "reverse" THEN Reverse(D) ELSE D
    OBVIOUS
  <1>5. Reverse(D) \in Seq(Element(e)) /\ Len(Reverse(D)) = L
    BY <1>3 DEF Reverse
  <1>6. Len(X) = L
    BY <1>3, <1>4, <1>5
  <1>7. ASSUME NEW i \in 1 .. L
        PROVE  \E k \in 1 .. L : X[i] = D[k] /\ Expected(e, d, t, i) = D[k]
    <2>1. CASE d = "reverse"
      <3>1. PICK k \in 1 .. L : k = L + 1 - i
        OBVIOUS
      <3>2. Reverse(D)[i] = D[(L - i) + 1]
        BY <1>3 DEF Reverse
      <3>3. (L - i) + 1 = k
        BY <3>1
      <3>4. Expected(e, d, t, i) = D[k]
        BY <1>1, <1>3, <2>1, <3>1 DEF Expected
      <3> QED
        BY <1>4, <2>1, <3>2, <3>3, <3>4
    <2>2. CASE d # "reverse"
      <3>1. Expected(e, d, t, i) = D[i]
        BY <1>1, <2>2 DEF Expected
      <3> QED
        BY <1>4, <2>2, <3>1
    <2> QED
      BY <2>1, <2>2
  <1>8. ASSUME NEW k \in 1 .. L
        PROVE  /\ D[k] \in Element(e)
               /\ D[k].valid => /\ D[k].scalar \in Seq(Units(e)) /\ WellFormed(e, D[k].scalar)
                                /\ Len(D[k].scalar) \in 1 .. 4
    <2>1. PICK a \in 1 .. Len(t) : a = p[k]
      BY <1>2, <1>3, StartFacts
    <2>2. D[k] = SegmentAt(e, t, a) /\ D[k] \in Element(e)
      BY <1>2, <1>3, <2>1, StartFacts
    <2>3. PICK l \in 1 .. 4 : l = D[k].length
      BY <2>2 DEF Element
    <2>4. /\ l <= Len(t) - a + 1
          /\ D[k].valid => WellFormed(e, Piece(t, a, l)) /\ D[k].scalar = Piece(t, a, l)
      BY <2>2, <2>3, ElementFacts
    <2>5. Piece(t, a, l) \in Seq(Units(e)) /\ Len(Piece(t, a, l)) = l
      <3>1. Len(t) \in Nat
        BY LenProperties
      <3>2. l \in Nat /\ a \in Int /\ 1 <= a /\ a + l - 1 <= Len(t)
        BY <2>4, <3>1
      <3> QED
        BY <3>2, PieceFacts
    <2> QED
      BY <2>2, <2>4, <2>5
  <1> QED
    BY <1>1, <1>3, <1>4, <1>6, <1>7, <1>8

\* A parser in step divides as the standard does.
LEMMA DividesSo ==
    ASSUME IInv, DInv PROVE DividesLikeTheStandard
  <1>1. enc \in Encodings /\ call.dir \in Directions /\ text \in Seq(Units(enc))
    BY CallFacts DEF IInv
  <1>2. PICK S, X : S = Segments(enc, text) /\ X = IF call.dir = "reverse" THEN Reverse(S) ELSE S
    OBVIOUS
  <1>3. /\ Len(X) = Len(S) /\ Len(S) \in Nat
        /\ \A i \in 1 .. Len(S) : X[i] = Expected(enc, call.dir, text, i)
    BY <1>1, <1>2, ExpectedFacts
  <1>4. /\ results \in Seq(Element(enc)) /\ Len(results) <= Len(S)
        /\ \A i \in 1 .. Len(results) : Agrees(call.dir, text, results[i], Expected(enc, call.dir, text, i))
    BY <1>2 DEF DInv, InStep
  <1>5. Len(results) \in Nat /\ DOMAIN results = 1 .. Len(results)
    BY <1>4, LenProperties
  <1>6. \A i \in DOMAIN results : results[i].valid = X[i].valid /\ results[i].length = X[i].length
    <2> SUFFICES ASSUME NEW i \in 1 .. Len(results)
                 PROVE  results[i].valid = X[i].valid /\ results[i].length = X[i].length
      BY <1>5
    <2>1. i \in 1 .. Len(S)
      BY <1>3, <1>4, <1>5
    <2> QED
      BY <1>3, <1>4, <2>1 DEF Agrees
  <1>7. ASSUME phase = "done", call.task # "one", ~(call.strict /\ hadError)
        PROVE  Len(results) = Len(X)
    <2>1. InStep(enc, call.dir, text, results, 0)
      BY <1>7 DEF DInv
    <2> QED
      BY <1>1, <1>2, <1>3, <2>1, EndInStep
  <1> QED
    BY <1>2, <1>3, <1>4, <1>6, <1>7 DEF DividesLikeTheStandard

\* The results of every parser are the scalars and the maximal subparts of
\* ill-formed sequences that the standard divides its text into, in the order of
\* reading, and none is missing at the end.
THEOREM Divides == Spec => []DividesLikeTheStandard
  <1>1. IInv /\ DInv => DividesLikeTheStandard
    BY DividesSo
  <1> QED
    BY <1>1, DivisionInvariant, PTL

\* A parser in step hands out the scalars of the text.
LEMMA ScalarsSo ==
    ASSUME IInv, DInv PROVE ScalarsOfTheText
  <1>1. enc \in Encodings /\ call.dir \in Directions /\ text \in Seq(Units(enc))
    BY CallFacts DEF IInv
  <1>2. PICK S, X : S = Segments(enc, text) /\ X = IF call.dir = "reverse" THEN Reverse(S) ELSE S
    OBVIOUS
  <1>3. /\ Len(X) = Len(S) /\ Len(S) \in Nat
        /\ \A i \in 1 .. Len(S) :
             /\ X[i] = Expected(enc, call.dir, text, i)
             /\ X[i].valid => /\ X[i].scalar \in Seq(Units(enc)) /\ WellFormed(enc, X[i].scalar)
                              /\ Len(X[i].scalar) \in 1 .. 4
    BY <1>1, <1>2, ExpectedFacts
  <1>4. /\ results \in Seq(Element(enc)) /\ Len(results) <= Len(S)
        /\ \A i \in 1 .. Len(results) : Agrees(call.dir, text, results[i], Expected(enc, call.dir, text, i))
    BY <1>2 DEF DInv, InStep
  <1>5. Len(results) \in Nat /\ DOMAIN results = 1 .. Len(results)
    BY <1>4, LenProperties
  <1>6. ASSUME Plain(call.dir, text), NEW i \in DOMAIN results, results[i].valid
        PROVE  /\ results[i].scalar = X[i].scalar
               /\ Decode(enc, results[i].scalar) = Value(enc, X[i].scalar)
    <2>1. i \in 1 .. Len(results) /\ i \in 1 .. Len(S)
      BY <1>3, <1>4, <1>5, <1>6
    <2>2. X[i].valid /\ results[i].scalar = X[i].scalar
      BY <1>3, <1>4, <1>6, <2>1 DEF Agrees
    <2>3. Decode(enc, X[i].scalar) = Value(enc, X[i].scalar)
      BY <1>1, <1>3, <2>1, <2>2, DecodesValue
    <2> QED
      BY <2>2, <2>3
  <1> QED
    BY <1>2, <1>6 DEF ScalarsOfTheText, Plain

\* The scalars that a parser hands out are those of the text, with the values
\* that the standard gives them: forward always, in reverse in every text without
\* the unit 255.
THEOREM Scalars == Spec => []ScalarsOfTheText
  <1>1. IInv /\ DInv => ScalarsOfTheText
    BY ScalarsSo
  <1> QED
    BY <1>1, DivisionInvariant, PTL

-----------------------------------------------------------------------------
(***************************************************************************)
(* What the callers make of the results.  The third induction invariant:   *)
(* the output spells the values of the results, the count is what these    *)
(* take in UTF-16, and hadError says whether one of them is an error; a    *)
(* strict caller has returned with the first error, and has put nothing in *)
(* its place.                                                              *)
(***************************************************************************)
Stopped(c, h) == c.strict /\ h

Noted(c, rs, ph, h) ==
    /\ h \in BOOLEAN
    /\ h <=> c.task \in {"transcode", "length"} /\ \E i \in 1 .. Len(rs) : ~rs[i].valid
    /\ Stopped(c, h) => /\ ph = "done" /\ Len(rs) # 0
                        /\ \A i \in 1 .. Len(rs) : i # Len(rs) => rs[i].valid

Copied(c, rs, made, h) ==
    IF c.task = "transcode"
    THEN Copies(c.enc, rs, IF Stopped(c, h) THEN Len(rs) - 1 ELSE Len(rs), c.out, made)
    ELSE made = <<>>

Measured(c, rs, n, a, h) ==
    /\ n \in Nat /\ a \in BOOLEAN
    /\ c.task = "length" /\ ~Stopped(c, h) =>
         Measures(c.enc, rs, n) /\ (a <=> AllASCII(c.enc, rs))

TInv ==
    /\ Fits(call, text)
    /\ Noted(call, results, phase, hadError)
    /\ Copied(call, results, output, hadError)
    /\ Measured(call, results, count, ascii, hadError)

\* What has to be shown of a step.
LEMMA KeepsTInv ==
    ASSUME TInv, UNCHANGED <<call, text>>, Noted(call, results', phase', hadError'),
           Copied(call, results', output', hadError'),
           Measured(call, results', count', ascii', hadError')
    PROVE  TInv'
  <1>1. call' = call /\ text' = text /\ Fits(call, text)
    BY DEF TInv
  <1>2. Fits(call, text)'
    BY <1>1
  <1>3. Noted(call, results, phase, hadError)'
    BY <1>1
  <1>4. Copied(call, results, output, hadError)'
    BY <1>1
  <1>5. Measured(call, results, count, ascii, hadError)'
    BY <1>1
  <1> QED
    BY <1>2, <1>3, <1>4, <1>5 DEF TInv

\* A forward parser's results are well-formed sequences with values.
LEMMA ResultMeans ==
    ASSUME NEW e \in Encodings, NEW t \in Seq(Units(e)), NEW rs, NEW nu,
           InStep(e, "forward", t, rs, nu), NEW i \in 1 .. Len(rs), rs[i].valid
    PROVE  Means(e, rs[i].scalar, ValueOf(e, rs[i])) /\ ValueOf(e, rs[i]) \in Nat
  <1>1. "forward" \in Directions /\ "forward" # "reverse"
    BY DEF Directions
  <1>2. PICK S : S = Segments(e, t)
    OBVIOUS
  <1>3. /\ Len(S) \in Nat
        /\ \A k \in 1 .. Len(S) :
             /\ S[k] = Expected(e, "forward", t, k)
             /\ S[k].valid => /\ S[k].scalar \in Seq(Units(e)) /\ WellFormed(e, S[k].scalar)
                              /\ Len(S[k].scalar) \in 1 .. 4
    BY <1>1, <1>2, ExpectedFacts
  <1>4. /\ rs \in Seq(Element(e)) /\ Len(rs) <= Len(S)
        /\ Agrees("forward", t, rs[i], Expected(e, "forward", t, i))
    BY <1>2 DEF InStep
  <1>5. Len(rs) \in Nat
    BY <1>4, LenProperties
  <1>6. i \in 1 .. Len(S)
    BY <1>3, <1>4, <1>5
  <1>7. S[i].valid /\ rs[i].scalar = S[i].scalar
    BY <1>3, <1>4, <1>6 DEF Agrees, Plain
  <1>8. PICK s \in Seq(Units(e)) : s = rs[i].scalar /\ WellFormed(e, s) /\ Len(s) \in 1 .. 4
    BY <1>3, <1>6, <1>7
  <1>9. ScalarValue(Value(e, s))
    BY <1>8, DecodesValue
  <1>10. ValueOf(e, rs[i]) = Value(e, s)
    BY <1>8 DEF ValueOf
  <1> QED
    BY <1>8, <1>9, <1>10 DEF Means, ScalarValue

\* What is known before a result is added, and of the result.
LEMMA BeforeResult ==
    ASSUME IInv, DInv, TInv, phase # "done"
    PROVE  /\ call.task \in {"transcode", "length", "one", "parse"}
           /\ enc = call.enc /\ enc \in Encodings /\ call.out \in Encodings
           /\ call.task # "parse" => call.dir = "forward"
           /\ call.task = "length" => call.out = "UTF16"
           /\ results \in Seq(Element(enc)) /\ Len(results) \in Nat
           /\ ~Stopped(call, hadError) /\ hadError \in BOOLEAN /\ call.strict \in BOOLEAN
           /\ call.task = "transcode" => Copies(enc, results, Len(results), call.out, output)
           /\ call.task # "transcode" => output = <<>>
           /\ count \in Nat /\ ascii \in BOOLEAN
           /\ call.task = "length" => Measures(enc, results, count)
           /\ call.task = "length" => (ascii <=> AllASCII(enc, results))
  <1>1. call \in Calls
    BY DEF IInv, Typed
  <1>2. /\ call.task \in {"transcode", "length", "one", "parse"}
        /\ enc = call.enc /\ enc \in Encodings /\ call.out \in Encodings
        /\ call.task # "parse" => call.dir = "forward"
        /\ call.task = "length" => call.out = "UTF16"
        /\ call.strict \in BOOLEAN
    BY <1>1, CallsAssumption DEF enc
  <1>3. results \in Seq(Element(enc))
    BY DEF DInv, InStep
  <1>4. Len(results) \in Nat
    BY <1>3, LenProperties
  <1>5. ~Stopped(call, hadError) /\ hadError \in BOOLEAN
    BY DEF TInv, Noted
  <1>6. /\ call.task = "transcode" => Copies(enc, results, Len(results), call.out, output)
        /\ call.task # "transcode" => output = <<>>
    BY <1>2, <1>5 DEF TInv, Copied
  <1>7. /\ count \in Nat /\ ascii \in BOOLEAN
        /\ call.task = "length" => Measures(enc, results, count) /\ (ascii <=> AllASCII(enc, results))
    BY <1>2, <1>5 DEF TInv, Measured
  <1> QED
    BY <1>2, <1>3, <1>4, <1>5, <1>6, <1>7

\* How a result changes what hadError says.
LEMMA NotedMore ==
    ASSUME NEW c, NEW X, NEW rs \in Seq(X), NEW ph, NEW h, Noted(c, rs, ph, h), ~Stopped(c, h),
           NEW r, NEW ph2, NEW h2 \in BOOLEAN, r.valid \in BOOLEAN,
           h2 <=> h \/ (~r.valid /\ c.task \in {"transcode", "length"}),
           Stopped(c, h2) => ph2 = "done"
    PROVE  Noted(c, Append(rs, r), ph2, h2)
  <1>1. PICK L \in Nat : L = Len(rs)
    BY LenProperties
  <1>2. PICK q : q = Append(rs, r)
    OBVIOUS
  <1>3. /\ Len(q) = L + 1 /\ q[L + 1] = r
        /\ \A i \in 1 .. L : q[i] = rs[i]
    BY <1>1, <1>2, Appended
  <1>4. /\ \A i \in 1 .. L + 1 : i \in 1 .. L \/ i = L + 1
        /\ \A i \in 1 .. L : i \in 1 .. L + 1
        /\ L + 1 \in 1 .. L + 1 /\ L + 1 # 0
    OBVIOUS
  <1>5. (\E i \in 1 .. L + 1 : ~q[i].valid) <=> (\E i \in 1 .. L : ~rs[i].valid) \/ ~r.valid
    BY <1>3, <1>4
  <1>6. h <=> c.task \in {"transcode", "length"} /\ \E i \in 1 .. L : ~rs[i].valid
    BY <1>1 DEF Noted
  <1>7. h2 <=> c.task \in {"transcode", "length"} /\ \E i \in 1 .. L + 1 : ~q[i].valid
    BY <1>5, <1>6
  <1>8. Stopped(c, h2) => \A i \in 1 .. L + 1 : i # L + 1 => q[i].valid
    <2> SUFFICES ASSUME Stopped(c, h2), NEW i \in 1 .. L + 1, i # L + 1 PROVE q[i].valid
      OBVIOUS
    <2>1. ~h /\ h2
      BY DEF Stopped
    <2>2. c.task \in {"transcode", "length"}
      BY <1>7, <2>1
    <2>3. i \in 1 .. L
      BY <1>4
    <2> QED
      BY <1>3, <1>6, <2>1, <2>2, <2>3
  <1> QED
    BY <1>2, <1>3, <1>4, <1>7, <1>8 DEF Noted

\* A valid result.
LEMMA ValidStep ==
    ASSUME IInv, DInv, TInv, DInv', phase # "done", UNCHANGED <<call, text>>,
           NEW s, Valid(s)
    PROVE  TInv'
  <1>0. /\ call.task \in {"transcode", "length", "one", "parse"}
        /\ enc = call.enc /\ enc \in Encodings /\ call.out \in Encodings
        /\ call.task # "parse" => call.dir = "forward"
        /\ results \in Seq(Element(enc)) /\ Len(results) \in Nat
        /\ ~Stopped(call, hadError) /\ hadError \in BOOLEAN
        /\ count \in Nat /\ ascii \in BOOLEAN
    BY BeforeResult
  <1>r. PICK r : r = [valid |-> TRUE, length |-> Len(s), scalar |-> s]
    OBVIOUS
  <1>1. r = Result(TRUE, Len(s), s) /\ r.valid = TRUE /\ r.scalar = s
    BY <1>r DEF Result
  <1>2. results' = Append(results, r) /\ hadError' = hadError
    BY <1>1 DEF Valid
  <1>3. /\ Len(results') = Len(results) + 1 /\ results'[Len(results) + 1] = r
        /\ Len(results) + 1 \in 1 .. Len(results')
    BY <1>0, <1>2, Appended
  <1>4. Noted(call, results', phase', hadError')
    <2>1. Noted(call, results, phase, hadError)
      BY DEF TInv
    <2> QED
      BY <1>0, <1>1, <1>2, <2>1, NotedMore
  <1>5. CASE call.dir = "forward"
    <2>1. PICK v : v = ValueOf(enc, r)
      OBVIOUS
    <2>2. Means(enc, s, v) /\ v \in Nat
      <3>1. enc' = enc /\ call' = call /\ text' = text
        BY DEF enc
      <3>2. InStep(enc, "forward", text, results', NumberUnread')
        BY <1>5, <3>1 DEF DInv
      <3>3. text \in Seq(Units(enc))
        BY CallFacts DEF IInv
      <3>4. PICK rs, nu : rs = results' /\ nu = NumberUnread'
        OBVIOUS
      <3>5. InStep(enc, "forward", text, rs, nu)
        BY <3>2, <3>4
      <3>6. PICK m \in 1 .. Len(rs) : m = Len(results) + 1 /\ rs[m] = r
        BY <1>3, <3>4
      <3>7. Means(enc, rs[m].scalar, ValueOf(enc, rs[m])) /\ ValueOf(enc, rs[m]) \in Nat
        BY <1>0, <1>1, <3>3, <3>5, <3>6, ResultMeans
      <3> QED
        BY <1>1, <2>1, <3>6, <3>7
    <2>3. Copied(call, results', output', hadError')
      <3>1. CASE call.task = "transcode"
        <4>1. output' = output \o Transcode(call.out, enc, s)
          BY <3>1 DEF Valid
        <4>2. Means(call.out, Transcode(call.out, enc, s), v)
          BY <1>0, <2>2, TranscodesTheValue
        <4>3. Copies(enc, results, Len(results), call.out, output)
          BY <3>1, BeforeResult
        <4>4. Copies(enc, results', Len(results'), call.out, output')
          BY <1>0, <1>2, <1>3, <2>1, <2>2, <4>1, <4>2, <4>3, CopiesMore
        <4> QED
          BY <1>0, <1>2, <3>1, <4>4 DEF Copied
      <3>2. CASE call.task # "transcode"
        <4>1. output' = output /\ output = <<>>
          BY <3>2, BeforeResult DEF Valid
        <4> QED
          BY <3>2, <4>1 DEF Copied
      <3> QED
        BY <3>1, <3>2
    <2>4. Measured(call, results', count', ascii', hadError')
      <3>1. CASE call.task = "length"
        <4>1. PICK w : w = Transcode("UTF16", enc, s)
          OBVIOUS
        <4>2. "UTF16" \in Encodings
          BY DEF Encodings
        <4>3. Means("UTF16", w, v)
          BY <1>0, <2>2, <4>1, <4>2, TranscodesTheValue
        <4>4. Len(w) = (IF v < 65536 THEN 1 ELSE 2) /\ (IsASCIIText(w) <=> v < 128)
          BY <4>3, Widths
        <4>5. (v < 65536 => count' = count + 1) /\ (~(v < 65536) => count' = count + 2)
              /\ count' \in Nat
          <5>1. count' = count + Len(w)
            BY <3>1, <4>1 DEF Valid
          <5> QED
            BY <1>0, <4>4, <5>1
        <4>6. (ascii' <=> ascii /\ v < 128) /\ ascii' \in BOOLEAN
          <5>1. ascii' = (ascii /\ IsASCIIText(w))
            BY <3>1, <4>1 DEF Valid
          <5>2. IsASCIIText(w) <=> v < 128
            BY <4>4
          <5>3. ascii' \in BOOLEAN /\ (ascii' <=> ascii /\ IsASCIIText(w))
            BY <5>1
          <5> QED
            BY <5>2, <5>3
        <4>7. Measures(enc, results, count) /\ (ascii <=> AllASCII(enc, results))
          BY <3>1, BeforeResult
        <4>8. /\ Measures(enc, results', count')
              /\ AllASCII(enc, results') <=> AllASCII(enc, results) /\ v < 128
          BY <1>0, <1>2, <2>1, <2>2, <4>5, <4>7, MeasuresMore
        <4>9. count' \in Nat
          BY <1>0, <4>5
        <4> QED
          BY <1>0, <4>6, <4>7, <4>8, <4>9 DEF Measured
      <3>2. CASE call.task # "length"
        BY <1>0, <3>2 DEF Valid, Measured
      <3> QED
        BY <3>1, <3>2
    <2> QED
      BY <1>4, <2>3, <2>4, KeepsTInv
  <1>6. CASE call.task = "parse"
    <2>1. output' = output /\ count' = count /\ ascii' = (ascii /\ TRUE) /\ output = <<>>
      BY <1>6, BeforeResult DEF Valid
    <2>2. ascii' \in BOOLEAN
      BY <2>1
    <2>3. Copied(call, results', output', hadError')
      BY <1>6, <2>1 DEF Copied
    <2>4. Measured(call, results', count', ascii', hadError')
      BY <1>0, <1>6, <2>1, <2>2 DEF Measured
    <2> QED
      BY <1>4, <2>3, <2>4, KeepsTInv
  <1> QED
    BY <1>0, <1>5, <1>6

\* An error.
LEMMA ErrorStep ==
    ASSUME IInv, DInv, TInv, phase # "done", UNCHANGED <<call, text>>,
           NEW n, Error(n)
    PROVE  TInv'
  <1>0. /\ call.task \in {"transcode", "length", "one", "parse"}
        /\ enc = call.enc /\ enc \in Encodings /\ call.out \in Encodings
        /\ results \in Seq(Element(enc)) /\ Len(results) \in Nat
        /\ ~Stopped(call, hadError) /\ hadError \in BOOLEAN /\ call.strict \in BOOLEAN
        /\ count \in Nat /\ ascii \in BOOLEAN
    BY BeforeResult
  <1>r. PICK r : r = [valid |-> FALSE, length |-> n, scalar |-> <<>>]
    OBVIOUS
  <1>1. r = Result(FALSE, n, <<>>) /\ r.valid = FALSE
    BY <1>r DEF Result
  <1>2. /\ results' = Append(results, r)
        /\ hadError' = (hadError \/ call.task \in {"transcode", "length"})
        /\ hadError' \in BOOLEAN
    BY <1>0, <1>1 DEF Error
  <1>3. PICK v \in Nat : v = 65533 /\ v = ValueOf(enc, r) /\ v < 65536 /\ ~(v < 128)
    <2>1. PICK v \in Nat : v = 65533
      OBVIOUS
    <2>2. ~r.valid
      BY <1>1
    <2>3. ValueOf(enc, r) = v
      BY <2>1, <2>2 DEF ValueOf
    <2> QED
      BY <2>1, <2>3
  <1>4. Len(results') = Len(results) + 1
    BY <1>0, <1>2, Appended
  <1>5. Noted(call, results', phase', hadError')
    <2>1. Noted(call, results, phase, hadError)
      BY DEF TInv
    <2>2. hadError' <=> hadError \/ (~r.valid /\ call.task \in {"transcode", "length"})
      BY <1>1, <1>2
    <2>3. Stopped(call, hadError') => phase' = "done"
      <3>1. SUFFICES ASSUME call.strict, hadError' PROVE phase' = "done"
        BY DEF Stopped
      <3>2. ~hadError
        BY <1>0, <3>1 DEF Stopped
      <3>3. call.task \in {"transcode", "length"}
        BY <1>2, <3>1, <3>2
      <3> QED
        BY <3>1, <3>3 DEF Error
    <2>4. r.valid \in BOOLEAN
      BY <1>1
    <2> QED
      BY <1>0, <1>2, <2>1, <2>2, <2>3, <2>4, NotedMore
  <1>6. Copied(call, results', output', hadError')
    <2>1. CASE call.task = "transcode"
      <3>1. Copies(enc, results, Len(results), call.out, output)
        BY <2>1, BeforeResult
      <3>2. hadError'
        BY <1>2, <2>1
      <3>3. CASE call.strict
        <4>1. output' = output
          BY <2>1, <3>3 DEF Error
        <4>2. Copies(enc, results', Len(results), call.out, output')
          BY <1>0, <1>2, <3>1, <4>1, CopiesNoMore
        <4>3. Stopped(call, hadError') /\ Len(results') - 1 = Len(results)
          BY <1>0, <1>4, <3>2, <3>3 DEF Stopped
        <4> QED
          BY <1>0, <2>1, <4>2, <4>3 DEF Copied
      <3>4. CASE ~call.strict
        <4>1. output' = output \o EncodedReplacement(call.out)
          BY <2>1, <3>4 DEF Error
        <4>2. Means(call.out, EncodedReplacement(call.out), v)
          BY <1>0, <1>3, Replaces DEF ReplacementScalar
        <4>3. Copies(enc, results', Len(results'), call.out, output')
          BY <1>0, <1>2, <1>3, <1>4, <3>1, <4>1, <4>2, CopiesMore
        <4>4. ~Stopped(call, hadError')
          BY <3>4 DEF Stopped
        <4> QED
          BY <1>0, <2>1, <4>3, <4>4 DEF Copied
      <3> QED
        BY <3>3, <3>4
    <2>2. CASE call.task # "transcode"
      <3>1. output' = output /\ output = <<>>
        BY <2>2, BeforeResult DEF Error
      <3> QED
        BY <2>2, <3>1 DEF Copied
    <2> QED
      BY <2>1, <2>2
  <1>7. Measured(call, results', count', ascii', hadError')
    <2>1. CASE call.task = "length" /\ ~call.strict
      <3>1. count' = count + 1 /\ ascii' = FALSE
        BY <2>1 DEF Error
      <3>2. Measures(enc, results, count)
        BY <2>1, BeforeResult
      <3>3. /\ Measures(enc, results', count')
            /\ ~AllASCII(enc, results')
        <4>1. PICK k \in Nat : k = count
          BY <1>0
        <4>2. v = ValueOf(enc, r) /\ Measures(enc, results, k) /\ results \in Seq(Element(enc))
          BY <1>0, <1>3, <3>2, <4>1
        <4>3. /\ v < 65536 => Measures(enc, Append(results, r), k + 1)
              /\ AllASCII(enc, Append(results, r)) <=> AllASCII(enc, results) /\ v < 128
          BY <4>2, MeasuresMore
        <4> QED
          BY <1>2, <1>3, <3>1, <4>1, <4>3
      <3>4. count' \in Nat
        BY <1>0, <3>1
      <3> QED
        BY <1>0, <3>1, <3>3, <3>4 DEF Measured
    <2>2. CASE ~(call.task = "length" /\ ~call.strict)
      <3>1. count' = count /\ ascii' = ascii
        BY <1>0, <2>2 DEF Error
      <3>2. call.task = "length" => Stopped(call, hadError')
        BY <1>2, <2>2 DEF Stopped
      <3> QED
        BY <1>0, <3>1, <3>2 DEF Measured
    <2> QED
      BY <2>1, <2>2
  <1> QED
    BY <1>5, <1>6, <1>7, KeepsTInv

\* The loop over the ASCII units.
LEMMA CountASCIITStep ==
    ASSUME IInv, DInv, TInv, CountASCII
    PROVE  TInv'
  <1>1. /\ phase = "ascii" /\ enc = "UTF8" /\ call.task = "length" /\ input # <<>>
        /\ Head(input) < 128 /\ UNCHANGED <<call, text, phase, output, ascii, hadError>>
        /\ count' = count + 1 /\ results' = Append(results, Result(TRUE, 1, <<Head(input)>>))
    BY Before DEF CountASCII, DInv
  <1>2. /\ enc = call.enc /\ results \in Seq(Element(enc)) /\ ~Stopped(call, hadError)
        /\ hadError \in BOOLEAN /\ output = <<>> /\ count \in Nat /\ ascii \in BOOLEAN
        /\ Measures(enc, results, count) /\ (ascii <=> AllASCII(enc, results))
    BY <1>1, BeforeResult
  <1>3. PICK u : u = Head(input)
    OBVIOUS
  <1>4. u \in Nat
    <2>1. input \in Seq(Units(enc))
      BY DEF IInv, Typed
    <2>2. u \in Units(enc)
      BY <1>1, <1>3, <2>1
    <2> QED
      BY <1>1, <2>2, UnitBounds DEF Units
  <1>r. PICK r : r = [valid |-> TRUE, length |-> 1, scalar |-> <<u>>]
    OBVIOUS
  <1>5. r = Result(TRUE, 1, <<u>>) /\ r.valid = TRUE /\ u = ValueOf(enc, r)
    <2>1. Len(<<u>>) = 1 /\ <<u>>[1] = u
      OBVIOUS
    <2>2. Value("UTF8", <<u>>) = u
      BY <2>1 DEF Value
    <2>3. r.valid = TRUE /\ r.scalar = <<u>> /\ r = Result(TRUE, 1, <<u>>)
      BY <1>r DEF Result
    <2>4. ValueOf(enc, r) = Value(enc, r.scalar)
      <3>1. r.valid
        BY <2>3
      <3> QED
        BY <3>1 DEF ValueOf
    <2> QED
      BY <1>1, <2>2, <2>3, <2>4
  <1>6. u < 65536 /\ u < 128
    BY <1>1, <1>3, <1>4
  <1>7. results' = Append(results, r)
    BY <1>1, <1>3, <1>5
  <1>8. /\ Measures(enc, results', count')
        /\ AllASCII(enc, results') <=> AllASCII(enc, results)
    <2>1. PICK k \in Nat : k = count
      BY <1>2
    <2>2. u = ValueOf(enc, r) /\ Measures(enc, results, k) /\ results \in Seq(Element(enc))
      BY <1>2, <1>5, <2>1
    <2>3. /\ u < 65536 => Measures(enc, Append(results, r), k + 1)
          /\ AllASCII(enc, Append(results, r)) <=> AllASCII(enc, results) /\ u < 128
      BY <1>4, <2>2, MeasuresMore
    <2>4. count' = k + 1 /\ results' = Append(results, r)
      BY <1>1, <1>7, <2>1
    <2> QED
      BY <1>6, <2>3, <2>4
  <1>9. Noted(call, results', phase', hadError')
    <2>1. Noted(call, results, phase, hadError) /\ hadError' = hadError
      BY <1>1 DEF TInv
    <2> QED
      BY <1>2, <1>5, <1>7, <2>1, NotedMore
  <1>10. Copied(call, results', output', hadError')
    BY <1>1, <1>2 DEF Copied
  <1>11. Measured(call, results', count', ascii', hadError')
    <2>1. count' \in Nat /\ ascii' \in BOOLEAN
      BY <1>1, <1>2
    <2> QED
      BY <1>1, <1>2, <1>8, <2>1 DEF Measured
  <1>12. UNCHANGED <<call, text>>
    BY <1>1
  <1> QED
    BY <1>9, <1>10, <1>11, <1>12, KeepsTInv

LEMMA InitTInv == Init => TInv
  <1> SUFFICES ASSUME Init PROVE TInv
    OBVIOUS
  <1>1. call.enc \in Encodings /\ call.out \in Encodings
    BY CallsAssumption DEF Init
  <1>2. /\ results = <<>> /\ output = <<>> /\ count = 0 /\ ascii = TRUE /\ hadError = FALSE
        /\ Fits(call, text)
    BY DEF Init
  <1>3. Len(<<>>) = 0 /\ 1 .. 0 = {}
    OBVIOUS
  <1>4. /\ Copies(call.enc, <<>>, 0, call.out, <<>>) /\ Measures(call.enc, <<>>, 0)
        /\ AllASCII(call.enc, <<>>)
    BY <1>1, CopiesNothing
  <1>5. ~Stopped(call, FALSE)
    BY DEF Stopped
  <1>6. Noted(call, <<>>, phase, FALSE)
    BY <1>3, <1>5 DEF Noted
  <1>7. Copied(call, <<>>, <<>>, FALSE)
    BY <1>3, <1>4, <1>5 DEF Copied
  <1>8. Measured(call, <<>>, 0, TRUE, FALSE)
    BY <1>4, <1>5 DEF Measured
  <1> QED
    BY <1>2, <1>6, <1>7, <1>8 DEF TInv

\* Every step keeps it.
LEMMA StepTInv ==
    ASSUME IInv, DInv, TInv, DInv', [Next]_vars
    PROVE  TInv'
  <1>1. CASE CountASCII
    BY <1>1, CountASCIITStep
  <1>2. CASE OnlyASCII \/ EmptyInput \/ SeedParser
    <2>1. phase # "done" /\ UNCHANGED <<call, text, results, output, count, ascii, hadError>>
      BY <1>2 DEF OnlyASCII, EmptyInput, SeedParser
    <2>2. ~Stopped(call, hadError)
      BY <2>1, BeforeResult
    <2>3. Noted(call, results', phase', hadError')
      BY <2>1, <2>2 DEF TInv, Noted
    <2>4. Copied(call, results', output', hadError') /\ Measured(call, results', count', ascii', hadError')
      BY <2>1 DEF TInv
    <2> QED
      BY <2>1, <2>3, <2>4, KeepsTInv
  <1>3. CASE ScalarFromInput
    <2>1. phase # "done" /\ UNCHANGED <<call, text>> /\ Valid(<<Head(input)>>)
      BY <1>3 DEF ScalarFromInput
    <2> QED
      BY <2>1, ValidStep
  <1>4. CASE ScalarFromBuffer
    <2>1. phase # "done" /\ UNCHANGED <<call, text>> /\ Valid(<<buffer.units[1]>>)
      BY <1>4 DEF ScalarFromBuffer
    <2> QED
      BY <2>1, ValidStep
  <1>5. CASE ParseBuffered
    <2>1. phase # "done" /\ UNCHANGED <<call, text>> /\ ((\E s : Valid(s)) \/ (\E n : Error(n)))
      BY <1>5 DEF ParseBuffered
    <2> QED
      BY <2>1, ValidStep, ErrorStep
  <1>6. CASE UNCHANGED vars
    <2>1. UNCHANGED <<call, text, phase, results, output, count, ascii, hadError>>
      BY <1>6 DEF vars
    <2>2. /\ Noted(call, results', phase', hadError') /\ Copied(call, results', output', hadError')
          /\ Measured(call, results', count', ascii', hadError') /\ UNCHANGED <<call, text>>
      BY <2>1 DEF TInv
    <2> QED
      BY <2>2, KeepsTInv
  <1> QED
    BY <1>1, <1>2, <1>3, <1>4, <1>5, <1>6 DEF Next, Done

\* All three invariants together.
THEOREM CopyInvariant == Spec => [](IInv /\ DInv /\ TInv)
  <1>1. Init => TInv
    BY InitTInv
  <1>2. IInv /\ DInv /\ (IInv /\ DInv)' /\ TInv /\ [Next]_vars => TInv'
    BY StepTInv
  <1> QED
    BY <1>1, <1>2, DivisionInvariant, PTL DEF Spec

-----------------------------------------------------------------------------
(***************************************************************************)
(* What the invariants say of a call that has returned.                    *)
(***************************************************************************)
LEMMA ValuesFacts ==
    ASSUME NEW e, NEW X, NEW s \in Seq(X)
    PROVE  /\ DOMAIN Values(e, s) = 1 .. Len(s) /\ Len(Values(e, s)) = Len(s)
           /\ Values(e, s) = [i \in 1 .. Len(s) |-> ValueOf(e, s[i])]
           /\ \A i \in 1 .. Len(s) : Values(e, s)[i] = ValueOf(e, s[i])
  <1>1. PICK L \in Nat : L = Len(s) /\ DOMAIN s = 1 .. L
    BY LenProperties
  <1>2. Values(e, s) = [i \in 1 .. L |-> ValueOf(e, s[i])]
    BY <1>1 DEF Values, ValueOf
  <1>3. Len([i \in 1 .. L |-> ValueOf(e, s[i])]) = L
    OBVIOUS
  <1>4. /\ DOMAIN [i \in 1 .. L |-> ValueOf(e, s[i])] = 1 .. L
        /\ \A i \in 1 .. L : [j \in 1 .. L |-> ValueOf(e, s[j])][i] = ValueOf(e, s[i])
    OBVIOUS
  <1> QED
    BY <1>1, <1>2, <1>3, <1>4

\* The results beside the elements of the division, in a forward call.
LEMMA Results ==
    ASSUME IInv, DInv, call.dir = "forward"
    PROVE  /\ enc \in Encodings /\ Segments(enc, text) \in Seq(Element(enc))
           /\ results \in Seq(Element(enc)) /\ Len(results) <= Len(Segments(enc, text))
           /\ \A i \in 1 .. Len(results) :
                /\ results[i].valid = Segments(enc, text)[i].valid
                /\ ValueOf(enc, results[i]) = ValueOf(enc, Segments(enc, text)[i])
           /\ phase = "done" /\ call.task # "one" /\ ~Stopped(call, hadError) =>
                Len(results) = Len(Segments(enc, text))
  <1>1. enc \in Encodings /\ call.dir \in Directions /\ text \in Seq(Units(enc))
    BY CallFacts DEF IInv
  <1>2. PICK S \in Seq(Element(enc)) : S = Segments(enc, text)
    BY <1>1, SegmentsDivide
  <1>3. /\ results \in Seq(Element(enc)) /\ Len(results) <= Len(S)
        /\ \A i \in 1 .. Len(results) : Agrees(call.dir, text, results[i], S[i])
    <2>1. \A i : Expected(enc, call.dir, text, i) = S[i]
      BY <1>2 DEF Expected
    <2> QED
      BY <1>2, <2>1 DEF DInv, InStep
  <1>4. \A i \in 1 .. Len(results) : /\ results[i].valid = S[i].valid
                                     /\ results[i].valid => results[i].scalar = S[i].scalar
    BY <1>3 DEF Agrees, Plain
  <1>5. \A i \in 1 .. Len(results) : ValueOf(enc, results[i]) = ValueOf(enc, S[i])
    BY <1>4 DEF ValueOf
  <1>6. ASSUME phase = "done", call.task # "one", ~Stopped(call, hadError)
        PROVE  Len(results) = Len(S)
    <2>1. InStep(enc, call.dir, text, results, 0)
      BY <1>6 DEF DInv, Stopped
    <2> QED
      BY <1>1, <1>2, <2>1, EndInStep
  <1> QED
    BY <1>1, <1>2, <1>3, <1>4, <1>5, <1>6

\* The errors of a division, and what a call keeps of it.
ErrorsOf(S) == {i \in DOMAIN S : ~S[i].valid}

Kept(c, S) ==
    IF c.strict /\ ErrorsOf(S) # {} THEN SubSeq(S, 1, Min(ErrorsOf(S)) - 1) ELSE S

LEMMA Beginning ==
    ASSUME NEW X, NEW s \in Seq(X), NEW n \in Nat, n <= Len(s), n # 0
    PROVE  /\ SubSeq(s, 1, n - 1) \in Seq(X) /\ Len(SubSeq(s, 1, n - 1)) = n - 1
           /\ \A i \in 1 .. n - 1 : SubSeq(s, 1, n - 1)[i] = s[i]
  OBVIOUS

\* What transcode has kept of its text.
LEMMA Keeps ==
    ASSUME IInv, DInv, TInv, call.task = "transcode", phase = "done"
    PROVE  /\ hadError = (ErrorsOf(Segments(enc, text)) # {})
           /\ Kept(call, Segments(enc, text)) \in Seq(Element(enc))
           /\ Len(Kept(call, Segments(enc, text)))
                = IF Stopped(call, hadError) THEN Len(results) - 1 ELSE Len(results)
           /\ \A i \in 1 .. Len(Kept(call, Segments(enc, text))) :
                ValueOf(enc, Kept(call, Segments(enc, text))[i]) = ValueOf(enc, results[i])
  <1>0. PICK S : S = Segments(enc, text)
    OBVIOUS
  <1>1. call.dir = "forward"
    BY CallsAssumption DEF IInv, Typed
  <1>2. /\ enc \in Encodings /\ S \in Seq(Element(enc)) /\ results \in Seq(Element(enc))
        /\ Len(results) <= Len(S)
        /\ \A i \in 1 .. Len(results) : /\ results[i].valid = S[i].valid
                                        /\ ValueOf(enc, results[i]) = ValueOf(enc, S[i])
        /\ ~Stopped(call, hadError) => Len(results) = Len(S)
    BY <1>0, <1>1, Results
  <1>3. PICK L \in Nat, m \in Nat : L = Len(S) /\ m = Len(results) /\ DOMAIN S = 1 .. L
    BY <1>2, LenProperties
  <1>4. PICK errors : errors = ErrorsOf(S)
    OBVIOUS
  <1>9. PICK kept : kept = Kept(call, S)
    OBVIOUS
  <1>5. /\ hadError \in BOOLEAN
        /\ hadError <=> \E i \in 1 .. m : ~results[i].valid
        /\ Stopped(call, hadError) => m # 0 /\ \A i \in 1 .. m : i # m => results[i].valid
    BY <1>3 DEF TInv, Noted
  <1>6. errors = {i \in 1 .. L : ~S[i].valid}
    BY <1>3, <1>4 DEF ErrorsOf
  <1>7. CASE Stopped(call, hadError)
    <2>1. call.strict /\ hadError
      BY <1>7 DEF Stopped
    <2>2. m \in 1 .. m /\ ~results[m].valid
      BY <1>5, <1>7, <2>1
    <2>3. \A i \in 1 .. m : i \in 1 .. L
      BY <1>2, <1>3
    <2>4. m \in errors
      BY <1>2, <1>3, <1>6, <2>2, <2>3
    <2>5. \A i \in errors : i \in Nat /\ m <= i
      <3> SUFFICES ASSUME NEW i \in errors, ~(m <= i) PROVE FALSE
        BY <1>6
      <3>1. i \in 1 .. m /\ i # m
        BY <1>6
      <3>2. results[i].valid
        BY <1>5, <1>7, <3>1
      <3> QED
        BY <1>2, <1>3, <1>6, <3>1, <3>2
    <2>6. Min(errors) = m
      <3> DEFINE Q(x) == x \in errors /\ \A y \in errors : x <= y
      <3>1. Q(m)
        BY <2>4, <2>5
      <3>2. \A x : Q(x) => x = m
        <4> SUFFICES ASSUME NEW x, Q(x) PROVE x = m
          OBVIOUS
        <4>1. x \in Nat /\ x <= m /\ m <= x
          BY <2>4, <2>5
        <4> QED
          BY <4>1
      <3>3. Min(errors) = CHOOSE x : Q(x)
        BY DEF Min
      <3> HIDE DEF Q
      <3>4. Q(CHOOSE x : Q(x))
        BY <3>1
      <3> QED
        BY <3>2, <3>3, <3>4
    <2>7. kept = SubSeq(S, 1, m - 1)
      BY <1>4, <1>9, <2>1, <2>4, <2>6 DEF Kept
    <2>8. /\ kept \in Seq(Element(enc)) /\ Len(kept) = m - 1
          /\ \A i \in 1 .. m - 1 : kept[i] = S[i]
      <3>1. m <= Len(S) /\ m # 0
        BY <1>2, <1>3, <2>2
      <3>2. /\ SubSeq(S, 1, m - 1) \in Seq(Element(enc)) /\ Len(SubSeq(S, 1, m - 1)) = m - 1
            /\ \A i \in 1 .. m - 1 : SubSeq(S, 1, m - 1)[i] = S[i]
        BY <1>2, <3>1, Beginning
      <3> QED
        BY <2>7, <3>2
    <2>9. \A i \in 1 .. m - 1 : ValueOf(enc, kept[i]) = ValueOf(enc, results[i])
      <3>1. \A i \in 1 .. m - 1 : i \in 1 .. m
        OBVIOUS
      <3> QED
        BY <1>2, <1>3, <2>8, <3>1
    <2>10. hadError = (errors # {})
      BY <1>5, <2>1, <2>4
    <2> QED
      BY <1>0, <1>3, <1>4, <1>7, <1>9, <2>8, <2>9, <2>10
  <1>8. CASE ~Stopped(call, hadError)
    <2>1. L = m
      BY <1>2, <1>3, <1>8
    <2>2. hadError <=> errors # {}
      BY <1>2, <1>3, <1>5, <1>6, <2>1
    <2>3. kept = S
      BY <1>4, <1>8, <1>9, <2>2 DEF Stopped, Kept
    <2>4. hadError = (errors # {})
      BY <1>5, <2>2
    <2> QED
      BY <1>0, <1>2, <1>3, <1>4, <1>8, <1>9, <2>1, <2>3, <2>4
  <1> QED
    BY <1>7, <1>8

LEMMA FaithfulSo ==
    ASSUME IInv, DInv, TInv PROVE TranscodesFaithfully
  <1> SUFFICES ASSUME call.task = "transcode", phase = "done"
               PROVE  TranscodesFaithfully
    BY DEF TranscodesFaithfully
  <1>1. PICK S : S = Segments(enc, text)
    OBVIOUS
  <1>2. PICK errors : errors = ErrorsOf(S)
    OBVIOUS
  <1>3. PICK kept : kept = Kept(call, S)
    OBVIOUS
  <1>4. /\ hadError = (errors # {}) /\ kept \in Seq(Element(enc))
        /\ Len(kept) = IF Stopped(call, hadError) THEN Len(results) - 1 ELSE Len(results)
        /\ \A i \in 1 .. Len(kept) : ValueOf(enc, kept[i]) = ValueOf(enc, results[i])
    BY <1>1, <1>2, <1>3, Keeps
  <1>5. Copies(enc, results, Len(kept), call.out, output)
    BY <1>4 DEF TInv, Copied, enc
  <1>6. PICK vs : /\ Spells(call.out, output, vs) /\ Len(vs) = Len(kept)
                  /\ \A i \in 1 .. Len(kept) : vs[i] = ValueOf(enc, results[i])
    BY <1>5 DEF Copies
  <1>7. call.out \in Encodings
    BY CallsAssumption DEF IInv, Typed
  <1>8. output \in Seq(Units(call.out))
    BY <1>6 DEF Spells
  <1>9. PICK made \in Seq(Element(call.out)) : made = Segments(call.out, output)
    BY <1>7, <1>8, SegmentsDivide
  <1>10. PICK K \in Nat : K = Len(kept) /\ K = Len(made)
    BY <1>4, <1>6, <1>9, LenProperties DEF Spells
  <1>11. \A i \in 1 .. K : made[i].valid /\ ValueOf(call.out, made[i]) = ValueOf(enc, kept[i])
    <2> SUFFICES ASSUME NEW i \in 1 .. K
                 PROVE  made[i].valid /\ ValueOf(call.out, made[i]) = ValueOf(enc, kept[i])
      OBVIOUS
    <2>1. made[i].valid /\ Value(call.out, made[i].scalar) = vs[i]
      BY <1>6, <1>9, <1>10 DEF Spells
    <2>2. vs[i] = ValueOf(enc, kept[i])
      BY <1>4, <1>6, <1>10
    <2> QED
      BY <2>1, <2>2 DEF ValueOf
  <1>12. \A i \in DOMAIN made : made[i].valid
    <2>1. DOMAIN made = 1 .. K
      BY <1>10, LenProperties
    <2> QED
      BY <1>11, <2>1
  <1>13. Values(call.out, made) = Values(enc, kept)
    <2>1. Values(call.out, made) = [i \in 1 .. K |-> ValueOf(call.out, made[i])]
      BY <1>10, ValuesFacts
    <2>2. Values(enc, kept) = [i \in 1 .. K |-> ValueOf(enc, kept[i])]
      BY <1>4, <1>10, ValuesFacts
    <2> QED
      BY <1>11, <2>1, <2>2
  <1> QED
    BY <1>1, <1>2, <1>3, <1>4, <1>9, <1>12, <1>13 DEF TranscodesFaithfully, ErrorsOf, Kept

\* The text that transcode makes, in any encoding, is well-formed and has the
\* scalars of its input, the replacement character for each ill-formed part; a
\* strict call makes those before the first.
THEOREM Faithful == Spec => []TranscodesFaithfully
  <1>1. IInv /\ DInv /\ TInv => TranscodesFaithfully
    BY FaithfulSo
  <1> QED
    BY <1>1, CopyInvariant, PTL

LEMMA LengthSo ==
    ASSUME IInv, DInv, TInv PROVE LengthOfTheCopy
  <1> SUFFICES ASSUME call.task = "length", phase = "done", ~(call.strict /\ hadError)
               PROVE  LengthOfTheCopy
    BY DEF LengthOfTheCopy
  <1>1. call.dir = "forward" /\ ~Stopped(call, hadError) /\ call.task # "one"
    BY CallsAssumption DEF IInv, Typed, Stopped
  <1>2. PICK S \in Seq(Element(enc)) : S = Segments(enc, text)
    BY <1>1, Results
  <1>3. PICK L \in Nat : L = Len(S) /\ L = Len(results)
    BY <1>1, <1>2, Results, LenProperties
  <1>4. \A i \in 1 .. L : ValueOf(enc, results[i]) = ValueOf(enc, S[i])
    BY <1>1, <1>2, <1>3, Results
  <1>5. PICK v : v = Values(enc, S)
    OBVIOUS
  <1>6. /\ DOMAIN v = 1 .. L /\ Len(v) = L
        /\ \A i \in 1 .. L : v[i] = ValueOf(enc, results[i])
    <2>1. /\ DOMAIN v = 1 .. Len(S) /\ Len(v) = Len(S)
          /\ \A i \in 1 .. Len(S) : v[i] = ValueOf(enc, S[i])
      BY <1>5, ValuesFacts
    <2> QED
      BY <1>3, <1>4, <2>1
  <1>7. Measures(enc, results, count) /\ (ascii <=> AllASCII(enc, results)) /\ ascii \in BOOLEAN
    BY <1>1 DEF TInv, Measured, enc
  <1>8. {i \in DOMAIN v : v[i] >= 65536} = Wide(enc, results)
    BY <1>3, <1>6 DEF Wide
  <1>9. count = Len(v) + Cardinality({i \in DOMAIN v : v[i] >= 65536})
    <2>1. count = L + Cardinality(Wide(enc, results))
      BY <1>3, <1>7 DEF Measures
    <2>2. PICK W : W = Wide(enc, results) /\ W = {i \in DOMAIN v : v[i] >= 65536}
      BY <1>8
    <2>3. count = Len(v) + Cardinality(W)
      BY <1>6, <2>1, <2>2
    <2> QED
      BY <2>2, <2>3
  <1>10. ascii = (\A i \in DOMAIN v : v[i] < 128)
    <2>1. AllASCII(enc, results) <=> \A i \in DOMAIN v : v[i] < 128
      BY <1>3, <1>6 DEF AllASCII
    <2> QED
      BY <1>7, <2>1
  <1> QED
    BY <1>2, <1>5, <1>9, <1>10 DEF LengthOfTheCopy

\* transcodedLength counts the units of the text's copy in UTF-16 and says
\* whether all of it is ASCII.
THEOREM LengthIsThatOfTheCopy == Spec => []LengthOfTheCopy
  <1>1. IInv /\ DInv /\ TInv => LengthOfTheCopy
    BY LengthSo
  <1> QED
    BY <1>1, CopyInvariant, PTL

LEMMA TypesSo ==
    ASSUME IInv, DInv, TInv PROVE TypeOK
  <1>1. Typed /\ enc \in Encodings /\ call.out \in Encodings /\ enc = call.enc
    BY CallsAssumption DEF IInv, Typed, enc
  <1>2. buffer \in Buffer(enc)
    <2>1. Capacity(enc) \in {2, 4}
      BY <1>1, CallFacts
    <2>2. \A n \in 0 .. Capacity(enc) : n \in 0 .. 8 * Capacity(enc) - 1
      BY <2>1
    <2>3. buffer \in [units : Storage(enc), count : 0 .. Capacity(enc)]
      BY <1>1 DEF Typed
    <2> QED
      BY <2>2, <2>3 DEF Buffer
  <1>3. results \in Seq([valid : BOOLEAN, length : 1 .. 4, scalar : Seq(Units(enc))])
    BY DEF DInv, InStep, Element
  <1>4. output \in Seq(Units(call.out))
    <2>1. CASE call.task = "transcode"
      BY <2>1 DEF TInv, Copied, Copies, Spells
    <2>2. CASE call.task # "transcode"
      <3>1. output = <<>>
        BY <2>2 DEF TInv, Copied
      <3> QED
        BY <3>1
    <2> QED
      BY <2>1, <2>2
  <1>5. Fits(call, text) /\ count \in Nat /\ ascii \in BOOLEAN /\ hadError \in BOOLEAN
    BY DEF TInv, Noted, Measured
  <1> QED
    BY <1>1, <1>2, <1>3, <1>4, <1>5 DEF TypeOK, Typed

\* The state always has the shape that the code gives it.
THEOREM TypeCorrect == Spec => []TypeOK
  <1>1. IInv /\ DInv /\ TInv => TypeOK
    BY TypesSo
  <1> QED
    BY <1>1, CopyInvariant, PTL

=============================================================================
