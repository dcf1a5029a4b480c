----------------------------- MODULE UTFParser -----------------------------
(***************************************************************************)
(* Parsing text into scalars: parseScalar of src/UTFEncoding.swift with    *)
(* its lookahead buffer and its iterator, driven by the loops of           *)
(* src/Unicode.swift and src/UTF16.swift that call it until the input is   *)
(* used up.  One behaviour is one call of one of these functions:          *)
(*                                                                         *)
(*   "transcode"  transcode(_:from:to:stoppingOnError:into:)               *)
(*   "length"     UTF16.transcodedLength(of:decodedAs:repairing...)        *)
(*   "one"        UTF8._decodeOne, on a word that holds four bytes         *)
(*   "parse"      parseScalar alone, again and again, as a caller of a     *)
(*                ForwardParser or a ReverseParser does                    *)
(*                                                                         *)
(* A ReverseParser is given the text from its end.                         *)
(***************************************************************************)
EXTENDS UnicodeEncodings, UnicodeStandard, SequencesExt

CONSTANTS
    Calls,    \* the calls: [task, enc, dir, out, strict]
    Texts     \* for every encoding, the texts that are tried

(***************************************************************************)
(* enc and out are the encodings of the text and of the result, dir is the *)
(* parser's direction; strict is stoppingOnError, or the opposite of       *)
(* repairingIllFormedSequences.                                            *)
(***************************************************************************)
ASSUME CallsAssumption ==
    \A c \in Calls :
        /\ c.task \in {"transcode", "length", "one", "parse"}
        /\ c.enc \in Encodings /\ c.out \in Encodings /\ c.dir \in Directions
        /\ c.strict \in BOOLEAN
        /\ c.task = "one" => c.enc = "UTF8"
        /\ c.task # "parse" => c.dir = "forward"
        /\ c.task = "length" => c.out = "UTF16"

ASSUME TextsAssumption ==
    \A en \in Encodings : \A text \in Texts[en] : text \in Seq(Units(en))

VARIABLES
    call,      \* what is called
    text,      \* with which text
    phase,     \* "ascii" (the loop before the parser), "parse", "done"
    input,     \* what the iterator still has
    buffer,    \* the parser's lookahead
    results,   \* the results of parseScalar so far, the ASCII loop's included
    output,    \* units handed to processCodeUnit
    count,     \* utf16Count
    ascii,     \* utf16BitUnion < 0x80
    hadError

vars == <<call, text, phase, input, buffer, results, output, count, ascii, hadError>>

enc == call.enc

\* _decodeOne gets here with four bytes that do not start with ASCII.
Fits(c, t) == c.task = "one" => Len(t) = 4 /\ ~IsScalar("UTF8", t[1])

Init ==
    /\ call \in Calls /\ text \in Texts[enc] /\ Fits(call, text)
    /\ phase = IF call.task = "length" /\ enc = "UTF8" THEN "ascii" ELSE "parse"
    /\ input = CASE call.task = "one" -> <<>>
                 [] call.dir = "reverse" -> Reverse(text)
                 [] OTHER -> text
    /\ buffer = IF call.task = "one" THEN [units |-> text, count |-> 4]
                ELSE EmptyBuffer(enc)
    /\ results = <<>> /\ output = <<>>
    /\ count = 0 /\ ascii = TRUE /\ hadError = FALSE

-----------------------------------------------------------------------------
(***************************************************************************)
(* What the caller does with a result.                                     *)
(***************************************************************************)

Result(valid, n, s) == [valid |-> valid, length |-> n, scalar |-> s]

\* _decodeOne makes one call.
AfterResult == IF call.task = "one" THEN "done" ELSE "parse"

Valid(s) ==
    /\ results' = Append(results, Result(TRUE, Len(s), s))
    /\ output' = IF call.task = "transcode" THEN output \o Transcode(call.out, enc, s)
                 ELSE output
    /\ count' = IF call.task = "length" THEN count + Len(Transcode("UTF16", enc, s))
                ELSE count
    /\ ascii' = (ascii /\ (call.task = "length" => IsASCIIText(Transcode("UTF16", enc, s))))
    /\ phase' = AfterResult
    /\ UNCHANGED hadError

\* An error stops a strict caller; the others put in the replacement character.
Error(n) ==
    /\ results' = Append(results, Result(FALSE, n, <<>>))
    /\ output' = IF call.task = "transcode" /\ ~call.strict
                 THEN output \o EncodedReplacement(call.out) ELSE output
    /\ count' = IF call.task = "length" /\ ~call.strict THEN count + 1 ELSE count
    /\ ascii' = (ascii /\ (call.task # "length" \/ call.strict))
    /\ hadError' = (hadError \/ call.task \in {"transcode", "length"})
    /\ phase' = IF call.strict /\ call.task \in {"transcode", "length"} THEN "done"
                ELSE AfterResult

-----------------------------------------------------------------------------
(***************************************************************************)
(* transcodedLength, the loop over the ASCII units of a UTF8 text before   *)
(* it makes a parser.                                                      *)
(***************************************************************************)

CountASCII ==
    /\ phase = "ascii" /\ input # <<>> /\ Head(input) < 128
    /\ count' = count + 1
    /\ input' = Tail(input)
    /\ results' = Append(results, Result(TRUE, 1, <<Head(input)>>))
    /\ UNCHANGED <<call, text, phase, buffer, output, ascii, hadError>>

OnlyASCII ==
    /\ phase = "ascii" /\ input = <<>>
    /\ phase' = "done"
    /\ UNCHANGED <<call, text, input, buffer, results, output, count, ascii, hadError>>

\* Mutant: the unit that ended the loop is forgotten.
SeedParserDropsUnit ==
    /\ phase = "ascii" /\ input # <<>> /\ Head(input) >= 128
    /\ input' = Tail(input)
    /\ phase' = "parse"
    /\ UNCHANGED <<call, text, buffer, results, output, count, ascii, hadError>>

\* The first other unit has been taken from the iterator: it goes into the
\* buffer of the new parser.
SeedParser ==
    /\ phase = "ascii" /\ input # <<>> /\ Head(input) >= 128
    /\ buffer' = AppendAll(enc, EmptyBuffer(enc), input, 1)
    /\ input' = Tail(input)
    /\ phase' = "parse"
    /\ UNCHANGED <<call, text, results, output, count, ascii, hadError>>

-----------------------------------------------------------------------------
(***************************************************************************)
(* parseScalar, and what its caller does with the result.                  *)
(***************************************************************************)

EmptyInput ==
    /\ phase = "parse" /\ buffer.count = 0 /\ input = <<>>
    /\ phase' = "done"
    /\ UNCHANGED <<call, text, input, buffer, results, output, count, ascii, hadError>>

\* Bufferless single-scalar fastpath.
ScalarFromInput ==
    /\ phase = "parse" /\ buffer.count = 0 /\ input # <<>>
    /\ IsScalar(enc, Head(input))
    /\ input' = Tail(input)
    /\ Valid(<<Head(input)>>)
    /\ UNCHANGED <<call, text, buffer>>

\* Mutant: the scalar stays in the buffer.
ScalarFromBufferKept ==
    /\ phase = "parse" /\ buffer.count # 0
    /\ IsScalar(enc, buffer.units[1])
    /\ Valid(<<buffer.units[1]>>)
    /\ UNCHANGED <<call, text, input, buffer>>

\* A scalar at the head of the buffer, which is not refilled.
ScalarFromBuffer ==
    /\ phase = "parse" /\ buffer.count # 0
    /\ IsScalar(enc, buffer.units[1])
    /\ buffer' = ShiftOut(enc, buffer, 1)
    /\ Valid(<<buffer.units[1]>>)
    /\ UNCHANGED <<call, text, input>>

\* How many units the loop that fills the buffer takes: it appends before it
\* looks at the capacity.
Refill ==
    LET room == Capacity(enc) - buffer.count
        most == IF room > 1 THEN room ELSE 1
    IN  IF Len(input) < most THEN Len(input) ELSE most

\* Buffering mode.
ParseBuffered ==
    /\ phase = "parse"
    /\ IF buffer.count = 0 THEN input # <<>> /\ ~IsScalar(enc, Head(input))
       ELSE ~IsScalar(enc, buffer.units[1])
    /\ LET filled == AppendAll(enc, buffer, input, Refill)
           parsed == ParseMultiple(enc, call.dir, filled.units)
       IN  /\ input' = SubSeq(input, Refill + 1, Len(input))
           /\ buffer' = ShiftOut(enc, filled, parsed.length)
           /\ IF parsed.valid
              THEN Valid(BufferedScalar(enc, call.dir, filled.units, parsed.length))
              ELSE Error(parsed.length)
    /\ UNCHANGED <<call, text>>

\* Nothing happens after the call has returned.
Done == phase = "done" /\ UNCHANGED vars

Next ==
    \/ CountASCII \/ OnlyASCII \/ SeedParser
    \/ EmptyInput \/ ScalarFromInput \/ ScalarFromBuffer \/ ParseBuffered
    \/ Done

Spec == Init /\ [][Next]_vars

-----------------------------------------------------------------------------
(***************************************************************************)
(* Properties.                                                             *)
(***************************************************************************)

\* The state has the shape that the code gives it.
TypeOK ==
    /\ call \in Calls /\ text \in Texts[enc] /\ Fits(call, text)
    /\ phase \in {"ascii", "parse", "done"}
    /\ input \in Seq(Units(enc))
    /\ buffer \in Buffer(enc)
    /\ results \in Seq([valid : BOOLEAN, length : 1 .. 4, scalar : Seq(Units(enc))])
    /\ output \in Seq(Units(call.out))
    /\ count \in Nat
    /\ ascii \in BOOLEAN /\ hadError \in BOOLEAN

\* The i-th unit that the parser has not handed out yet, in its buffer or in the
\* iterator.
Unread(i) == IF i <= buffer.count THEN buffer.units[i] ELSE input[i - buffer.count]

Reading == IF call.dir = "reverse" THEN Reverse(text) ELSE text

NumberUnread == buffer.count + Len(input)

\* No unit is doubled or overtaken on its way through the lookahead buffer: the
\* units in the buffer and those still in the iterator are the end of the text.
\* The buffer never overflows (append, UIntBuffer.swift:186, would write over its
\* first unit) and has room again after every result, and the slots behind its
\* last unit, at which the parsers look without the count, are zero (parseScalar,
\* UTFEncoding.swift:58-80).
LookaheadIsTheText ==
    /\ NumberUnread <= Len(Reading)
    /\ \A i \in 1 .. NumberUnread :
         Unread(i) = Reading[Len(Reading) - NumberUnread + i]
    /\ buffer.count < Capacity(enc) \/ (call.task = "one" /\ phase = "parse")
    /\ \A i \in buffer.count + 1 .. Capacity(enc) : buffer.units[i] = 0

\* No call of parseScalar comes back without having taken a unit, so that no loop
\* around it runs for ever: each step takes a unit off those that are unread, or
\* the call goes on to its next phase (the assertions of UTFEncoding.swift:69-71).
EveryStepAdvances ==
    [][NumberUnread' < NumberUnread \/ phase' # phase]_vars

\* The division of the text: its scalars and the maximal subparts of ill-formed
\* sequences are found one by one, in the order of reading, whatever the
\* lookahead held from one call to the next; when everything has been read none is
\* missing.  Both directions divide a text in the same way
\* (_parseMultipleCodeUnits and _invalidLength, UTF8.swift:164-292).
DividesLikeTheStandard ==
    LET segments == Segments(enc, text)
        expected == IF call.dir = "reverse" THEN Reverse(segments) ELSE segments
        complete == phase = "done" /\ call.task # "one" /\ ~(call.strict /\ hadError)
    IN  /\ Len(results) <= Len(expected)
        /\ complete => Len(results) = Len(expected)
        /\ \A i \in DOMAIN results : results[i].valid = expected[i].valid
                                     /\ results[i].length = expected[i].length

\* The scalars that a parser hands out are those of the text: forward always, in
\* reverse in every text without the unit 255 (_bufferedScalar,
\* UTF8.swift:227-231 and 295-298, UTF16.swift:266-272 and 289-293).
ScalarsOfTheText ==
    LET segments == Segments(enc, text)
        expected == IF call.dir = "reverse" THEN Reverse(segments) ELSE segments
    IN  (call.dir = "forward" \/ \A i \in DOMAIN text : text[i] # 255)
        => \A i \in DOMAIN results :
             results[i].valid => /\ results[i].scalar = expected[i].scalar
                                 /\ Decode(enc, results[i].scalar)
                                      = Value(enc, expected[i].scalar)

\* transcode makes well-formed text with the scalars of its input, a replacement
\* character for each ill-formed part, and reports whether there was one; a
\* strict call stops before the first (Unicode.swift:221-257).
TranscodesFaithfully ==
    (call.task = "transcode" /\ phase = "done") =>
        LET segments == Segments(enc, text)
            made == Segments(call.out, output)
            errors == {i \in DOMAIN segments : ~segments[i].valid}
            kept == IF call.strict /\ errors # {} THEN SubSeq(segments, 1, Min(errors) - 1)
                    ELSE segments
        IN  /\ \A i \in DOMAIN made : made[i].valid
            /\ Values(call.out, made) = Values(enc, kept)
            /\ hadError = (errors # {})

\* transcodedLength says how many units a UTF-16 copy of the text takes, one for a
\* scalar and another one for a scalar that needs two, and whether all of it is
\* ASCII, although it counts the ASCII beginning of a UTF-8 text by another loop
\* and starts the parser in the middle (UTF16.swift:86-122).
LengthOfTheCopy ==
    (call.task = "length" /\ phase = "done" /\ ~(call.strict /\ hadError)) =>
        LET values == Values(enc, Segments(enc, text))
        IN  /\ count = Len(values) + Cardinality({i \in DOMAIN values : values[i] >= 65536})
            /\ ascii = (\A i \in DOMAIN values : values[i] < 128)

\* The value of a parsed scalar is a Unicode scalar, as
\* Unicode.Scalar(_unchecked:) asserts of what UTF8.decode and UTF16.decode give it
\* (Unicode.swift:303).
DecodesToScalars ==
    \A i \in DOMAIN results :
        results[i].valid => Decode(enc, results[i].scalar) \notin Surrogates

=============================================================================
