---------------------------- MODULE MCUTFParser ----------------------------
(***************************************************************************)
(* Small texts for UTFParser.  A unit stands for all units that the        *)
(* parsers' tests cannot tell from it.                                     *)
(***************************************************************************)
EXTENDS UTFParser

CONSTANTS
    Tasks,        \* a subset of {"transcode", "length", "one", "parse"}
    Directed,     \* the directions that "parse" is tried in
    UTF8Units,    \* bytes for every position of a short text
    ShortText,    \* length of the longest text made of them
    UTF8Longer,   \* bytes for longer texts, of which the buffer holds a part
    LongText,     \* length of the longest text made of them
    UTF16Units, UTF16Text

\* Leading bytes of every kind, then a second byte of every kind, then what can
\* follow: the tests on the second byte with everything behind it.
Leads == UTF8Units \cap 192 .. 255
FourBytes == {<<u, v, w, x>> : u \in Leads, v \in UTF8Units, w \in UTF8Longer, x \in UTF8Longer}

UTF8Texts == SeqOf(UTF8Units, ShortText) \cup SeqOf(UTF8Longer, LongText) \cup FourBytes
UTF16Texts == SeqOf(UTF16Units, UTF16Text)

MCTexts == [en \in Encodings |-> IF en = "UTF8" THEN UTF8Texts ELSE UTF16Texts]

MCCalls ==
    {c \in [task : Tasks, enc : Encodings, dir : Directed \cup {"forward"},
            out : Encodings, strict : BOOLEAN] :
        /\ c.task = "one" => c.enc = "UTF8"
        /\ c.task = "parse" => c.dir \in Directed
        /\ c.task # "parse" => c.dir = "forward"
        /\ c.task = "length" => c.out = "UTF16"
        /\ c.task \in {"one", "parse"} => c.out = c.enc /\ ~c.strict}

=============================================================================
