-------------------------------- MODULE MCFrameParser --------------------------------
(* FrameParser on every stream of up to MaxSegments genuine frames and pieces of garbage. *)
EXTENDS FrameParser, SequencesExt

CONSTANTS MaxSegments, Genuine, Garbage

\* N00[], N00[{"x"x}] and N00[{"\""x}]
Empty == <<"N", "0", "0", "[", "]">>
Status == <<"N", "0", "0", "[", "{", Quote, "x", Quote, "x", "}", "]">>
Escaped == <<"N", "0", "0", "[", "{", Quote, Backslash, Quote, Quote, "x", "}", "]">>

\* N00[{"N00[]"x}]: the text of the frame looks like a frame
Nested == <<"N", "0", "0", "[", "{", Quote>> \o Empty \o <<Quote, "x", "}", "]">>

\* Greeting bytes, a lone prefix, a header with a letter, a mismatched bracket, an
\* array of something else, text that is not UTF-8, and candidates cut off in the
\* header, in the array and in a string.
Noise == <<"x", "0", "]">>
Prefix == <<"N">>
NotDigits == <<"N", "0", "x">>
Mismatch == <<"N", "0", "0", "[", "}">>
NotObjects == <<"N", "0", "0", "[", "x", "]">>
NotUtf8 == <<"N", "0", "0", "[", "{", Quote, "?", Quote, "x", "}", "]">>
CutHeader == <<"N", "0">>
CutArray == <<"N", "0", "0", "[", "{">>
CutString == <<"N", "0", "0", "[", "{", Quote, "x">>
LongString == CutString \o <<"x", "x", "x", "x", "x", "x">>

Plain == {Empty, Status, Escaped}
AllGarbage == {Noise, Prefix, NotDigits, Mismatch, NotObjects, NotUtf8,
               CutHeader, CutArray, CutString, LongString}
NestedToo == {Empty, Nested}

Before(segments, k) == Len(FlattenSeq(SubSeq(segments, 1, k - 1)))

StreamOf(segments) ==
    [bytes |-> FlattenSeq(segments),
     frames |-> SelectSeq([k \in DOMAIN segments |->
                              [from |-> Before(segments, k), to |-> Before(segments, k + 1)]],
                          LAMBDA f : SubSeq(FlattenSeq(segments), f.from + 1, f.to) \in Genuine)]

MCStreams == {StreamOf(s) : s \in UNION {[1 .. n -> Genuine \cup Garbage] : n \in 1 .. MaxSegments}}

\* The hypothesis of the theorem on ExactlyTheSent (FrameParserProofs) holds of them.
ASSUME StreamsAreFramed == \A s \in MCStreams : Framed(s)
=======================================================================================
